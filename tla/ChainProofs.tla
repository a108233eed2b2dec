---------------------------- MODULE ChainProofs ----------------------------
(* What the operations of Chain return, for chains of any length. *)
EXTENDS Integers, Chain, TLAPS

LEMMA SeqElements ==
    ASSUME NEW S, NEW s \in Seq(S)
    PROVE  \A i \in 1..Len(s) : s[i] \in S
OBVIOUS

LEMMA SeqOfElements ==
    ASSUME NEW S, NEW T, NEW s \in Seq(T), \A i \in 1..Len(s) : s[i] \in S
    PROVE  s \in Seq(S)
<1>1. s = [i \in 1..Len(s) |-> s[i]] /\ Len(s) \in Nat
    OBVIOUS
<1>. QED
    BY <1>1

LEMMA TailOfOne ==
    ASSUME NEW S, NEW s \in Seq(S), Len(s) = 1
    PROVE  Tail(s) = <<>>
<1>1. s # <<>>
    OBVIOUS
<1>2. Tail(s) \in Seq(S) /\ Len(Tail(s)) = 0
    BY <1>1
<1>3. \A t \in Seq(S) : Len(t) = 0 => t = <<>>
    OBVIOUS
<1>. QED
    BY <1>2, <1>3

(* RemoveAt closes the gap: what follows position i moves one to the left. *)
LEMMA RemoveAtElements ==
    ASSUME NEW S, NEW s \in Seq(S), NEW i \in 1..Len(s)
    PROVE  /\ RemoveAt(s, i) \in Seq(S)
           /\ Len(RemoveAt(s, i)) = Len(s) - 1
           /\ \A j \in 1..(Len(s) - 1) :
                 RemoveAt(s, i)[j] = IF j < i THEN s[j] ELSE s[j + 1]
<1> DEFINE l == SubSeq(s, 1, i - 1)
           r == SubSeq(s, i + 1, Len(s))
<1>1. l \in Seq(S) /\ r \in Seq(S)
    OBVIOUS
<1>2. Len(l) = i - 1 /\ Len(r) = Len(s) - i
    OBVIOUS
<1>3. /\ \A j \in 1..(i - 1) : l[j] = s[j]
      /\ \A j \in 1..(Len(s) - i) : r[j] = s[j + i]
    OBVIOUS
<1> HIDE DEF l, r
<1>4. l \o r \in Seq(S) /\ Len(l \o r) = Len(s) - 1
    BY <1>1, <1>2
<1>5. ASSUME NEW j \in 1..(Len(s) - 1)
      PROVE  (l \o r)[j] = IF j < i THEN s[j] ELSE s[j + 1]
  <2>1. CASE j < i
      BY <1>1, <1>2, <1>3, <2>1
  <2>2. CASE ~(j < i)
    <3>1. (l \o r)[j] = r[j - (i - 1)]
        BY <1>1, <1>2, <2>2
    <3>2. j - (i - 1) \in 1..(Len(s) - i) /\ j - (i - 1) + i = j + 1
        BY <2>2
    <3>. QED
        BY <1>3, <2>2, <3>1, <3>2
  <2>. QED
      BY <2>1, <2>2
<1>. QED
    BY <1>4, <1>5 DEF RemoveAt, l, r

(* Front drops the last entry and nothing else. *)
LEMMA FrontElements ==
    ASSUME NEW S, NEW s \in Seq(S), Len(s) # 0
    PROVE  /\ Front(s) \in Seq(S)
           /\ Len(Front(s)) = Len(s) - 1
           /\ \A j \in 1..(Len(s) - 1) : Front(s)[j] = s[j]
<1>1. PICK n \in Nat : n = Len(s) - 1
    OBVIOUS
<1>2. SubSeq(s, 1, n) \in Seq(S)
    BY <1>1
<1>3. Len(SubSeq(s, 1, n)) = n
    BY <1>1
<1>4. \A j \in 1..n : SubSeq(s, 1, n)[j] = s[j]
    BY <1>1
<1>. QED
    BY <1>1, <1>2, <1>3, <1>4 DEF Front

(* An entry found in a chain is at a position of it. *)
LEMMA FindInChain ==
    ASSUME NEW E, NEW ch \in Seq(E), NEW k, in_chain(ch, k)
    PROVE  /\ find_in_chain(ch, k) \in 1..Len(ch)
           /\ ch[find_in_chain(ch, k)].key = k
BY DEF in_chain, find_in_chain

(* A chain in good order that holds keys of K and values of V only: it     *)
(* fits in its slots and has a key once.                                   *)
ChainOK(ch, K, V) ==
    /\ ch \in Seq([key : K, val : V])
    /\ Len(ch) <= CHAINLEN
    /\ \A i, j \in 1..Len(ch) : ch[i].key = ch[j].key => i = j

(* chain_set yields a chain whose entries are the new one and old ones    *)
(* with another key.  This needs a chain that holds its keys once, within *)
(* the slots in use.                                                      *)
LEMMA ChainSetElements ==
    ASSUME NEW K, NEW V, NEW ch, ChainOK(ch, K, V), NEW k \in K, NEW v \in V,
           NEW cap \in 1..CHAINLEN, Len(ch) <= cap
    PROVE  LET n == chain_set(ch, cap, k, v)
           IN  /\ ChainOK(n, K, V) /\ 1 \in 1..Len(n) /\ Len(n) <= cap
               /\ \A i \in 1..Len(n) :
                     \/ i = 1 /\ n[i] = [key |-> k, val |-> v]
                     \/ /\ i # 1 /\ n[i].key # k
                        /\ \E j \in 1..Len(ch) : n[i] = ch[j]
<1> DEFINE E == [key : K, val : V]
           new == [key |-> k, val |-> v]
           n == chain_set(ch, cap, k, v)
<1>a. /\ ch \in Seq(E) /\ Len(ch) <= cap /\ cap \in Nat /\ cap # 0 /\ cap <= CHAINLEN
      /\ \A i, j \in 1..Len(ch) : ch[i].key = ch[j].key => i = j
    BY ChainLenAssumption DEF ChainOK
<1> SUFFICES /\ n \in Seq(E) /\ 1 \in 1..Len(n)
             /\ Len(n) <= cap
             /\ \A i \in 1..Len(n) :
                   \/ i = 1 /\ n[i] = new
                   \/ /\ i # 1 /\ n[i].key # k
                      /\ \E j \in 1..Len(ch) : n[i] = ch[j]
             /\ \A i, j \in 1..Len(n) : n[i].key = n[j].key => i = j
    BY <1>a, ChainLenAssumption DEF ChainOK
<1> HIDE DEF n
<1>0. new \in E
    OBVIOUS
<1>1. ASSUME NEW t \in Seq(E),
             \A i \in 1..Len(t) : t[i].key # k
                                  /\ \E j \in 1..Len(ch) : t[i] = ch[j],
             \A i, j \in 1..Len(t) : t[i].key = t[j].key => i = j,
             n = <<new>> \o t
      PROVE  /\ n \in Seq(E) /\ 1 \in 1..Len(n)
             /\ Len(n) = Len(t) + 1
             /\ \A i \in 1..Len(n) :
                   \/ i = 1 /\ n[i] = new
                   \/ /\ i # 1 /\ n[i].key # k
                      /\ \E j \in 1..Len(ch) : n[i] = ch[j]
             /\ \A i, j \in 1..Len(n) : n[i].key = n[j].key => i = j
  <2>1. n \in Seq(E) /\ Len(n) = Len(t) + 1 /\ 1 \in 1..Len(n)
      BY <1>0, <1>1
  <2>2. n[1] = new
      BY <1>0, <1>1
  <2>3. \A i \in 1..Len(n) : i # 1 => i - 1 \in 1..Len(t) /\ n[i] = t[i - 1]
      BY <1>0, <1>1, <2>1
  <2>4. \A i \in 1..Len(n) :
           \/ i = 1 /\ n[i] = new
           \/ /\ i # 1 /\ n[i].key # k
              /\ \E j \in 1..Len(ch) : n[i] = ch[j]
      BY <1>1, <2>2, <2>3
  <2>5. ASSUME NEW i \in 1..Len(n), NEW j \in 1..Len(n), n[i].key = n[j].key
        PROVE  i = j
    <3>1. CASE i = 1 \/ j = 1
        BY <2>4, <2>5, <3>1, new.key = k
    <3>2. CASE i # 1 /\ j # 1
      <4>1. /\ i - 1 \in 1..Len(t) /\ j - 1 \in 1..Len(t)
            /\ t[i - 1].key = t[j - 1].key
          BY <2>3, <2>5, <3>2
      <4>2. i - 1 = j - 1
          BY <1>1, <4>1
      <4>. QED
          BY <4>2
    <3>. QED
        BY <3>1, <3>2
  <2>. QED
      BY <2>1, <2>4, <2>5
<1>2. CASE in_chain(ch, k)
  <2> DEFINE p == find_in_chain(ch, k)
             t == RemoveAt(ch, p)
  <2>1. p \in 1..Len(ch) /\ ch[p].key = k
      BY <1>a, <1>2, FindInChain
  <2>2. /\ t \in Seq(E) /\ Len(t) = Len(ch) - 1
        /\ \A j \in 1..(Len(ch) - 1) : t[j] = IF j < p THEN ch[j] ELSE ch[j + 1]
      BY <1>a, <2>1, RemoveAtElements
  <2> HIDE DEF p, t
  <2>3. \A i \in 1..Len(t) : t[i].key # k /\ \E j \in 1..Len(ch) : t[i] = ch[j]
    <3> TAKE i \in 1..Len(t)
    <3>1. PICK j \in 1..Len(ch) : t[i] = ch[j] /\ j # p
        BY <1>a, <2>1, <2>2
    <3>. QED
        BY <1>a, <2>1, <3>1
  <2>4. ASSUME NEW i \in 1..Len(t), NEW j \in 1..Len(t), t[i].key = t[j].key
        PROVE  i = j
    <3> DEFINE ii == IF i < p THEN i ELSE i + 1
               jj == IF j < p THEN j ELSE j + 1
    <3>1. ii \in 1..Len(ch) /\ jj \in 1..Len(ch) /\ (ii = jj => i = j)
        BY <1>a, <2>1, <2>2
    <3>2. t[i] = ch[ii] /\ t[j] = ch[jj]
        BY <1>a, <2>1, <2>2
    <3> HIDE DEF ii, jj
    <3>. QED
        BY <1>a, <2>4, <3>1, <3>2
  <2>5. n = <<new>> \o t
      BY <1>2 DEF chain_set, t, p, n
  <2>6. Len(t) + 1 = Len(ch)
      BY <1>a, <2>1, <2>2
  <2>. QED
      BY <1>a, <1>1, <2>2, <2>3, <2>4, <2>5, <2>6
<1>3. CASE ~in_chain(ch, k) /\ Len(ch) = cap
  <2>1. Len(ch) # 0
      BY <1>a, <1>3
  <2> DEFINE t == Front(ch)
  <2>2. t \in Seq(E) /\ Len(t) = Len(ch) - 1
        /\ \A j \in 1..(Len(ch) - 1) : t[j] = ch[j]
      BY <1>a, <2>1, FrontElements
  <2>3. n = <<new>> \o t
      BY <1>3 DEF chain_set, n
  <2> HIDE DEF t
  <2>4. \A i \in 1..Len(t) : t[i].key # k /\ \E j \in 1..Len(ch) : t[i] = ch[j]
      BY <1>a, <1>3, <2>2 DEF in_chain
  <2>5. \A i, j \in 1..Len(t) : t[i].key = t[j].key => i = j
      BY <1>a, <2>2
  <2>6. Len(t) + 1 = Len(ch)
      BY <1>a, <2>1, <2>2
  <2>. QED
      BY <1>a, <1>1, <2>2, <2>3, <2>4, <2>5, <2>6
<1>4. CASE ~in_chain(ch, k) /\ Len(ch) # cap
  <2>1. n = <<new>> \o ch
      BY <1>4 DEF chain_set, n
  <2>2. \A i \in 1..Len(ch) : ch[i].key # k
      BY <1>a, <1>4 DEF in_chain
  <2>3. Len(ch) + 1 <= cap
      BY <1>a, <1>4
  <2>. QED
      BY <1>a, <1>1, <2>1, <2>2, <2>3
<1>. QED
    BY <1>2, <1>3, <1>4

(* chain_del yields a chain without the key, all else as it was. *)
LEMMA ChainDelElements ==
    ASSUME NEW K, NEW V, NEW ch, ChainOK(ch, K, V), NEW k \in K
    PROVE  LET n == chain_del(ch, k)
           IN  /\ ChainOK(n, K, V) /\ Len(n) <= Len(ch)
               /\ \A i \in 1..Len(n) :
                     n[i].key # k /\ \E j \in 1..Len(ch) : n[i] = ch[j]
<1> DEFINE n == chain_del(ch, k)
<1>a. /\ ch \in Seq([key : K, val : V]) /\ Len(ch) <= CHAINLEN
      /\ \A i, j \in 1..Len(ch) : ch[i].key = ch[j].key => i = j
    BY DEF ChainOK
<1> SUFFICES /\ n \in Seq([key : K, val : V])
             /\ Len(n) <= CHAINLEN /\ Len(n) <= Len(ch)
             /\ \A i \in 1..Len(n) :
                   n[i].key # k /\ \E j \in 1..Len(ch) : n[i] = ch[j]
             /\ \A i, j \in 1..Len(n) : n[i].key = n[j].key => i = j
    BY DEF ChainOK
<1> HIDE DEF n
<1>1. CASE ~in_chain(ch, k)
    BY <1>a, <1>1 DEF chain_del, in_chain, n
<1>2. CASE in_chain(ch, k)
  <2> DEFINE p == find_in_chain(ch, k)
             t == RemoveAt(ch, p)
  <2>1. p \in 1..Len(ch) /\ ch[p].key = k
      BY <1>a, <1>2, FindInChain
  <2>2. /\ t \in Seq([key : K, val : V]) /\ Len(t) = Len(ch) - 1
        /\ \A j \in 1..(Len(ch) - 1) : t[j] = IF j < p THEN ch[j] ELSE ch[j + 1]
      BY <1>a, <2>1, RemoveAtElements
  <2>3. n = t
      BY <1>2 DEF chain_del, n
  <2> HIDE DEF p, t
  <2>4. \A i \in 1..Len(t) : t[i].key # k /\ \E j \in 1..Len(ch) : t[i] = ch[j]
    <3> TAKE i \in 1..Len(t)
    <3>1. PICK j \in 1..Len(ch) : t[i] = ch[j] /\ j # p
        BY <1>a, <2>1, <2>2
    <3>. QED
        BY <1>a, <2>1, <3>1
  <2>5. ASSUME NEW i \in 1..Len(t), NEW j \in 1..Len(t), t[i].key = t[j].key
        PROVE  i = j
    <3> DEFINE ii == IF i < p THEN i ELSE i + 1
               jj == IF j < p THEN j ELSE j + 1
    <3>1. ii \in 1..Len(ch) /\ jj \in 1..Len(ch) /\ (ii = jj => i = j)
        BY <1>a, <2>1, <2>2
    <3>2. t[i] = ch[ii] /\ t[j] = ch[jj]
        BY <1>a, <2>1, <2>2
    <3> HIDE DEF ii, jj
    <3>. QED
        BY <1>a, <2>5, <3>1, <3>2
  <2>6. Len(t) <= CHAINLEN
      BY <1>a, <2>1, <2>2, ChainLenAssumption
  <2>. QED
      BY <2>2, <2>3, <2>4, <2>5, <2>6
<1>. QED
    BY <1>1, <1>2

(* Front takes the last entry out. *)
LEMMA ChainFrontElements ==
    ASSUME NEW K, NEW V, NEW ch, ChainOK(ch, K, V), Len(ch) # 0
    PROVE  LET n == Front(ch)
           IN  /\ ChainOK(n, K, V) /\ Len(n) = Len(ch) - 1
               /\ \A i \in 1..Len(n) : \E j \in 1..Len(ch) : n[i] = ch[j]
<1> DEFINE n == Front(ch)
<1>1. /\ ch \in Seq([key : K, val : V]) /\ Len(ch) <= CHAINLEN
      /\ \A i, j \in 1..Len(ch) : ch[i].key = ch[j].key => i = j
    BY DEF ChainOK
<1>2. /\ n \in Seq([key : K, val : V]) /\ Len(n) = Len(ch) - 1
      /\ \A i \in 1..(Len(ch) - 1) : n[i] = ch[i]
    BY <1>1, FrontElements
<1> HIDE DEF n
<1>3. PICK l \in Nat : l = Len(ch) /\ l # 0
    BY <1>1
<1>4. \A i \in 1..Len(n) : i \in 1..l /\ n[i] = ch[i]
    BY <1>2, <1>3
<1>5. Len(n) <= CHAINLEN
    BY <1>1, <1>2, <1>3, ChainLenAssumption
<1>. QED
    BY <1>1, <1>2, <1>3, <1>4, <1>5 DEF ChainOK, n

(* chain_update changes the value of one entry and moves none. *)
LEMMA ChainUpdateElements ==
    ASSUME NEW K, NEW V, NEW ch, ChainOK(ch, K, V), NEW k \in K, NEW v \in V,
           in_chain(ch, k)
    PROVE  LET n == chain_update(ch, k, v)
           IN  /\ ChainOK(n, K, V)
               /\ Len(n) = Len(ch)
               /\ \A i \in 1..Len(n) :
                     n[i] = IF ch[i].key = k THEN [key |-> k, val |-> v]
                            ELSE ch[i]
<1> DEFINE p == find_in_chain(ch, k)
           n == chain_update(ch, k, v)
<1>a. /\ ch \in Seq([key : K, val : V]) /\ Len(ch) <= CHAINLEN
      /\ \A i, j \in 1..Len(ch) : ch[i].key = ch[j].key => i = j
    BY DEF ChainOK
<1>1. p \in 1..Len(ch) /\ ch[p].key = k
    BY <1>a, FindInChain
<1>2. n = [ch EXCEPT ![p] = [key |-> k, val |-> v]]
    BY DEF chain_update, ReplaceAt
<1> HIDE DEF p, n
<1>3. n \in Seq([key : K, val : V]) /\ Len(n) = Len(ch)
    BY <1>a, <1>1, <1>2, [key |-> k, val |-> v] \in [key : K, val : V]
<1>4. ASSUME NEW i \in 1..Len(ch)
      PROVE  n[i] = IF ch[i].key = k THEN [key |-> k, val |-> v] ELSE ch[i]
    BY <1>a, <1>1, <1>2
<1>5. \A i, j \in 1..Len(n) : n[i].key = n[j].key => i = j
    BY <1>a, <1>3, <1>4
<1>6. ChainOK(n, K, V)
    BY <1>a, <1>3, <1>5 DEF ChainOK
<1>. QED
    BY <1>3, <1>4, <1>6 DEF n

(* In a chain in good order every entry is the one find_in_chain finds. *)
LEMMA ChainLookup ==
    ASSUME NEW K, NEW V, NEW ch, ChainOK(ch, K, V), NEW i \in 1..Len(ch)
    PROVE  /\ in_chain(ch, ch[i].key)
           /\ ch[find_in_chain(ch, ch[i].key)] = ch[i]
<1>1. /\ ch \in Seq([key : K, val : V])
      /\ \A p, q \in 1..Len(ch) : ch[p].key = ch[q].key => p = q
    BY DEF ChainOK
<1>2. in_chain(ch, ch[i].key)
    BY <1>1 DEF in_chain
<1>3. /\ find_in_chain(ch, ch[i].key) \in 1..Len(ch)
      /\ ch[find_in_chain(ch, ch[i].key)].key = ch[i].key
    BY <1>1, <1>2, FindInChain
<1>. QED
    BY <1>1, <1>2, <1>3
=============================================================================
