-------------------------- MODULE CacheChainProofs --------------------------
(***************************************************************************)
(* Proofs about CacheChain, for any number of slots, keys and values: the  *)
(* linked list of cache.c stays one list, forwards and backwards, over the *)
(* used slots, its keys stay in the order of their last sets, and it does  *)
(* what the sequence of ChainList does.                                    *)
(*                                                                         *)
(* The inductive invariant names the path of slots through the array that  *)
(* the list is: Good(w).  Every action is shown to lead from a good path   *)
(* to another, and walk to find the path.                                  *)
(***************************************************************************)
EXTENDS CacheChain, ChainProofs, WellFoundedInduction, FiniteSetTheorems

Entry == [key : Keys \cup {Free}, val : Vals \cup {Free}, prev : Ptr, next : Ptr]

(* The pointer to the i-th slot of a path, NULL before and after it. *)
at(w, i) == IF i \in 1..Len(w) THEN w[i] ELSE Null

(* The array es with the ends f and l holds w as a doubly linked list. *)
Linked(es, f, l, w) ==
    /\ es \in [Slots -> Entry]
    /\ w \in Seq(Slots)
    /\ \A i, j \in 1..Len(w) : w[i] = w[j] => i = j
    /\ f = at(w, 1) /\ l = at(w, Len(w))
    /\ \A i \in 1..Len(w) :
          es[w[i]].next = at(w, i + 1) /\ es[w[i]].prev = at(w, i - 1)

On(w, s) == \E i \in 1..Len(w) : w[i] = s

(* The slots on the path are used, each with a key of its own. *)
Keyed(es, w) ==
    /\ \A i \in 1..Len(w) : es[w[i]].key \in Keys /\ es[w[i]].val \in Vals
    /\ \A i, j \in 1..Len(w) : es[w[i]].key = es[w[j]].key => i = j

(* No other slot is. *)
Complete(es, w) == \A s \in Slots : es[s].key # Free => On(w, s)

(* c->len counts the path and the slots lost to failed sets, never all. *)
Counted(n, w) == n \in 0..CHAINLEN /\ Len(w) <= n /\ n - Len(w) < CHAINLEN

(* The path holds the keys most recently set, in that order. *)
ByAge(es, w, r) ==
    /\ r \in Seq(Keys)
    /\ \A i, j \in 1..Len(r) : r[i] = r[j] => i = j
    /\ Len(w) <= Len(r)
    /\ \A i \in 1..Len(w) : es[w[i]].key = r[i]

Good(w) == /\ Linked(entries, first, last, w)
           /\ Keyed(entries, w)
           /\ Complete(entries, w)
           /\ Counted(len, w)
           /\ ByAge(entries, w, recent)
           /\ crashed \in BOOLEAN

IInv == \E w \in Seq(Slots) : Good(w)

-----------------------------------------------------------------------------
LEMMA MinIsLeast ==
    ASSUME NEW S, S \subseteq Nat, S # {}
    PROVE  Min(S) \in S /\ \A x \in S : Min(S) <= x
<1> DEFINE R == OpToRel(<, Nat)
<1>1. \A m, n \in Nat : m < n => <<m, n>> \in R
    BY Zenon DEF OpToRel
<1>2. IsWellFoundedOn(R, Nat)
    BY NatLessThanWellFounded, Zenon
<1> HIDE DEF R
<1>3. PICK n \in S : \A m \in S : <<m, n>> \notin R
    BY <1>2, WFMin, Zenon
<1>4. \A m \in S : ~(m < n)
    BY <1>1, <1>3, Zenon
<1>5. \A m \in S : n <= m
    BY <1>4
<1>. QED
    BY <1>5 DEF Min

(* The loop's definition has a solution: from is what it says it is.  By   *)
(* the least number of steps for which there would be none.                *)
LEMMA FromEquation ==
    from = [n \in 0..CHAINLEN |->
               [s \in Ptr |-> IF n = 0 \/ s = Null THEN <<>>
                              ELSE <<s>> \o from[n - 1][entries[s].next]]]
<1> DEFINE step(n, g) == [s \in Ptr |-> IF n = 0 \/ s = Null THEN <<>>
                                        ELSE <<s>> \o g[entries[s].next]]
           Solves(g, m) == g = [n \in 0..m |-> step(n, g[n - 1])]
           Bad == {m \in Nat : ~\E g : Solves(g, m)}
<1>1. \A g, h : step(0, g) = step(0, h)
    OBVIOUS
<1> HIDE DEF step
<1>2. Bad = {}
  <2> SUFFICES ASSUME Bad # {} PROVE FALSE
      OBVIOUS
  <2>1. PICK m \in Bad : \A x \in Bad : m <= x
    <3>1. Bad \subseteq Nat
        OBVIOUS
    <3>. QED
        BY <3>1, MinIsLeast
  <2>2. m \in Nat /\ ~\E g : Solves(g, m)
      OBVIOUS
  <2>3. CASE m = 0
    <3> DEFINE g == [n \in 0..0 |-> step(0, <<>>)]
    <3>1. \A n \in 0..0 : step(n, g[n - 1]) = step(0, <<>>)
        BY <1>1
    <3>2. Solves(g, 0)
        BY <3>1
    <3>. QED
        BY <2>2, <2>3, <3>2
  <2>4. CASE m # 0
    <3>0. m - 1 \in Nat /\ ~(m <= m - 1)
        BY <2>2, <2>4
    <3>1. m - 1 \in Nat /\ m - 1 \notin Bad
        BY <2>1, <3>0, Zenon
    <3>2. PICK g : Solves(g, m - 1)
        BY <3>1
    <3> DEFINE h == [n \in 0..m |-> IF n = m THEN step(m, g[m - 1]) ELSE g[n]]
    <3>3. ASSUME NEW n \in 0..m
          PROVE  h[n] = step(n, h[n - 1])
      <4>1. CASE n = 0
        <5>1. g[0] = step(0, g[0 - 1])
            BY <2>2, <2>4, <3>2
        <5>. QED
            BY <1>1, <2>2, <2>4, <4>1, <5>1
      <4>2. CASE n # 0 /\ n # m
        <5>1. n \in 0..(m - 1) /\ n - 1 \in 0..m /\ n - 1 # m
            BY <2>2, <4>2
        <5>2. g[n] = step(n, g[n - 1])
            BY <3>2, <5>1
        <5>. QED
            BY <4>2, <5>1, <5>2
      <4>3. CASE n # 0 /\ n = m
        <5>1. n - 1 \in 0..m /\ n - 1 # m
            BY <2>2, <4>3
        <5>. QED
            BY <4>3, <5>1
      <4>. QED
          BY <4>1, <4>2, <4>3
    <3>4. h = [n \in 0..m |-> h[n]]
        OBVIOUS
    <3> HIDE DEF h
    <3>5. Solves(h, m)
        BY <3>3, <3>4
    <3>. QED
        BY <2>2, <3>5
  <2>. QED
      BY <2>3, <2>4
<1>3. CHAINLEN \in Nat
    BY ChainLenAssumption
<1>4. \E g : Solves(g, CHAINLEN)
    BY <1>2, <1>3
<1>5. from = CHOOSE g : Solves(g, CHAINLEN)
    BY DEF from, step
<1>6. Solves(from, CHAINLEN)
    BY <1>4, <1>5
<1>. QED
    BY <1>6 DEF step

LEMMA RestOfPath ==
    ASSUME NEW S, NEW w \in Seq(S), NEW j \in 1..Len(w)
    PROVE  SubSeq(w, j, Len(w)) = <<w[j]>> \o SubSeq(w, j + 1, Len(w))
<1> DEFINE a == SubSeq(w, j, Len(w))
           r == SubSeq(w, j + 1, Len(w))
           b == <<w[j]>> \o r
<1>1. /\ a \in Seq(S) /\ Len(a) = Len(w) - j + 1
      /\ \A i \in 1..(Len(w) - j + 1) : a[i] = w[i + j - 1]
    OBVIOUS
<1>2. /\ r \in Seq(S) /\ Len(r) = Len(w) - j
      /\ \A i \in 1..(Len(w) - j) : r[i] = w[i + j]
    OBVIOUS
<1> HIDE DEF a, r
<1>3. b \in Seq(S) /\ Len(b) = Len(w) - j + 1
  <2>1. w[j] \in S /\ Len(w) \in Nat
      OBVIOUS
  <2>2. <<w[j]>> \in Seq(S) /\ Len(<<w[j]>>) = 1
      BY <2>1
  <2>3. \A x, y \in Seq(S) : x \o y \in Seq(S) /\ Len(x \o y) = Len(x) + Len(y)
      OBVIOUS
  <2>4. b \in Seq(S) /\ Len(b) = Len(<<w[j]>>) + Len(r)
      BY <1>2, <2>2, <2>3
  <2>. QED
      BY <1>2, <2>1, <2>2, <2>4
<1>4. ASSUME NEW i \in 1..(Len(w) - j + 1)
      PROVE  b[i] = w[i + j - 1]
  <2>1. CASE i = 1
      BY <1>2, <2>1
  <2>2. CASE i # 1
    <3>1. i - 1 \in 1..(Len(w) - j) /\ (i - 1) + j = i + j - 1
        BY <2>2
    <3>2. b[i] = r[i - 1]
        BY <1>2, <3>1
    <3>. QED
        BY <1>2, <3>1, <3>2
  <2>. QED
      BY <2>1, <2>2
<1> HIDE DEF b
<1>5. \A i \in 1..Len(a) : a[i] = b[i]
    BY <1>1, <1>4
<1>6. a = b
    BY <1>1, <1>3, <1>5
<1>. QED
    BY <1>6 DEF a, b, r

(* What the loop finds is the path, by the least number of steps that      *)
(* would find something else than the rest of the path.                    *)
LEMMA WalkIsPath ==
    ASSUME NEW w, Good(w)
    PROVE  walk = w
<1> DEFINE rest(j) == SubSeq(w, j, Len(w))
           Places == 1..(Len(w) + 1)
           Bad == {n \in 0..CHAINLEN :
                     \E j \in Places : /\ Len(w) - j + 1 <= n
                                       /\ from[n][at(w, j)] # rest(j)}
<1>1. /\ w \in Seq(Slots) /\ Len(w) \in Nat
      /\ CHAINLEN \in Nat /\ Len(w) <= CHAINLEN
    BY ChainLenAssumption DEF Good, Linked, Counted
<1>2. \A j \in Places : at(w, j) \in Ptr
    BY <1>1 DEF at, Ptr
<1>3. rest(Len(w) + 1) = <<>> /\ rest(1) = w
    BY <1>1
<1>4. \A j \in 1..Len(w) : rest(j) = <<w[j]>> \o rest(j + 1)
    BY <1>1, RestOfPath
<1>5. \A n \in 0..CHAINLEN, s \in Ptr :
         from[n][s] = IF n = 0 \/ s = Null THEN <<>>
                      ELSE <<s>> \o from[n - 1][entries[s].next]
  <2> TAKE n \in 0..CHAINLEN, s \in Ptr
  <2>1. from[n] = [t \in Ptr |-> IF n = 0 \/ t = Null THEN <<>>
                                 ELSE <<t>> \o from[n - 1][entries[t].next]]
      BY FromEquation
  <2>. QED
      BY <2>1
<1>a. \A x \in 0..CHAINLEN : x \notin Bad =>
         \A y \in Places : Len(w) - y + 1 <= x => from[x][at(w, y)] = rest(y)
    OBVIOUS
<1> HIDE DEF rest
<1>6. Bad = {}
  <2> SUFFICES ASSUME Bad # {} PROVE FALSE
      OBVIOUS
  <2>1. PICK n \in Bad : \A x \in Bad : n <= x
    <3>1. Bad \subseteq Nat
        BY <1>1
    <3>. QED
        BY <3>1, MinIsLeast
  <2>2. PICK j \in Places : /\ n \in 0..CHAINLEN
                            /\ Len(w) - j + 1 <= n
                            /\ from[n][at(w, j)] # rest(j)
      OBVIOUS
  <2>3. CASE j = Len(w) + 1
    <3>1. at(w, j) = Null /\ Null \in Ptr
        BY <1>1, <2>3 DEF at, Ptr
    <3>. QED
        BY <1>3, <1>5, <2>2, <2>3, <3>1
  <2>4. CASE j # Len(w) + 1
    <3>1. j \in 1..Len(w) /\ j + 1 \in Places
        BY <1>1, <2>2, <2>4
    <3>2. n # 0 /\ n - 1 \in 0..CHAINLEN /\ ~(n <= n - 1)
          /\ Len(w) - (j + 1) + 1 <= n - 1
        BY <1>1, <2>2, <3>1
    <3>3. n - 1 \notin Bad
        BY <2>1, <3>2, Zenon
    <3>4. from[n - 1][at(w, j + 1)] = rest(j + 1)
        BY <1>a, <3>1, <3>2, <3>3, Zenon
    <3>5. at(w, j) = w[j] /\ w[j] # Null /\ w[j] \in Ptr
      <4>1. w[j] \in Slots /\ Null \notin Slots
          BY <1>1, <3>1, SeqElements DEF Slots, Null
      <4>. QED
          BY <3>1, <4>1 DEF at, Ptr
    <3>6. entries[w[j]].next = at(w, j + 1)
        BY <3>1 DEF Good, Linked
    <3>7. from[n][w[j]] = <<w[j]>> \o from[n - 1][at(w, j + 1)]
        BY <1>5, <2>2, <3>2, <3>5, <3>6
    <3>. QED
        BY <1>4, <2>2, <3>1, <3>4, <3>5, <3>7
  <2>. QED
      BY <2>3, <2>4
<1>7. from[CHAINLEN][at(w, 1)] = rest(1)
  <2>1. 1 \in Places /\ CHAINLEN \in 0..CHAINLEN /\ Len(w) - 1 + 1 <= CHAINLEN
      BY <1>1
  <2>. QED
      BY <1>6, <2>1
<1>8. first = at(w, 1)
    BY DEF Good, Linked
<1>. QED
    BY <1>3, <1>7, <1>8 DEF walk

LEMMA LinkNext ==
    ASSUME NEW es \in [Slots -> Entry], NEW s \in Ptr, NEW to \in Ptr, NEW n,
           n = link_next(es, s, to)
    PROVE  /\ n \in [Slots -> Entry]
           /\ \A x \in Slots :
                     /\ n[x].key = es[x].key /\ n[x].val = es[x].val
                     /\ n[x].prev = es[x].prev
                     /\ n[x].next = IF x = s THEN to ELSE es[x].next
<1>1. CASE s = Null
  <2>1. n = es /\ Null \notin Slots
      BY <1>1 DEF link_next, Slots, Null
  <2>. QED
      BY <1>1, <2>1
<1>2. CASE s # Null
  <2>1. n = [es EXCEPT ![s].next = to] /\ s \in Slots
      BY <1>2 DEF link_next, Ptr
  <2>. QED
      BY <2>1 DEF Entry
<1>. QED
    BY <1>1, <1>2

LEMMA LinkPrev ==
    ASSUME NEW es \in [Slots -> Entry], NEW s \in Ptr, NEW to \in Ptr, NEW n,
           n = link_prev(es, s, to)
    PROVE  /\ n \in [Slots -> Entry]
           /\ \A x \in Slots :
                     /\ n[x].key = es[x].key /\ n[x].val = es[x].val
                     /\ n[x].next = es[x].next
                     /\ n[x].prev = IF x = s THEN to ELSE es[x].prev
<1>1. CASE s = Null
  <2>1. n = es /\ Null \notin Slots
      BY <1>1 DEF link_prev, Slots, Null
  <2>. QED
      BY <1>1, <2>1
<1>2. CASE s # Null
  <2>1. n = [es EXCEPT ![s].prev = to] /\ s \in Slots
      BY <1>2 DEF link_prev, Ptr
  <2>. QED
      BY <2>1 DEF Entry
<1>. QED
    BY <1>1, <1>2

LEMMA SameElements ==
    ASSUME NEW S, NEW a \in Seq(S), NEW b \in Seq(S), Len(a) = Len(b),
           \A i \in 1..Len(a) : a[i] = b[i]
    PROVE  a = b
OBVIOUS

LEMMA PushElements ==
    ASSUME NEW S, NEW t \in Seq(S), NEW x \in S
    PROVE  /\ <<x>> \o t \in Seq(S) /\ Len(<<x>> \o t) = Len(t) + 1
           /\ (<<x>> \o t)[1] = x
           /\ \A i \in 2..(Len(t) + 1) : (<<x>> \o t)[i] = t[i - 1]
<1>1. <<x>> \in Seq(S) /\ Len(<<x>>) = 1 /\ <<x>>[1] = x /\ Len(t) \in Nat
    OBVIOUS
<1>2. PICK y \in Seq(S) : y = <<x>>
    BY <1>1
<1>3. /\ y \o t \in Seq(S) /\ Len(y \o t) = 1 + Len(t)
      /\ \A i \in 1..(1 + Len(t)) :
            (y \o t)[i] = IF i <= 1 THEN y[i] ELSE t[i - 1]
    BY <1>1, <1>2
<1>. QED
    BY <1>1, <1>2, <1>3

(* Taking the i-th slot out of a list: its neighbours are linked to each   *)
(* other, the slot itself may become anything.                             *)
LEMMA UnlinkKeepsLinks ==
    ASSUME NEW es, NEW f, NEW l, NEW w, Linked(es, f, l, w),
           NEW i \in 1..Len(w), NEW n \in [Slots -> Entry],
           \A x \in Slots : x # w[i] =>
              /\ n[x].next = IF x = at(w, i - 1) THEN at(w, i + 1) ELSE es[x].next
              /\ n[x].prev = IF x = at(w, i + 1) THEN at(w, i - 1) ELSE es[x].prev,
           NEW t, t = RemoveAt(w, i)
    PROVE  /\ Linked(n, IF i = 1 THEN at(w, 2) ELSE f,
                        IF i = Len(w) THEN at(w, i - 1) ELSE l, t)
           /\ \A x \in Slots : On(t, x) <=> On(w, x) /\ x # w[i]
           /\ Len(t) = Len(w) - 1
<1>1. /\ w \in Seq(Slots) /\ Len(w) \in Nat
      /\ \A p, q \in 1..Len(w) : w[p] = w[q] => p = q
      /\ f = at(w, 1) /\ l = at(w, Len(w))
      /\ \A p \in 1..Len(w) :
            es[w[p]].next = at(w, p + 1) /\ es[w[p]].prev = at(w, p - 1)
      /\ \A p \in 1..Len(w) : w[p] \in Slots /\ w[p] # Null
  <2>1. w \in Seq(Slots) /\ Null \notin Slots
      BY DEF Linked, Slots, Null
  <2>2. \A p \in 1..Len(w) : w[p] \in Slots /\ w[p] # Null
      BY <2>1, SeqElements
  <2>. QED
      BY <2>1, <2>2 DEF Linked
<1>2. /\ t \in Seq(Slots) /\ Len(t) = Len(w) - 1
      /\ \A j \in 1..(Len(w) - 1) : t[j] = IF j < i THEN w[j] ELSE w[j + 1]
    BY <1>1, RemoveAtElements
<1>3. \A p, q \in 1..Len(t) : t[p] = t[q] => p = q
    BY <1>1, <1>2, SMTT(30)
<1>4. at(t, 1) = IF i = 1 THEN at(w, 2) ELSE f
    BY <1>1, <1>2 DEF at
<1>5. at(t, Len(t)) = IF i = Len(w) THEN at(w, i - 1) ELSE l
    BY <1>1, <1>2 DEF at
<1>6. ASSUME NEW j \in 1..Len(t)
      PROVE  n[t[j]].next = at(t, j + 1) /\ n[t[j]].prev = at(t, j - 1)
  <2>1. CASE j < i - 1
    <3>1. /\ t[j] = w[j] /\ j \in 1..Len(w)
          /\ j # i /\ j # i - 1 /\ j # i + 1
        BY <1>1, <1>2, <2>1
    <3>2. w[j] # w[i] /\ w[j] # at(w, i - 1) /\ w[j] # at(w, i + 1)
        BY <1>1, <3>1 DEF at
    <3>3. n[w[j]].next = at(w, j + 1) /\ n[w[j]].prev = at(w, j - 1)
        BY <1>1, <3>1, <3>2
    <3>4. at(w, j + 1) = at(t, j + 1) /\ at(w, j - 1) = at(t, j - 1)
        BY <1>1, <1>2, <2>1, SMTT(30) DEF at
    <3>. QED
        BY <3>1, <3>3, <3>4
  <2>2. CASE j = i - 1
    <3>1. /\ t[j] = w[j] /\ j \in 1..Len(w) /\ w[j] = at(w, i - 1)
          /\ j # i /\ j # i + 1
        BY <1>1, <1>2, <2>2 DEF at
    <3>2. w[j] # w[i] /\ w[j] # at(w, i + 1)
        BY <1>1, <3>1 DEF at
    <3>3. n[w[j]].next = at(w, i + 1) /\ n[w[j]].prev = at(w, j - 1)
        BY <1>1, <3>1, <3>2
    <3>4. at(w, i + 1) = at(t, j + 1)
      <4>1. CASE i = Len(w)
          BY <1>1, <1>2, <2>2, <4>1 DEF at
      <4>2. CASE i # Len(w)
        <5>1. i + 1 \in 1..Len(w) /\ j + 1 \in 1..Len(t) /\ t[j + 1] = w[i + 1]
            BY <1>1, <1>2, <2>2, <4>2
        <5>. QED
            BY <5>1 DEF at
      <4>. QED
          BY <4>1, <4>2
    <3>5. at(w, j - 1) = at(t, j - 1)
      <4>1. CASE j = 1
          BY <1>1, <1>2, <4>1 DEF at
      <4>2. CASE j # 1
        <5>1. /\ j - 1 \in 1..Len(w) /\ j - 1 \in 1..Len(t)
              /\ t[j - 1] = w[j - 1]
            BY <1>1, <1>2, <2>2, <4>2, SMTT(30)
        <5>. QED
            BY <5>1 DEF at
      <4>. QED
          BY <4>1, <4>2
    <3>. QED
        BY <3>1, <3>3, <3>4, <3>5
  <2>3. CASE j = i
    <3>1. /\ t[j] = w[j + 1] /\ j + 1 \in 1..Len(w) /\ w[j + 1] = at(w, i + 1)
          /\ j + 1 # i /\ j + 1 # i - 1
        BY <1>1, <1>2, <2>3 DEF at
    <3>2. w[j + 1] # w[i] /\ w[j + 1] # at(w, i - 1)
        BY <1>1, <3>1 DEF at
    <3>3. n[w[j + 1]].next = at(w, j + 1 + 1) /\ n[w[j + 1]].prev = at(w, i - 1)
        BY <1>1, <3>1, <3>2
    <3>4. at(w, j + 1 + 1) = at(t, j + 1) /\ at(w, i - 1) = at(t, j - 1)
        BY <1>1, <1>2, <2>3, SMTT(30) DEF at
    <3>. QED
        BY <3>1, <3>3, <3>4
  <2>4. CASE j > i
    <3>1. /\ t[j] = w[j + 1] /\ j + 1 \in 1..Len(w)
          /\ j + 1 # i /\ j + 1 # i - 1 /\ j + 1 # i + 1
        BY <1>1, <1>2, <2>4
    <3>2. w[j + 1] # w[i] /\ w[j + 1] # at(w, i - 1) /\ w[j + 1] # at(w, i + 1)
        BY <1>1, <3>1 DEF at
    <3>3. n[w[j + 1]].next = at(w, j + 1 + 1) /\ n[w[j + 1]].prev = at(w, j + 1 - 1)
      <4>1. PICK q \in 1..Len(w) : q = j + 1
          BY <3>1
      <4>2. w[q] \in Slots /\ es[w[q]].next = at(w, q + 1)
            /\ es[w[q]].prev = at(w, q - 1)
          BY <1>1
      <4>3. n[w[q]].next = at(w, q + 1) /\ n[w[q]].prev = at(w, q - 1)
          BY <3>2, <4>1, <4>2
      <4>. QED
          BY <4>1, <4>3
    <3>4. at(w, j + 1 + 1) = at(t, j + 1) /\ at(w, j + 1 - 1) = at(t, j - 1)
        BY <1>1, <1>2, <2>4 DEF at
    <3>. QED
        BY <3>1, <3>3, <3>4
  <2>. QED
      BY <1>2, <2>1, <2>2, <2>3, <2>4
<1>7. ASSUME NEW x \in Slots
      PROVE  On(t, x) <=> On(w, x) /\ x # w[i]
  <2>1. ASSUME NEW p \in 1..Len(t), t[p] = x
        PROVE  On(w, x) /\ x # w[i]
      BY <1>1, <1>2, <2>1 DEF On
  <2>2. ASSUME NEW p \in 1..Len(w), w[p] = x, x # w[i]
        PROVE  On(t, x)
    <3>1. CASE p < i
      <4>1. p \in 1..Len(t) /\ t[p] = w[p]
          BY <1>1, <1>2, <3>1
      <4>. QED
          BY <2>2, <4>1 DEF On
    <3>2. CASE p > i
      <4>1. p - 1 \in 1..Len(t) /\ t[p - 1] = w[p]
          BY <1>1, <1>2, <3>2
      <4>. QED
          BY <2>2, <4>1 DEF On
    <3>. QED
        BY <2>2, <3>1, <3>2
  <2>. QED
      BY <2>1, <2>2 DEF On
<1>. QED
    BY <1>2, <1>3, <1>4, <1>5, <1>6, <1>7 DEF Linked

(* Putting a slot e before the first. *)
LEMMA PushKeepsLinks ==
    ASSUME NEW es, NEW f, NEW l, NEW t, Linked(es, f, l, t),
           NEW e \in Slots, ~On(t, e), NEW n \in [Slots -> Entry],
           n[e].next = f, n[e].prev = Null,
           \A x \in Slots : x # e =>
              /\ n[x].next = es[x].next
              /\ n[x].prev = IF x = f THEN e ELSE es[x].prev
    PROVE  /\ Linked(n, e, IF Len(t) = 0 THEN e ELSE l, <<e>> \o t)
           /\ \A x \in Slots : On(<<e>> \o t, x) <=> On(t, x) \/ x = e
           /\ Len(<<e>> \o t) = Len(t) + 1
<1>0. PICK w : w = <<e>> \o t
    OBVIOUS
<1>1. /\ t \in Seq(Slots) /\ Len(t) \in Nat
      /\ \A p, q \in 1..Len(t) : t[p] = t[q] => p = q
      /\ f = at(t, 1) /\ l = at(t, Len(t))
      /\ \A p \in 1..Len(t) :
            es[t[p]].next = at(t, p + 1) /\ es[t[p]].prev = at(t, p - 1)
      /\ \A p \in 1..Len(t) : t[p] \in Slots /\ t[p] # e
    BY SeqElements DEF Linked, On
<1>2. /\ w \in Seq(Slots) /\ Len(w) = Len(t) + 1 /\ w[1] = e
      /\ \A i \in 2..(Len(t) + 1) : w[i] = t[i - 1]
    BY <1>0, <1>1, PushElements
<1>n. \A j \in 1..Len(w) : j # 1 => j - 1 \in 1..Len(t) /\ w[j] = t[j - 1]
    BY <1>1, <1>2
<1>3. ASSUME NEW p \in 1..Len(w), NEW q \in 1..Len(w), w[p] = w[q]
      PROVE  p = q
  <2>1. CASE p = 1 \/ q = 1
    <3>0. \A j \in 1..Len(t) : t[j] # e
        BY <1>1
    <3>1. \A j \in 1..Len(w) : j # 1 => w[j] # e
        BY <1>n, <3>0
    <3>. QED
        BY <1>2, <1>3, <2>1, <3>1
  <2>2. CASE p # 1 /\ q # 1
    <3>1. p - 1 \in 1..Len(t) /\ q - 1 \in 1..Len(t) /\ t[p - 1] = t[q - 1]
        BY <1>3, <1>n, <2>2
    <3>2. p - 1 = q - 1
        BY <1>1, <3>1
    <3>. QED
        BY <3>2
  <2>. QED
      BY <2>1, <2>2
<1>4. at(w, 1) = e /\ at(w, Len(w)) = IF Len(t) = 0 THEN e ELSE l
    BY <1>1, <1>2 DEF at
<1>5. ASSUME NEW j \in 1..Len(w)
      PROVE  n[w[j]].next = at(w, j + 1) /\ n[w[j]].prev = at(w, j - 1)
  <2>1. CASE j = 1
    <3>1. at(w, j + 1) = f /\ at(w, j - 1) = Null
        BY <1>1, <1>2, <2>1 DEF at
    <3>. QED
        BY <1>2, <2>1, <3>1
  <2>2. CASE j = 2
    <3>1. /\ w[j] = t[1] /\ 1 \in 1..Len(t) /\ t[1] = f
          /\ at(w, j + 1) = at(t, 2) /\ at(w, j - 1) = e
        BY <1>1, <1>2, <2>2 DEF at
    <3>. QED
        BY <1>1, <3>1
  <2>3. CASE j > 2
    <3>1. w[j] = t[j - 1] /\ j - 1 \in 1..Len(t) /\ j - 1 # 1 /\ 1 \in 1..Len(t)
        BY <1>1, <1>2, <2>3
    <3>2. t[j - 1] # f
        BY <1>1, <3>1 DEF at
    <3>3. at(w, j + 1) = at(t, j - 1 + 1)
      <4>1. CASE j = Len(w)
          BY <1>1, <1>2, <4>1 DEF at
      <4>2. CASE j # Len(w)
        <5>1. j + 1 \in 1..Len(w) /\ j \in 1..Len(t) /\ j - 1 + 1 = j
              /\ j + 1 # 1 /\ j + 1 - 1 = j
            BY <1>1, <1>2, <4>2
        <5>2. w[j + 1] = t[j]
            BY <1>n, <5>1
        <5>. QED
            BY <5>1, <5>2 DEF at
      <4>. QED
          BY <4>1, <4>2
    <3>4. at(w, j - 1) = at(t, j - 1 - 1)
      <4>1. j - 1 \in 1..Len(w) /\ j - 1 # 1 /\ j - 1 - 1 \in 1..Len(t)
          BY <1>1, <1>2, <2>3
      <4>. QED
          BY <1>n, <4>1 DEF at
    <3>5. /\ t[j - 1] \in Slots /\ t[j - 1] # e
          /\ es[t[j - 1]].next = at(t, j - 1 + 1)
          /\ es[t[j - 1]].prev = at(t, j - 1 - 1)
        BY <1>1, <3>1
    <3>6. n[t[j - 1]].next = es[t[j - 1]].next /\ n[t[j - 1]].prev = es[t[j - 1]].prev
        BY <3>2, <3>5
    <3>7. w[j] = t[j - 1]
        BY <3>1
    <3>. QED
        BY <3>3, <3>4, <3>5, <3>6, <3>7, Zenon
  <2>. QED
      BY <1>2, <2>1, <2>2, <2>3
<1>6. ASSUME NEW x \in Slots
      PROVE  On(w, x) <=> On(t, x) \/ x = e
  <2>1. ASSUME NEW p \in 1..Len(w), w[p] = x, x # e
        PROVE  On(t, x)
    <3>1. p - 1 \in 1..Len(t) /\ t[p - 1] = x
        BY <1>1, <1>2, <2>1
    <3>. QED
        BY <3>1 DEF On
  <2>2. ASSUME NEW p \in 1..Len(t), t[p] = x
        PROVE  On(w, x)
    <3>1. p + 1 \in 1..Len(w) /\ w[p + 1] = x
        BY <1>1, <1>2, <2>2
    <3>. QED
        BY <3>1 DEF On
  <2>3. On(w, e)
      BY <1>1, <1>2 DEF On
  <2>. QED
      BY <2>1, <2>2, <2>3 DEF On
<1>7. Linked(n, e, IF Len(t) = 0 THEN e ELSE l, w)
    BY <1>2, <1>3, <1>4, <1>5 DEF Linked
<1>. QED
    BY <1>0, <1>2, <1>6, <1>7

(* What the path holds, as the sequence of entries ChainList knows. *)
lst(es, w) == [i \in 1..Len(w) |-> [key |-> es[w[i]].key, val |-> es[w[i]].val]]

Pair == [key : Keys, val : Vals]

LEMMA ListElements ==
    ASSUME NEW es, NEW w \in Seq(Slots), Keyed(es, w), NEW c, c = lst(es, w)
    PROVE  /\ c \in Seq(Pair) /\ Len(c) = Len(w)
           /\ \A i \in 1..Len(w) : /\ c[i] = [key |-> es[w[i]].key,
                                               val |-> es[w[i]].val]
                                   /\ c[i].key = es[w[i]].key
                                   /\ c[i].val = es[w[i]].val
<1>1. Len(w) \in Nat
    OBVIOUS
<1>2. c = [i \in 1..Len(w) |-> [key |-> es[w[i]].key, val |-> es[w[i]].val]]
    BY DEF lst
<1>3. \A i \in 1..Len(w) : [key |-> es[w[i]].key, val |-> es[w[i]].val] \in Pair
    BY DEF Keyed, Pair
<1>. QED
    BY <1>1, <1>2, <1>3

(* A list without its i-th slot holds what it held but for one entry. *)
LEMMA UnlinkKeepsKeys ==
    ASSUME NEW es, NEW w \in Seq(Slots), Keyed(es, w),
           \A p, q \in 1..Len(w) : w[p] = w[q] => p = q,
           NEW i \in 1..Len(w), NEW n,
           \A x \in Slots : x # w[i] => /\ n[x].key = es[x].key
                                        /\ n[x].val = es[x].val,
           NEW t, t = RemoveAt(w, i)
    PROVE  /\ Keyed(n, t)
           /\ lst(n, t) = RemoveAt(lst(es, w), i)
           /\ \A j \in 1..Len(t) : n[t[j]].key # es[w[i]].key
<1>1. /\ t \in Seq(Slots) /\ Len(t) = Len(w) - 1 /\ Len(w) \in Nat
      /\ \A j \in 1..(Len(w) - 1) : t[j] = IF j < i THEN w[j] ELSE w[j + 1]
    BY RemoveAtElements
<1> DEFINE u(j) == IF j < i THEN j ELSE j + 1
<1>2. ASSUME NEW j \in 1..Len(t)
      PROVE  /\ u(j) \in 1..Len(w) /\ u(j) # i /\ t[j] = w[u(j)]
             /\ n[t[j]].key = es[w[u(j)]].key /\ n[t[j]].val = es[w[u(j)]].val
  <2>1. u(j) \in 1..Len(w) /\ u(j) # i /\ t[j] = w[u(j)]
      BY <1>1
  <2> HIDE DEF u
  <2>2. w[u(j)] \in Slots /\ w[u(j)] # w[i]
      BY <2>1, SeqElements
  <2>. QED
      BY <2>1, <2>2
<1>3. \A p, q \in 1..Len(t) : u(p) = u(q) => p = q
    BY <1>1
<1> HIDE DEF u
<1>4. Keyed(n, t)
  <2>1. ASSUME NEW p \in 1..Len(t), NEW q \in 1..Len(t), n[t[p]].key = n[t[q]].key
        PROVE  p = q
    <3>1. u(p) = u(q)
        BY <1>2, <2>1, SMTT(30) DEF Keyed
    <3>. QED
        BY <1>3, <3>1
  <2>2. \A p \in 1..Len(t) : n[t[p]].key \in Keys /\ n[t[p]].val \in Vals
      BY <1>2 DEF Keyed
  <2>. QED
      BY <2>1, <2>2 DEF Keyed
<1>5. \A j \in 1..Len(t) : n[t[j]].key # es[w[i]].key
    BY <1>2 DEF Keyed
<1>6. PICK c : c = lst(es, w)
    OBVIOUS
<1>7. PICK d : d = lst(n, t)
    OBVIOUS
<1>8. /\ c \in Seq(Pair) /\ Len(c) = Len(w)
      /\ \A j \in 1..Len(w) : c[j] = [key |-> es[w[j]].key, val |-> es[w[j]].val]
    BY <1>6, ListElements
<1>t. t \in Seq(Slots)
    BY <1>1
<1>9. /\ d \in Seq(Pair) /\ Len(d) = Len(t)
      /\ \A j \in 1..Len(t) : d[j] = [key |-> n[t[j]].key, val |-> n[t[j]].val]
    BY <1>t, <1>4, <1>7, ListElements
<1>10. PICK r : r = RemoveAt(c, i)
    OBVIOUS
<1>11. /\ r \in Seq(Pair) /\ Len(r) = Len(w) - 1
       /\ \A j \in 1..(Len(w) - 1) : r[j] = c[u(j)]
  <2>1. i \in 1..Len(c)
      BY <1>8
  <2>0. c \in Seq(Pair)
      BY <1>8
  <2>2. /\ r \in Seq(Pair) /\ Len(r) = Len(c) - 1
        /\ \A j \in 1..(Len(c) - 1) : r[j] = IF j < i THEN c[j] ELSE c[j + 1]
      BY <1>10, <2>0, <2>1, RemoveAtElements
  <2>. QED
      BY <1>8, <2>2 DEF u
<1>12. ASSUME NEW j \in 1..Len(t)
       PROVE  d[j] = r[j]
  <2>1. u(j) \in 1..Len(w) /\ r[j] = c[u(j)]
      BY <1>1, <1>2, <1>11
  <2>2. c[u(j)] = [key |-> n[t[j]].key, val |-> n[t[j]].val]
      BY <1>2, <1>8, <2>1
  <2>. QED
      BY <1>9, <2>1, <2>2
<1>13. d = r
  <2>1. Len(d) = Len(r)
      BY <1>1, <1>9, <1>11
  <2>2. \A j \in 1..Len(d) : d[j] = r[j]
      BY <1>9, <1>12
  <2>. QED
      BY <1>9, <1>11, <2>1, <2>2, SameElements
<1>. QED
    BY <1>4, <1>5, <1>6, <1>7, <1>10, <1>13

(* A new first slot with a key the list does not have. *)
LEMMA PushKeepsKeys ==
    ASSUME NEW es, NEW t \in Seq(Slots), Keyed(es, t),
           NEW e \in Slots, ~On(t, e), NEW n,
           \A x \in Slots : x # e => n[x].key = es[x].key /\ n[x].val = es[x].val,
           n[e].key \in Keys, n[e].val \in Vals,
           \A j \in 1..Len(t) : es[t[j]].key # n[e].key
    PROVE  /\ Keyed(n, <<e>> \o t)
           /\ lst(n, <<e>> \o t) =
                 <<[key |-> n[e].key, val |-> n[e].val]>> \o lst(es, t)
<1>0. PICK w : w = <<e>> \o t
    OBVIOUS
<1>1. /\ w \in Seq(Slots) /\ Len(w) = Len(t) + 1 /\ w[1] = e /\ Len(t) \in Nat
      /\ \A i \in 2..(Len(t) + 1) : w[i] = t[i - 1]
    BY <1>0, PushElements
<1>2. ASSUME NEW j \in 2..(Len(t) + 1)
      PROVE  /\ j - 1 \in 1..Len(t)
             /\ n[w[j]].key = es[t[j - 1]].key /\ n[w[j]].val = es[t[j - 1]].val
  <2>1. j - 1 \in 1..Len(t) /\ w[j] = t[j - 1]
      BY <1>1
  <2>2. t[j - 1] \in Slots /\ t[j - 1] # e
      BY <2>1, SeqElements DEF On
  <2>. QED
      BY <2>1, <2>2
<1>3. \A j \in 1..Len(w) : j = 1 \/ j \in 2..(Len(t) + 1)
    BY <1>1
<1>4. \A j \in 1..Len(w) : n[w[j]].key \in Keys /\ n[w[j]].val \in Vals
    BY <1>1, <1>2, <1>3 DEF Keyed
<1>5. ASSUME NEW p \in 1..Len(w), NEW q \in 1..Len(w), n[w[p]].key = n[w[q]].key
      PROVE  p = q
  <2>1. CASE p = 1 \/ q = 1
    <3>1. \A j \in 1..Len(w) : j # 1 => n[w[j]].key # n[e].key
        BY <1>2, <1>3
    <3>. QED
        BY <1>1, <1>5, <2>1, <3>1
  <2>2. CASE p # 1 /\ q # 1
    <3>1. /\ p - 1 \in 1..Len(t) /\ q - 1 \in 1..Len(t)
          /\ es[t[p - 1]].key = es[t[q - 1]].key
        BY <1>2, <1>3, <1>5, <2>2
    <3>2. p - 1 = q - 1
        BY <3>1 DEF Keyed
    <3>. QED
        BY <3>2
  <2>. QED
      BY <2>1, <2>2
<1>6. Keyed(n, w)
    BY <1>4, <1>5 DEF Keyed
<1>7. PICK c : c = lst(es, t)
    OBVIOUS
<1>8. PICK d : d = lst(n, w)
    OBVIOUS
<1>9. /\ c \in Seq(Pair) /\ Len(c) = Len(t)
      /\ \A j \in 1..Len(t) : c[j] = [key |-> es[t[j]].key, val |-> es[t[j]].val]
    BY <1>7, ListElements
<1>10. /\ d \in Seq(Pair) /\ Len(d) = Len(w)
       /\ \A j \in 1..Len(w) : d[j] = [key |-> n[w[j]].key, val |-> n[w[j]].val]
  <2>1. w \in Seq(Slots)
      BY <1>1
  <2>. QED
      BY <1>6, <1>8, <2>1, ListElements
<1>11. PICK new \in Pair : new = [key |-> n[e].key, val |-> n[e].val]
    BY DEF Pair
<1>12. PICK r : r = <<new>> \o c
    OBVIOUS
<1>13. /\ r \in Seq(Pair) /\ Len(r) = Len(t) + 1 /\ r[1] = new
       /\ \A i \in 2..(Len(t) + 1) : r[i] = c[i - 1]
    BY <1>9, <1>12, PushElements
<1>14. ASSUME NEW j \in 1..Len(w)
       PROVE  d[j] = r[j]
  <2>1. CASE j = 1
      BY <1>1, <1>10, <1>11, <1>13, <2>1
  <2>2. CASE j # 1
    <3>1. /\ j \in 2..(Len(t) + 1) /\ j - 1 \in 1..Len(t)
          /\ n[w[j]].key = es[t[j - 1]].key /\ n[w[j]].val = es[t[j - 1]].val
        BY <1>2, <1>3, <2>2
    <3>2. d[j] = [key |-> n[w[j]].key, val |-> n[w[j]].val]
        BY <1>10
    <3>. QED
        BY <1>9, <1>13, <3>1, <3>2
  <2>. QED
      BY <2>1, <2>2
<1>15. d = r
  <2>1. Len(d) = Len(r)
      BY <1>1, <1>10, <1>13
  <2>2. \A j \in 1..Len(d) : d[j] = r[j]
      BY <1>10, <1>14
  <2>. QED
      BY <1>10, <1>13, <2>1, <2>2, SameElements
<1>. QED
    BY <1>0, <1>6, <1>7, <1>8, <1>11, <1>12, <1>15

-----------------------------------------------------------------------------
(* t is the history r of sets, without the key k. *)
Forgot(t, r, k) ==
    /\ t \in Seq(Keys)
    /\ \A i, j \in 1..Len(t) : t[i] = t[j] => i = j
    /\ \A i \in 1..Len(t) : t[i] # k
    /\ \/ t = r /\ \A i \in 1..Len(r) : r[i] # k
       \/ \E p \in 1..Len(r) :
             /\ r[p] = k /\ Len(t) = Len(r) - 1
             /\ \A j \in 1..(Len(r) - 1) :
                   t[j] = IF j < p THEN r[j] ELSE r[j + 1]

LEMMA RemoveFirstForgets ==
    ASSUME NEW r \in Seq(Keys), NEW k,
           \A i, j \in 1..Len(r) : r[i] = r[j] => i = j
    PROVE  Forgot(RemoveFirst(r, k), r, k)
<1>0. PICK t : t = RemoveFirst(r, k)
    OBVIOUS
<1> SUFFICES Forgot(t, r, k)
    BY <1>0
<1>1. CASE \A i \in 1..Len(r) : r[i] # k
  <2>1. t = r
      BY <1>0, <1>1 DEF RemoveFirst
  <2>. QED
      BY <1>1, <2>1 DEF Forgot
<1>2. CASE \E i \in 1..Len(r) : r[i] = k
  <2> DEFINE I == {i \in 1..Len(r) : r[i] = k}
             p == Min(I)
  <2>1. I \subseteq Nat /\ I # {}
      BY <1>2
  <2>2. p \in I
      BY <2>1, MinIsLeast
  <2>3. t = RemoveAt(r, p)
      BY <1>0, <1>2, <2>1 DEF RemoveFirst, SelectInSeq
  <2> HIDE DEF p
  <2>4. p \in 1..Len(r) /\ r[p] = k
      BY <2>2
  <2>5. /\ t \in Seq(Keys) /\ Len(t) = Len(r) - 1 /\ Len(r) \in Nat
        /\ \A j \in 1..(Len(r) - 1) : t[j] = IF j < p THEN r[j] ELSE r[j + 1]
    <3>1. /\ RemoveAt(r, p) \in Seq(Keys) /\ Len(RemoveAt(r, p)) = Len(r) - 1
          /\ \A j \in 1..(Len(r) - 1) :
                RemoveAt(r, p)[j] = IF j < p THEN r[j] ELSE r[j + 1]
        BY <2>4, RemoveAtElements
    <3>. QED
        BY <2>3, <3>1
  <2> DEFINE u(j) == IF j < p THEN j ELSE j + 1
  <2>6. \A j \in 1..Len(t) : u(j) \in 1..Len(r) /\ u(j) # p /\ t[j] = r[u(j)]
      BY <2>4, <2>5
  <2>7. \A i, j \in 1..Len(t) : u(i) = u(j) => i = j
      BY <2>4, <2>5
  <2> HIDE DEF u
  <2>8. \A i, j \in 1..Len(t) : t[i] = t[j] => i = j
      BY <2>6, <2>7
  <2>9. \A i \in 1..Len(t) : t[i] # k
      BY <2>4, <2>6
  <2>. QED
      BY <2>4, <2>5, <2>8, <2>9 DEF Forgot
<1>. QED
    BY <1>1, <1>2

(* A key the list does not have is none of its latest. *)
LEMMA ForgetStranger ==
    ASSUME NEW es, NEW w \in Seq(Slots), NEW r, ByAge(es, w, r), NEW k,
           \A i \in 1..Len(w) : es[w[i]].key # k
    PROVE  /\ ByAge(es, w, RemoveFirst(r, k))
           /\ \A i \in 1..Len(RemoveFirst(r, k)) : RemoveFirst(r, k)[i] # k
<1>1. /\ r \in Seq(Keys) /\ Len(w) <= Len(r) /\ Len(r) \in Nat /\ Len(w) \in Nat
      /\ \A i, j \in 1..Len(r) : r[i] = r[j] => i = j
      /\ \A i \in 1..Len(w) : es[w[i]].key = r[i]
    BY DEF ByAge
<1>2. PICK t : t = RemoveFirst(r, k)
    OBVIOUS
<1>a. Forgot(t, r, k)
    BY <1>1, <1>2, RemoveFirstForgets
<1>3. /\ t \in Seq(Keys)
      /\ \A i, j \in 1..Len(t) : t[i] = t[j] => i = j
      /\ \A i \in 1..Len(t) : t[i] # k
    BY <1>a DEF Forgot
<1>4. Len(w) <= Len(t) /\ \A i \in 1..Len(w) : t[i] = r[i]
  <2>1. CASE t = r
      BY <1>1, <2>1
  <2>2. ASSUME NEW p \in 1..Len(r), r[p] = k, Len(t) = Len(r) - 1,
               \A j \in 1..(Len(r) - 1) : t[j] = IF j < p THEN r[j] ELSE r[j + 1]
        PROVE  Len(w) <= Len(t) /\ \A i \in 1..Len(w) : t[i] = r[i]
    <3>1. p \notin 1..Len(w)
        BY <1>1, <2>2
    <3>2. p > Len(w)
        BY <1>1, <3>1
    <3>. QED
        BY <1>1, <2>2, <3>2
  <2>. QED
      BY <1>a, <2>1, <2>2 DEF Forgot
<1>5. ByAge(es, w, t)
    BY <1>1, <1>3, <1>4 DEF ByAge
<1>. QED
    BY <1>2, <1>3, <1>5

(* Taking a slot and its key away. *)
LEMMA ForgetMember ==
    ASSUME NEW es, NEW w \in Seq(Slots), NEW r, ByAge(es, w, r),
           NEW i \in 1..Len(w), NEW n,
           \A p, q \in 1..Len(w) : w[p] = w[q] => p = q,
           \A x \in Slots : x # w[i] => n[x].key = es[x].key,
           NEW k, k = es[w[i]].key
    PROVE  /\ ByAge(n, RemoveAt(w, i), RemoveFirst(r, k))
           /\ \A j \in 1..Len(RemoveFirst(r, k)) : RemoveFirst(r, k)[j] # k
<1>1. /\ r \in Seq(Keys) /\ Len(w) <= Len(r) /\ Len(r) \in Nat /\ Len(w) \in Nat
      /\ \A p, q \in 1..Len(r) : r[p] = r[q] => p = q
      /\ \A p \in 1..Len(w) : es[w[p]].key = r[p]
    BY DEF ByAge
<1>2. PICK t : t = RemoveFirst(r, k)
    OBVIOUS
<1>a. Forgot(t, r, k)
    BY <1>1, <1>2, RemoveFirstForgets
<1>3. /\ t \in Seq(Keys)
      /\ \A p, q \in 1..Len(t) : t[p] = t[q] => p = q
      /\ \A p \in 1..Len(t) : t[p] # k
    BY <1>a DEF Forgot
<1>4. i \in 1..Len(r) /\ r[i] = k
    BY <1>1
<1>5. /\ Len(t) = Len(r) - 1
      /\ \A j \in 1..(Len(r) - 1) : t[j] = IF j < i THEN r[j] ELSE r[j + 1]
  <2>1. PICK p \in 1..Len(r) :
               /\ r[p] = k /\ Len(t) = Len(r) - 1
               /\ \A j \in 1..(Len(r) - 1) :
                     t[j] = IF j < p THEN r[j] ELSE r[j + 1]
      BY <1>a, <1>4 DEF Forgot
  <2>2. p = i
      BY <1>1, <1>4, <2>1
  <2>. QED
      BY <2>1, <2>2
<1>6. PICK v : v = RemoveAt(w, i)
    OBVIOUS
<1>7. /\ v \in Seq(Slots) /\ Len(v) = Len(w) - 1
      /\ \A j \in 1..(Len(w) - 1) : v[j] = IF j < i THEN w[j] ELSE w[j + 1]
    BY <1>6, RemoveAtElements
<1>8. ASSUME NEW j \in 1..Len(v)
      PROVE  n[v[j]].key = t[j]
  <2>1. PICK u \in 1..Len(w) : u # i /\ v[j] = w[u] /\ t[j] = r[u]
    <3>1. j \in 1..(Len(w) - 1) /\ j \in 1..(Len(r) - 1)
        BY <1>1, <1>7
    <3>2. CASE j < i
        BY <1>5, <1>7, <3>1, <3>2
    <3>3. CASE ~(j < i)
      <4>1. j + 1 \in 1..Len(w) /\ j + 1 # i
          BY <1>1, <3>1, <3>3
      <4>. QED
          BY <1>5, <1>7, <3>1, <3>3, <4>1
    <3>. QED
        BY <3>2, <3>3
  <2>2. w[u] \in Slots /\ w[u] # w[i]
      BY <2>1, SeqElements
  <2>. QED
      BY <1>1, <2>1, <2>2
<1>9. Len(v) <= Len(t)
    BY <1>1, <1>5, <1>7
<1>10. ByAge(n, v, t)
    BY <1>3, <1>8, <1>9 DEF ByAge
<1>. QED
    BY <1>2, <1>3, <1>6, <1>10

(* Without its last slot the list still holds the latest keys. *)
LEMMA ForgetOldest ==
    ASSUME NEW es, NEW w \in Seq(Slots), NEW r, ByAge(es, w, r), Len(w) # 0, NEW n,
           \A p, q \in 1..Len(w) : w[p] = w[q] => p = q,
           \A x \in Slots : x # w[Len(w)] => n[x].key = es[x].key
    PROVE  ByAge(n, RemoveAt(w, Len(w)), r)
<1>1. /\ Len(w) \in 1..Len(w) /\ Len(w) \in Nat /\ Len(w) <= Len(r) /\ Len(r) \in Nat
      /\ \A i \in 1..Len(w) : es[w[i]].key = r[i]
    BY DEF ByAge
<1>2. PICK t : t = RemoveAt(w, Len(w))
    OBVIOUS
<1>3. /\ t \in Seq(Slots) /\ Len(t) = Len(w) - 1
      /\ \A j \in 1..(Len(w) - 1) : t[j] = IF j < Len(w) THEN w[j] ELSE w[j + 1]
    BY <1>1, <1>2, RemoveAtElements
<1>4. ASSUME NEW j \in 1..Len(t)
      PROVE  n[t[j]].key = r[j]
  <2>1. j \in 1..Len(w) /\ j # Len(w) /\ t[j] = w[j]
      BY <1>1, <1>3
  <2>2. w[j] \in Slots /\ w[j] # w[Len(w)]
      BY <1>1, <2>1, SeqElements
  <2>. QED
      BY <1>1, <2>1, <2>2
<1>5. Len(t) <= Len(r)
    BY <1>1, <1>3
<1>. QED
    BY <1>2, <1>4, <1>5 DEF ByAge

(* A key set just now comes first. *)
LEMMA RememberNewest ==
    ASSUME NEW es, NEW t \in Seq(Slots), NEW r, ByAge(es, t, r),
           NEW e \in Slots, ~On(t, e), NEW n,
           \A x \in Slots : x # e => n[x].key = es[x].key,
           NEW k \in Keys, n[e].key = k, \A i \in 1..Len(r) : r[i] # k
    PROVE  ByAge(n, <<e>> \o t, <<k>> \o r)
<1>1. /\ r \in Seq(Keys) /\ Len(t) <= Len(r) /\ Len(r) \in Nat /\ Len(t) \in Nat
      /\ \A p, q \in 1..Len(r) : r[p] = r[q] => p = q
      /\ \A p \in 1..Len(t) : es[t[p]].key = r[p]
    BY DEF ByAge
<1>2. PICK w : w = <<e>> \o t
    OBVIOUS
<1>3. /\ w \in Seq(Slots) /\ Len(w) = Len(t) + 1 /\ w[1] = e
      /\ \A i \in 2..(Len(t) + 1) : w[i] = t[i - 1]
    BY <1>2, PushElements
<1>4. PICK h : h = <<k>> \o r
    OBVIOUS
<1>5. /\ h \in Seq(Keys) /\ Len(h) = Len(r) + 1 /\ h[1] = k
      /\ \A i \in 2..(Len(r) + 1) : h[i] = r[i - 1]
    BY <1>1, <1>4, PushElements
<1>6. ASSUME NEW p \in 1..Len(h), NEW q \in 1..Len(h), h[p] = h[q]
      PROVE  p = q
  <2>1. \A j \in 1..Len(h) : j # 1 => j - 1 \in 1..Len(r) /\ h[j] = r[j - 1]
      BY <1>1, <1>5
  <2>2. CASE p = 1 \/ q = 1
      BY <1>5, <1>6, <2>1, <2>2
  <2>3. CASE p # 1 /\ q # 1
    <3>1. /\ p - 1 \in 1..Len(r) /\ q - 1 \in 1..Len(r)
          /\ r[p - 1] = r[q - 1]
        BY <1>6, <2>1, <2>3
    <3>2. p - 1 = q - 1
        BY <1>1, <3>1
    <3>. QED
        BY <3>2
  <2>. QED
      BY <2>2, <2>3
<1>7. ASSUME NEW j \in 1..Len(w)
      PROVE  n[w[j]].key = h[j]
  <2>1. CASE j = 1
      BY <1>3, <1>5, <2>1
  <2>2. CASE j # 1
    <3>0. /\ j \in 2..(Len(t) + 1) /\ j \in 2..(Len(r) + 1)
          /\ j - 1 \in 1..Len(t) /\ j - 1 \in 1..Len(r)
        BY <1>1, <1>3, <2>2
    <3>1. /\ j - 1 \in 1..Len(t) /\ w[j] = t[j - 1]
          /\ j - 1 \in 1..Len(r) /\ h[j] = r[j - 1]
        BY <1>3, <1>5, <3>0
    <3>2. t[j - 1] \in Slots /\ t[j - 1] # e
        BY <3>1, SeqElements DEF On
    <3>. QED
        BY <1>1, <3>1, <3>2
  <2>. QED
      BY <2>1, <2>2
<1>8. Len(w) <= Len(h)
    BY <1>1, <1>3, <1>5
<1>9. ByAge(n, w, h)
    BY <1>5, <1>6, <1>7, <1>8 DEF ByAge
<1>. QED
    BY <1>2, <1>4, <1>9

-----------------------------------------------------------------------------
(* Writes to one entry. *)
fill(es, e, k, v) == [es EXCEPT ![e].key = k, ![e].val = v]
overwrite(es, e, v) == [es EXCEPT ![e].val = v]
place(es, e, p, q) == [es EXCEPT ![e].prev = p, ![e].next = q]

LEMMA WriteContents ==
    ASSUME NEW es \in [Slots -> Entry], NEW e \in Slots,
           NEW k \in Keys \cup {Free}, NEW v \in Vals \cup {Free}, NEW n,
           n = fill(es, e, k, v)
    PROVE  /\ n \in [Slots -> Entry]
           /\ \A x \in Slots :
                 /\ n[x].key = (IF x = e THEN k ELSE es[x].key)
                 /\ n[x].val = (IF x = e THEN v ELSE es[x].val)
                 /\ n[x].prev = es[x].prev /\ n[x].next = es[x].next
BY DEF Entry, fill, overwrite, place

LEMMA Release ==
    ASSUME NEW es \in [Slots -> Entry], NEW e \in Slots, NEW n,
           n = fill(es, e, Free, Free)
    PROVE  /\ n \in [Slots -> Entry]
           /\ \A x \in Slots :
                 /\ n[x].key = (IF x = e THEN Free ELSE es[x].key)
                 /\ n[x].val = (IF x = e THEN Free ELSE es[x].val)
                 /\ n[x].prev = es[x].prev /\ n[x].next = es[x].next
BY DEF Entry, fill

LEMMA WriteValue ==
    ASSUME NEW es \in [Slots -> Entry], NEW e \in Slots,
           NEW v \in Vals \cup {Free}, NEW n, n = overwrite(es, e, v)
    PROVE  /\ n \in [Slots -> Entry]
           /\ \A x \in Slots :
                 /\ n[x].key = es[x].key
                 /\ n[x].val = (IF x = e THEN v ELSE es[x].val)
                 /\ n[x].prev = es[x].prev /\ n[x].next = es[x].next
BY DEF Entry, fill, overwrite, place

LEMMA WriteLinks ==
    ASSUME NEW es \in [Slots -> Entry], NEW e \in Slots,
           NEW p \in Ptr, NEW q \in Ptr, NEW n,
           n = place(es, e, p, q)
    PROVE  /\ n \in [Slots -> Entry]
           /\ \A x \in Slots :
                 /\ n[x].key = es[x].key /\ n[x].val = es[x].val
                 /\ n[x].prev = (IF x = e THEN p ELSE es[x].prev)
                 /\ n[x].next = (IF x = e THEN q ELSE es[x].next)
BY DEF Entry, fill, overwrite, place

(* What the loops over the list and over the array find. *)
LEMMA FindMeans ==
    ASSUME NEW w, Good(w), NEW k
    PROVE  \/ find(k) = Null /\ \A i \in 1..Len(w) : entries[w[i]].key # k
           \/ \E i \in 1..Len(w) :
                 /\ find(k) = w[i] /\ w[i] \in Slots /\ find(k) # Null
                 /\ entries[w[i]].key = k
<1> DEFINE hits == {i \in DOMAIN w : entries[w[i]].key = k}
<1>1. w \in Seq(Slots) /\ Null \notin Slots /\ DOMAIN w = 1..Len(w)
    BY DEF Good, Linked, Slots, Null
<1>2. find(k) = IF hits = {} THEN Null ELSE w[Min(hits)]
    BY WalkIsPath DEF find
<1>3. CASE hits = {}
    BY <1>1, <1>2, <1>3
<1>4. CASE hits # {}
  <2>1. hits \subseteq Nat
      BY <1>1
  <2>2. Min(hits) \in hits
      BY <1>4, <2>1, MinIsLeast
  <2>3. Min(hits) \in 1..Len(w) /\ entries[w[Min(hits)]].key = k
      BY <1>1, <2>2
  <2>. QED
      BY <1>1, <1>2, <1>4, <2>3, SeqElements
<1>. QED
    BY <1>3, <1>4

LEMMA AllocMeans ==
    ASSUME NEW w, Good(w), Len(w) < CHAINLEN
    PROVE  /\ alloc_entry \in Slots /\ entries[alloc_entry].key = Free
           /\ ~On(w, alloc_entry)
<1> DEFINE unused == {s \in Slots : entries[s].key = Free}
<1>1. w \in Seq(Slots) /\ Len(w) \in Nat /\ CHAINLEN \in Nat
    BY ChainLenAssumption DEF Good, Linked
<1>2. unused # {}
  <2> SUFFICES ASSUME unused = {} PROVE FALSE
      OBVIOUS
  <2>1. \A s \in Slots : \E i \in 1..Len(w) : w[i] = s
      BY DEF Good, Complete, On
  <2> DEFINE spot == [s \in Slots |-> CHOOSE i \in 1..Len(w) : w[i] = s]
  <2>2. \A s \in Slots : spot[s] \in 1..Len(w) /\ w[spot[s]] = s
      BY <2>1
  <2>3. spot \in [Slots -> 1..Len(w)]
      BY <2>2
  <2> HIDE DEF spot
  <2>4. IsFiniteSet(Slots) /\ Cardinality(Slots) = CHAINLEN
    <3>1. 1 \in Int /\ CHAINLEN \in Int /\ ~(1 > CHAINLEN)
        BY ChainLenAssumption
    <3>2. /\ IsFiniteSet(1..CHAINLEN)
          /\ Cardinality(1..CHAINLEN) =
                IF 1 > CHAINLEN THEN 0 ELSE CHAINLEN - 1 + 1
        BY <3>1, FS_Interval
    <3>. QED
        BY <1>1, <3>1, <3>2 DEF Slots
  <2>5. IsFiniteSet(1..Len(w)) /\ Cardinality(1..Len(w)) = Len(w)
    <3>1. 1 \in Int /\ Len(w) \in Int
        BY <1>1
    <3>2. /\ IsFiniteSet(1..Len(w))
          /\ Cardinality(1..Len(w)) = IF 1 > Len(w) THEN 0 ELSE Len(w) - 1 + 1
        BY <3>1, FS_Interval
    <3>. QED
        BY <1>1, <3>2
  <2>6. \E x, y \in Slots : x # y /\ spot[x] = spot[y]
      BY <2>3, <2>4, <2>5, FS_PigeonHole
  <2>. QED
      BY <2>2, <2>6
<1>3. unused \subseteq Nat
    BY <1>1 DEF Slots
<1>4. alloc_entry \in unused
    BY <1>2, <1>3, MinIsLeast DEF alloc_entry
<1>5. \A i \in 1..Len(w) : entries[w[i]].key # Free
    BY SizesAssumption DEF Good, Keyed, Free
<1>. QED
    BY <1>4, <1>5 DEF On

(* Where the ends of a list are. *)
LEMMA GoodMeans ==
    ASSUME NEW w, Good(w)
    PROVE  /\ w \in Seq(Slots) /\ Len(w) \in Nat /\ CHAINLEN \in Nat
           /\ entries \in [Slots -> Entry] /\ Null \in Ptr /\ Null \notin Slots
           /\ \A p, q \in 1..Len(w) : w[p] = w[q] => p = q
           /\ \A i \in 1..Len(w) : w[i] \in Slots /\ w[i] \in Ptr
           /\ \A i \in Int : at(w, i) \in Ptr
           /\ first = at(w, 1) /\ last = at(w, Len(w))
           /\ \A i \in 1..Len(w) : /\ entries[w[i]].next = at(w, i + 1)
                                   /\ entries[w[i]].prev = at(w, i - 1)
<1>1. w \in Seq(Slots) /\ Len(w) \in Nat /\ Null \in Ptr /\ Null \notin Slots
    BY DEF Good, Linked, Ptr, Slots, Null
<1>2. \A i \in 1..Len(w) : w[i] \in Slots /\ w[i] \in Ptr
    BY <1>1, SeqElements DEF Ptr
<1>3. \A i \in Int : at(w, i) \in Ptr
    BY <1>1, <1>2 DEF at
<1>. QED
    BY <1>1, <1>2, <1>3, ChainLenAssumption DEF Good, Linked

(* Evicting the last entry for a new key. *)
LEMMA InsertFullKeeps ==
    ASSUME NEW w, Good(w), NEW k \in Keys, NEW v \in Vals, len = CHAINLEN,
           \A i \in 1..Len(w) : entries[w[i]].key # k,
           insert_in_full_chain(k, v)
    PROVE  \E z \in Seq(Slots) :
              /\ Good(z)' /\ Len(z) = Len(w) /\ Len(w) > 1 /\ len' = len
              /\ lst(entries', z) = <<[key |-> k, val |-> v]>>
                                       \o RemoveAt(lst(entries, w), Len(w))
<1> DEFINE N == Len(w)
           e == w[N]
           t == RemoveAt(w, N)
<1>g. /\ w \in Seq(Slots) /\ Len(w) \in Nat /\ CHAINLEN \in Nat
      /\ entries \in [Slots -> Entry] /\ Null \in Ptr /\ Null \notin Slots
      /\ \A p, q \in 1..Len(w) : w[p] = w[q] => p = q
      /\ \A i \in 1..Len(w) : w[i] \in Slots /\ w[i] \in Ptr
      /\ first = at(w, 1) /\ last = at(w, Len(w))
      /\ \A i \in 1..Len(w) : entries[w[i]].prev = at(w, i - 1)
    BY GoodMeans
<1>1. N \in 1..Len(w) /\ last = e /\ e \in Slots /\ e \in Ptr
  <2>1. N # 0
      BY <1>g, SMTT(30) DEF Good, Counted
  <2>. QED
      BY <1>g, <2>1 DEF at
<1>2. entries[e].prev = at(w, N - 1) /\ entries[e].prev # Null
    BY <1>g, <1>1 DEF insert_in_full_chain
<1>3. /\ N - 1 \in 1..Len(w) /\ N # 1 /\ at(w, N - 1) = w[N - 1]
      /\ first = w[1] /\ 1 \in 1..Len(w) /\ at(w, N + 1) = Null
    BY <1>g, <1>1, <1>2 DEF at
<1>4. PICK es1 : es1 = fill(entries, e, k, v)
    OBVIOUS
<1>5. PICK es2 : es2 = link_next(es1, w[N - 1], Null)
    OBVIOUS
<1>6. PICK es3 : es3 = place(es2, e, Null, first)
    BY Zenon
<1>7. entries' = link_prev(es3, first, e)
    BY <1>1, <1>2, <1>3, <1>4, <1>5, <1>6, Zenon DEF insert_in_full_chain, fill, place
<1>8. /\ first' = e /\ last' = at(w, N - 1) /\ len' = len /\ crashed' = crashed
      /\ recent' = <<k>> \o RemoveFirst(recent, k)
    BY <1>1, <1>2 DEF insert_in_full_chain, touch
<1> HIDE DEF e, t
<1>h. /\ entries \in [Slots -> Entry] /\ e \in Slots /\ e \in Ptr
      /\ k \in Keys \cup {Free} /\ v \in Vals \cup {Free}
      /\ Null \in Ptr /\ first \in Ptr /\ w[N - 1] \in Ptr
    BY <1>g, <1>1, <1>3
<1>9. /\ es1 \in [Slots -> Entry]
      /\ \A x \in Slots : /\ es1[x].key = (IF x = e THEN k ELSE entries[x].key)
                           /\ es1[x].val = (IF x = e THEN v ELSE entries[x].val)
                           /\ es1[x].prev = entries[x].prev
                           /\ es1[x].next = entries[x].next
    BY <1>h, <1>4, WriteContents
<1>10. /\ es2 \in [Slots -> Entry]
       /\ \A x \in Slots : /\ es2[x].key = es1[x].key /\ es2[x].val = es1[x].val
                            /\ es2[x].prev = es1[x].prev
                            /\ es2[x].next = IF x = w[N - 1] THEN Null ELSE es1[x].next
    BY <1>h, <1>5, <1>9, LinkNext
<1>11. /\ es3 \in [Slots -> Entry]
       /\ \A x \in Slots : /\ es3[x].key = es2[x].key /\ es3[x].val = es2[x].val
                            /\ es3[x].prev = (IF x = e THEN Null ELSE es2[x].prev)
                            /\ es3[x].next = (IF x = e THEN first ELSE es2[x].next)
    BY <1>h, <1>6, <1>10, WriteLinks, SMTT(30)
<1>12. /\ entries' \in [Slots -> Entry]
       /\ \A x \in Slots : /\ entries'[x].key = es3[x].key
                            /\ entries'[x].val = es3[x].val
                            /\ entries'[x].next = es3[x].next
                            /\ entries'[x].prev = IF x = first THEN e ELSE es3[x].prev
    BY <1>h, <1>7, <1>11, LinkPrev
<1>13. /\ Linked(es2, first, at(w, N - 1), t)
       /\ \A x \in Slots : On(t, x) <=> On(w, x) /\ x # e
       /\ Len(t) = Len(w) - 1
  <2>1. Linked(entries, first, last, w)
      BY DEF Good
  <2>2. \A x \in Slots : x # w[N] =>
              /\ es2[x].next = IF x = at(w, N - 1) THEN at(w, N + 1) ELSE entries[x].next
              /\ es2[x].prev = IF x = at(w, N + 1) THEN at(w, N - 1) ELSE entries[x].prev
      BY <1>g, <1>3, <1>9, <1>10
  <2>. QED
      BY <1>1, <1>3, <1>10, <2>1, <2>2, UnlinkKeepsLinks DEF e, t
<1>14. t \in Seq(Slots) /\ Len(t) # 0 /\ ~On(t, e)
    BY <1>g, <1>1, <1>3, <1>13 DEF Linked
<1>15. PICK z : z = <<e>> \o t
    OBVIOUS
<1>16. first # e
    BY <1>g, <1>1, <1>3 DEF e
<1>17. /\ Linked(entries', first', last', z)
       /\ \A x \in Slots : On(z, x) <=> On(t, x) \/ x = e
       /\ Len(z) = Len(t) + 1
  <2>1. entries'[e].next = first /\ entries'[e].prev = Null
      BY <1>1, <1>11, <1>12, <1>16
  <2>2. \A x \in Slots : x # e =>
              /\ entries'[x].next = es2[x].next
              /\ entries'[x].prev = IF x = first THEN e ELSE es2[x].prev
      BY <1>11, <1>12
  <2>3. /\ Linked(entries', e, IF Len(t) = 0 THEN e ELSE at(w, N - 1), z)
        /\ \A x \in Slots : On(z, x) <=> On(t, x) \/ x = e
        /\ Len(z) = Len(t) + 1
      BY <1>1, <1>12, <1>13, <1>14, <1>15, <2>1, <2>2, PushKeepsLinks
  <2>. QED
      BY <1>8, <1>14, <2>3
<1>18. /\ Keyed(es2, t) /\ lst(es2, t) = RemoveAt(lst(entries, w), N)
  <2>1. Keyed(entries, w)
      BY DEF Good
  <2>2. \A x \in Slots : x # w[N] => /\ es2[x].key = entries[x].key
                                     /\ es2[x].val = entries[x].val
      BY <1>9, <1>10 DEF e
  <2>. QED
      BY <1>g, <1>1, <2>1, <2>2, UnlinkKeepsKeys DEF t
<1>19. \A j \in 1..Len(t) : es2[t[j]].key # k
  <2> TAKE j \in 1..Len(t)
  <2>1. t[j] \in Slots /\ On(t, t[j])
      BY <1>14, SeqElements DEF On
  <2>2. On(w, t[j]) /\ t[j] # e
      BY <1>13, <2>1
  <2>. QED
      BY <1>9, <1>10, <2>1, <2>2 DEF On
<1>20. /\ \A x \in Slots : x # e => /\ entries'[x].key = es2[x].key
                                     /\ entries'[x].val = es2[x].val
       /\ entries'[e].key = k /\ entries'[e].val = v
    BY <1>1, <1>9, <1>10, <1>11, <1>12
<1>21. /\ Keyed(entries', z)
       /\ lst(entries', z) = <<[key |-> k, val |-> v]>> \o lst(es2, t)
    BY <1>1, <1>14, <1>15, <1>18, <1>19, <1>20, PushKeepsKeys
<1>22. ByAge(entries', z, recent')
  <2>1. ByAge(entries, w, recent)
      BY DEF Good
  <2>2. \A x \in Slots : x # w[N] => es2[x].key = entries[x].key
      BY <1>9, <1>10 DEF e
  <2>3. ByAge(es2, t, recent)
      BY <1>g, <1>1, <2>1, <2>2, ForgetOldest DEF t
  <2>4. PICK r : r = RemoveFirst(recent, k)
      OBVIOUS
  <2>5. ByAge(es2, t, r) /\ \A i \in 1..Len(r) : r[i] # k
      BY <1>14, <1>19, <2>3, <2>4, ForgetStranger
  <2>6. ByAge(entries', <<e>> \o t, <<k>> \o r)
      BY <1>1, <1>14, <1>20, <2>5, RememberNewest
  <2>. QED
      BY <1>8, <1>15, <2>4, <2>6
<1>23. Complete(entries', z)
  <2> SUFFICES ASSUME NEW s \in Slots, entries'[s].key # Free
               PROVE  On(z, s)
      BY DEF Complete
  <2>1. CASE s = e
      BY <1>17, <2>1
  <2>2. CASE s # e
    <3>1. entries[s].key # Free
        BY <1>9, <1>10, <1>20, <2>2
    <3>. QED
        BY <1>13, <1>17, <2>2, <3>1 DEF Good, Complete
  <2>. QED
      BY <2>1, <2>2
<1>24. Len(z) = Len(w) /\ z \in Seq(Slots)
    BY <1>g, <1>13, <1>17 DEF Linked
<1>25. Good(z)'
    BY <1>8, <1>17, <1>21, <1>22, <1>23, <1>24 DEF Good, Counted
<1>26. Len(w) > 1
    BY <1>g, <1>1, <1>3
<1>. QED
    BY <1>8, <1>18, <1>21, <1>24, <1>25, <1>26

(* Its error path: the last entry is gone, and so is its slot. *)
LEMMA InsertFullFailsKeeps ==
    ASSUME NEW w, Good(w), NEW k \in Keys, NEW v \in Vals, len = CHAINLEN,
           insert_in_full_chain_fails(k, v)
    PROVE  \E z \in Seq(Slots) :
              /\ Good(z)' /\ Len(z) = Len(w) - 1 /\ Len(z) # 0 /\ len' = len
              /\ lst(entries', z) = RemoveAt(lst(entries, w), Len(w))
<1> DEFINE N == Len(w)
           e == w[N]
           t == RemoveAt(w, N)
<1>g. /\ w \in Seq(Slots) /\ Len(w) \in Nat /\ CHAINLEN \in Nat
      /\ entries \in [Slots -> Entry] /\ Null \in Ptr /\ Null \notin Slots
      /\ \A p, q \in 1..Len(w) : w[p] = w[q] => p = q
      /\ \A i \in 1..Len(w) : w[i] \in Slots /\ w[i] \in Ptr
      /\ first = at(w, 1) /\ last = at(w, Len(w))
      /\ \A i \in 1..Len(w) : entries[w[i]].prev = at(w, i - 1)
    BY GoodMeans
<1>1. N \in 1..Len(w) /\ last = e /\ e \in Slots /\ e \in Ptr
  <2>1. N # 0
      BY <1>g DEF Good, Counted
  <2>. QED
      BY <1>g, <2>1 DEF at
<1>2. entries[e].prev = at(w, N - 1) /\ entries[e].prev # Null
    BY <1>g, <1>1 DEF insert_in_full_chain_fails
<1>3. /\ N - 1 \in 1..Len(w) /\ N # 1 /\ at(w, N - 1) = w[N - 1]
      /\ at(w, N + 1) = Null
    BY <1>g, <1>1, <1>2 DEF at
<1>4. PICK es1 : es1 = link_next(entries, w[N - 1], Null)
    OBVIOUS
<1>5. entries' = fill(es1, e, Free, Free)
    BY <1>1, <1>2, <1>3, <1>4 DEF insert_in_full_chain_fails, fill
<1>6. /\ first' = first /\ last' = at(w, N - 1) /\ len' = len
      /\ crashed' = crashed /\ recent' = recent
    BY <1>1, <1>2 DEF insert_in_full_chain_fails
<1> HIDE DEF e, t
<1>h. /\ entries \in [Slots -> Entry] /\ e \in Slots
      /\ Null \in Ptr /\ w[N - 1] \in Ptr
    BY <1>g, <1>1, <1>3
<1>7. /\ es1 \in [Slots -> Entry]
      /\ \A x \in Slots : /\ es1[x].key = entries[x].key
                           /\ es1[x].val = entries[x].val
                           /\ es1[x].prev = entries[x].prev
                           /\ es1[x].next = IF x = w[N - 1] THEN Null
                                            ELSE entries[x].next
    BY <1>h, <1>4, LinkNext
<1>8. /\ entries' \in [Slots -> Entry]
      /\ \A x \in Slots : /\ entries'[x].key = (IF x = e THEN Free ELSE es1[x].key)
                           /\ entries'[x].val = (IF x = e THEN Free ELSE es1[x].val)
                           /\ entries'[x].prev = es1[x].prev
                           /\ entries'[x].next = es1[x].next
    BY <1>h, <1>5, <1>7, Release
<1>9. /\ Linked(entries', first, at(w, N - 1), t)
      /\ \A x \in Slots : On(t, x) <=> On(w, x) /\ x # e
      /\ Len(t) = Len(w) - 1
  <2>1. Linked(entries, first, last, w)
      BY DEF Good
  <2>2. \A x \in Slots : x # w[N] =>
              /\ entries'[x].next = IF x = at(w, N - 1) THEN at(w, N + 1)
                                    ELSE entries[x].next
              /\ entries'[x].prev = IF x = at(w, N + 1) THEN at(w, N - 1)
                                    ELSE entries[x].prev
      BY <1>g, <1>3, <1>7, <1>8
  <2>. QED
      BY <1>1, <1>3, <1>8, <2>1, <2>2, UnlinkKeepsLinks DEF e, t
<1>10. Keyed(entries', t) /\ lst(entries', t) = RemoveAt(lst(entries, w), N)
  <2>1. Keyed(entries, w)
      BY DEF Good
  <2>2. \A x \in Slots : x # w[N] => /\ entries'[x].key = entries[x].key
                                     /\ entries'[x].val = entries[x].val
      BY <1>7, <1>8 DEF e
  <2>. QED
      BY <1>g, <1>1, <2>1, <2>2, UnlinkKeepsKeys DEF t
<1>11. ByAge(entries', t, recent)
  <2>1. ByAge(entries, w, recent)
      BY DEF Good
  <2>2. \A x \in Slots : x # w[N] => entries'[x].key = entries[x].key
      BY <1>7, <1>8 DEF e
  <2>. QED
      BY <1>g, <1>1, <2>1, <2>2, ForgetOldest DEF t
<1>12. Complete(entries', t)
  <2> SUFFICES ASSUME NEW s \in Slots, entries'[s].key # Free
               PROVE  On(t, s)
      BY DEF Complete
  <2>1. s # e /\ entries[s].key # Free
      BY <1>7, <1>8
  <2>. QED
      BY <1>9, <2>1 DEF Good, Complete
<1>13. Len(t) = Len(w) - 1 /\ t \in Seq(Slots) /\ Len(t) # 0
    BY <1>g, <1>3, <1>9 DEF Linked
<1>14. Counted(len, t)
    BY <1>g, <1>13 DEF Good, Counted
<1>15. Good(t)'
    BY <1>6, <1>9, <1>10, <1>11, <1>12, <1>14 DEF Good
<1>. QED
    BY <1>6, <1>10, <1>13, <1>15

(* Deleting an entry. *)
LEMMA DeleteKeeps ==
    ASSUME NEW w, Good(w), NEW k \in Keys, NEW i \in 1..Len(w),
           find(k) = w[i], entries[w[i]].key = k, cache_del_hit(k)
    PROVE  \E z \in Seq(Slots) :
              /\ Good(z)' /\ Len(z) = Len(w) - 1 /\ len' = len - 1
              /\ lst(entries', z) = RemoveAt(lst(entries, w), i)
<1> DEFINE e == w[i]
           t == RemoveAt(w, i)
           p == at(w, i - 1)
           n == at(w, i + 1)
<1>g. /\ w \in Seq(Slots) /\ Len(w) \in Nat /\ CHAINLEN \in Nat
      /\ entries \in [Slots -> Entry] /\ Null \in Ptr /\ Null \notin Slots
      /\ \A a, b \in 1..Len(w) : w[a] = w[b] => a = b
      /\ \A a \in Int : at(w, a) \in Ptr
      /\ first = at(w, 1) /\ last = at(w, Len(w))
      /\ w[i] \in Slots
      /\ entries[w[i]].next = at(w, i + 1) /\ entries[w[i]].prev = at(w, i - 1)
    BY GoodMeans
<1>1. /\ first = e <=> i = 1
      /\ last = e <=> i = Len(w)
      /\ i = 1 => p = Null /\ n = at(w, 2)
      /\ i = Len(w) => n = Null
    BY <1>g DEF at
<1>2. PICK es1 : es1 = IF i = 1 THEN link_prev(entries, n, Null)
                       ELSE link_prev(link_next(entries, p, n), n, p)
    OBVIOUS
<1>3. entries' = fill(es1, e, Free, Free)
    BY <1>g, <1>1, <1>2 DEF cache_del_hit, fill
<1>4. /\ first' = (IF i = 1 THEN n ELSE first)
      /\ last' = (IF i = Len(w) THEN p ELSE last) /\ len' = len - 1
      /\ crashed' = crashed /\ recent' = RemoveFirst(recent, k)
    BY <1>g, <1>1 DEF cache_del_hit
<1>h. /\ entries \in [Slots -> Entry] /\ e \in Slots
      /\ Null \in Ptr /\ p \in Ptr /\ n \in Ptr
    BY <1>g
<1> HIDE DEF e, t, p, n
<1>5. /\ es1 \in [Slots -> Entry]
      /\ \A x \in Slots : /\ es1[x].key = entries[x].key
                           /\ es1[x].val = entries[x].val
                           /\ es1[x].next = (IF x = p THEN n ELSE entries[x].next)
                           /\ es1[x].prev = (IF x = n THEN p ELSE entries[x].prev)
  <2>1. CASE i = 1
    <3>1. es1 = link_prev(entries, n, Null) /\ p = Null
        BY <1>1, <1>2, <2>1
    <3>2. /\ es1 \in [Slots -> Entry]
          /\ \A x \in Slots : /\ es1[x].key = entries[x].key
                               /\ es1[x].val = entries[x].val
                               /\ es1[x].next = entries[x].next
                               /\ es1[x].prev = IF x = n THEN Null
                                                ELSE entries[x].prev
        BY <1>h, <3>1, LinkPrev
    <3>. QED
        BY <1>g, <3>1, <3>2
  <2>2. CASE i # 1
    <3>1. PICK es0 : es0 = link_next(entries, p, n)
        OBVIOUS
    <3>2. es1 = link_prev(es0, n, p)
        BY <1>2, <2>2, <3>1
    <3>3. /\ es0 \in [Slots -> Entry]
          /\ \A x \in Slots : /\ es0[x].key = entries[x].key
                               /\ es0[x].val = entries[x].val
                               /\ es0[x].prev = entries[x].prev
                               /\ es0[x].next = IF x = p THEN n
                                                ELSE entries[x].next
        BY <1>h, <3>1, LinkNext
    <3>4. /\ es1 \in [Slots -> Entry]
          /\ \A x \in Slots : /\ es1[x].key = es0[x].key /\ es1[x].val = es0[x].val
                               /\ es1[x].next = es0[x].next
                               /\ es1[x].prev = IF x = n THEN p ELSE es0[x].prev
        BY <1>h, <3>2, <3>3, LinkPrev
    <3>. QED
        BY <3>3, <3>4
  <2>. QED
      BY <2>1, <2>2
<1>6. /\ entries' \in [Slots -> Entry]
      /\ \A x \in Slots : /\ entries'[x].key = (IF x = e THEN Free ELSE es1[x].key)
                           /\ entries'[x].val = (IF x = e THEN Free ELSE es1[x].val)
                           /\ entries'[x].prev = es1[x].prev
                           /\ entries'[x].next = es1[x].next
    BY <1>h, <1>3, <1>5, Release
<1>7. /\ Linked(entries', first', last', t)
      /\ \A x \in Slots : On(t, x) <=> On(w, x) /\ x # e
      /\ Len(t) = Len(w) - 1
  <2>1. Linked(entries, first, last, w)
      BY DEF Good
  <2>2. \A x \in Slots : x # w[i] =>
              /\ entries'[x].next = IF x = at(w, i - 1) THEN at(w, i + 1)
                                    ELSE entries[x].next
              /\ entries'[x].prev = IF x = at(w, i + 1) THEN at(w, i - 1)
                                    ELSE entries[x].prev
      BY <1>5, <1>6 DEF p, n
  <2>3. /\ Linked(entries', IF i = 1 THEN at(w, 2) ELSE first,
                            IF i = Len(w) THEN at(w, i - 1) ELSE last, t)
        /\ \A x \in Slots : On(t, x) <=> On(w, x) /\ x # e
        /\ Len(t) = Len(w) - 1
      BY <1>6, <2>1, <2>2, UnlinkKeepsLinks DEF e, t
  <2>4. /\ first' = IF i = 1 THEN at(w, 2) ELSE first
        /\ last' = IF i = Len(w) THEN at(w, i - 1) ELSE last
      BY <1>1, <1>4 DEF p
  <2>. QED
      BY <2>3, <2>4
<1>8. Keyed(entries', t) /\ lst(entries', t) = RemoveAt(lst(entries, w), i)
  <2>1. Keyed(entries, w)
      BY DEF Good
  <2>2. \A x \in Slots : x # w[i] => /\ entries'[x].key = entries[x].key
                                     /\ entries'[x].val = entries[x].val
      BY <1>5, <1>6 DEF e
  <2>. QED
      BY <1>g, <2>1, <2>2, UnlinkKeepsKeys DEF t
<1>9. ByAge(entries', t, recent')
  <2>1. ByAge(entries, w, recent)
      BY DEF Good
  <2>2. \A x \in Slots : x # w[i] => entries'[x].key = entries[x].key
      BY <1>5, <1>6 DEF e
  <2>3. ByAge(entries', t, RemoveFirst(recent, k))
      BY <1>g, <2>1, <2>2, ForgetMember DEF t
  <2>. QED
      BY <1>4, <2>3
<1>10. Complete(entries', t)
  <2> SUFFICES ASSUME NEW s \in Slots, entries'[s].key # Free
               PROVE  On(t, s)
      BY DEF Complete
  <2>1. s # e /\ entries[s].key # Free
      BY <1>5, <1>6
  <2>. QED
      BY <1>7, <2>1 DEF Good, Complete
<1>11. t \in Seq(Slots)
    BY <1>7 DEF Linked
<1>12. Counted(len', t)
    BY <1>g, <1>4, <1>7, <1>11 DEF Good, Counted
<1>13. Good(t)'
    BY <1>4, <1>7, <1>8, <1>9, <1>10, <1>12 DEF Good
<1>. QED
    BY <1>4, <1>7, <1>8, <1>11, <1>13

(* A new key in a slot that is free. *)
LEMMA InsertFreeKeeps ==
    ASSUME NEW w, Good(w), NEW k \in Keys, NEW v \in Vals, len # CHAINLEN,
           \A i \in 1..Len(w) : entries[w[i]].key # k,
           insert_in_free_slot(k, v)
    PROVE  \E z \in Seq(Slots) :
              /\ Good(z)' /\ Len(z) = Len(w) + 1 /\ len' = len + 1
              /\ lst(entries', z) = <<[key |-> k, val |-> v]>> \o lst(entries, w)
<1> DEFINE e == alloc_entry
<1>g. /\ w \in Seq(Slots) /\ Len(w) \in Nat /\ CHAINLEN \in Nat
      /\ entries \in [Slots -> Entry] /\ Null \in Ptr /\ Null \notin Slots
      /\ \A a \in Int : at(w, a) \in Ptr
      /\ first = at(w, 1) /\ last = at(w, Len(w))
    BY GoodMeans
<1>1. /\ len \in Nat /\ len < CHAINLEN /\ Len(w) < CHAINLEN
      /\ len = 0 => Len(w) = 0
      /\ Len(w) = 0 => first = Null
      /\ len = 0 \/ first # Null
    BY <1>g DEF Good, Counted, at, insert_in_free_slot
<1>2. e \in Slots /\ entries[e].key = Free /\ ~On(w, e)
    BY <1>1, AllocMeans
<1>3. PICK es1 : es1 = [entries EXCEPT ![e] = [key |-> k, val |-> v,
                                               prev |-> Null, next |-> Null]]
    OBVIOUS
<1>4. PICK es2 : es2 = [es1 EXCEPT ![e].next = first]
    OBVIOUS
<1>5. /\ entries' = IF len = 0 THEN es1 ELSE link_prev(es2, first, e)
      /\ first' = e /\ last' = (IF len = 0 THEN e ELSE last) /\ len' = len + 1
      /\ crashed' = crashed /\ recent' = <<k>> \o RemoveFirst(recent, k)
    BY <1>3, <1>4 DEF insert_in_free_slot, touch
<1> HIDE DEF e
<1>6. first \in Ptr /\ e \in Ptr
    BY <1>g, <1>2 DEF Ptr
<1>7. /\ es1 \in [Slots -> Entry]
      /\ \A x \in Slots : x # e => es1[x] = entries[x]
      /\ es1[e].key = k /\ es1[e].val = v
      /\ es1[e].prev = Null /\ es1[e].next = Null
    BY <1>g, <1>2, <1>3 DEF Entry
<1>8. /\ es2 \in [Slots -> Entry]
      /\ \A x \in Slots : x # e => es2[x] = es1[x]
      /\ es2[e].key = k /\ es2[e].val = v
      /\ es2[e].prev = Null /\ es2[e].next = first
    BY <1>2, <1>4, <1>6, <1>7 DEF Entry
<1>9. first # e
    BY <1>g, <1>1, <1>2 DEF at, On
<1>10. /\ entries' \in [Slots -> Entry]
       /\ \A x \in Slots : x # e =>
             /\ entries'[x].key = entries[x].key
             /\ entries'[x].val = entries[x].val
             /\ entries'[x].next = entries[x].next
             /\ entries'[x].prev = IF x = first THEN e ELSE entries[x].prev
       /\ entries'[e].key = k /\ entries'[e].val = v
       /\ entries'[e].prev = Null /\ entries'[e].next = first
  <2>1. CASE len = 0
      BY <1>g, <1>1, <1>5, <1>7, <2>1
  <2>2. CASE len # 0
    <3>1. entries' = link_prev(es2, first, e)
        BY <1>5, <2>2
    <3>2. /\ entries' \in [Slots -> Entry]
          /\ \A x \in Slots : /\ entries'[x].key = es2[x].key
                               /\ entries'[x].val = es2[x].val
                               /\ entries'[x].next = es2[x].next
                               /\ entries'[x].prev = IF x = first THEN e
                                                     ELSE es2[x].prev
        BY <1>6, <1>8, <3>1, LinkPrev
    <3>. QED
        BY <1>2, <1>7, <1>8, <1>9, <3>2
  <2>. QED
      BY <2>1, <2>2
<1>11. PICK z : z = <<e>> \o w
    OBVIOUS
<1>12. /\ Linked(entries', first', last', z)
       /\ \A x \in Slots : On(z, x) <=> On(w, x) \/ x = e
       /\ Len(z) = Len(w) + 1
  <2>1. Linked(entries, first, last, w)
      BY DEF Good
  <2>2. /\ Linked(entries', e, IF Len(w) = 0 THEN e ELSE last, z)
        /\ \A x \in Slots : On(z, x) <=> On(w, x) \/ x = e
        /\ Len(z) = Len(w) + 1
      BY <1>2, <1>10, <1>11, <2>1, PushKeepsLinks
  <2>3. (Len(w) = 0) = (len = 0)
      BY <1>1, Zenon
  <2>4. last' = IF Len(w) = 0 THEN e ELSE last
      BY <1>5, <2>3
  <2>. QED
      BY <1>5, <2>2, <2>4
<1>13. /\ Keyed(entries', z)
       /\ lst(entries', z) = <<[key |-> k, val |-> v]>> \o lst(entries, w)
  <2>1. Keyed(entries, w)
      BY DEF Good
  <2>2. \A x \in Slots : x # e => /\ entries'[x].key = entries[x].key
                                  /\ entries'[x].val = entries[x].val
      BY <1>10
  <2>3. /\ entries'[e].key \in Keys /\ entries'[e].val \in Vals
        /\ \A j \in 1..Len(w) : entries[w[j]].key # entries'[e].key
      BY <1>10
  <2>4. w \in Seq(Slots)
      BY <1>g
  <2>5. /\ Keyed(entries', <<e>> \o w)
        /\ lst(entries', <<e>> \o w) =
              <<[key |-> entries'[e].key, val |-> entries'[e].val]>>
                  \o lst(entries, w)
      BY <1>2, <2>1, <2>2, <2>3, <2>4, PushKeepsKeys
  <2>. QED
      BY <1>10, <1>11, <2>5
<1>14. ByAge(entries', z, recent')
  <2>1. ByAge(entries, w, recent)
      BY DEF Good
  <2>2. PICK r : r = RemoveFirst(recent, k)
      OBVIOUS
  <2>3. ByAge(entries, w, r) /\ \A i \in 1..Len(r) : r[i] # k
      BY <1>g, <2>1, <2>2, ForgetStranger
  <2>4. ByAge(entries', <<e>> \o w, <<k>> \o r)
      BY <1>g, <1>2, <1>10, <2>3, RememberNewest
  <2>. QED
      BY <1>5, <1>11, <2>2, <2>4
<1>15. Complete(entries', z)
  <2> SUFFICES ASSUME NEW s \in Slots, entries'[s].key # Free
               PROVE  On(z, s)
      BY DEF Complete
  <2>1. s = e \/ entries[s].key # Free
      BY <1>10
  <2>. QED
      BY <1>12, <2>1 DEF Good, Complete
<1>16. z \in Seq(Slots)
    BY <1>12 DEF Linked
<1>17. Counted(len', z)
    BY <1>g, <1>1, <1>5, <1>12, <1>16 DEF Good, Counted
<1>18. Good(z)'
    BY <1>5, <1>12, <1>13, <1>14, <1>15, <1>17 DEF Good
<1>. QED
    BY <1>5, <1>12, <1>13, <1>16, <1>18

(* A path is its first slot and the rest. *)
LEMMA FirstAndRest ==
    ASSUME NEW S, NEW w \in Seq(S), Len(w) # 0
    PROVE  w = <<w[1]>> \o RemoveAt(w, 1)
<1>1. Len(w) \in Nat /\ 1 \in 1..Len(w) /\ w[1] \in S
    BY SeqElements
<1>2. PICK t : t = RemoveAt(w, 1)
    OBVIOUS
<1>3. /\ t \in Seq(S) /\ Len(t) = Len(w) - 1
      /\ \A j \in 1..(Len(w) - 1) : t[j] = IF j < 1 THEN w[j] ELSE w[j + 1]
    BY <1>1, <1>2, RemoveAtElements
<1>4. PICK z : z = <<w[1]>> \o t
    OBVIOUS
<1>5. /\ z \in Seq(S) /\ Len(z) = Len(t) + 1 /\ z[1] = w[1]
      /\ \A j \in 2..(Len(t) + 1) : z[j] = t[j - 1]
    BY <1>1, <1>3, <1>4, PushElements
<1>6. ASSUME NEW j \in 1..Len(w)
      PROVE  w[j] = z[j]
  <2>1. CASE j = 1
      BY <1>5, <2>1
  <2>2. CASE j # 1
    <3>1. /\ j \in 2..(Len(t) + 1) /\ j - 1 \in 1..(Len(w) - 1)
          /\ ~(j - 1 < 1) /\ j - 1 + 1 = j
        BY <1>1, <1>3, <2>2
    <3>. QED
        BY <1>3, <1>5, <3>1
  <2>. QED
      BY <2>1, <2>2
<1>7. Len(w) = Len(z)
    BY <1>1, <1>3, <1>5
<1>8. w = z
    BY <1>5, <1>6, <1>7, SameElements
<1>. QED
    BY <1>2, <1>4, <1>8

(* Replacing a value and putting the entry first. *)
LEMMA PromoteKeeps ==
    ASSUME NEW w, Good(w), NEW k \in Keys, NEW v \in Vals, NEW i \in 1..Len(w),
           entries[w[i]].key = k, replace_and_promote(w[i], k, v)
    PROVE  \E z \in Seq(Slots) :
              /\ Good(z)' /\ Len(z) = Len(w) /\ len' = len
              /\ lst(entries', z) = <<[key |-> k, val |-> v]>>
                                       \o RemoveAt(lst(entries, w), i)
<1> DEFINE e == w[i]
           t == RemoveAt(w, i)
           p == at(w, i - 1)
           n == at(w, i + 1)
<1>g. /\ w \in Seq(Slots) /\ Len(w) \in Nat /\ CHAINLEN \in Nat
      /\ entries \in [Slots -> Entry] /\ Null \in Ptr /\ Null \notin Slots
      /\ \A a, b \in 1..Len(w) : w[a] = w[b] => a = b
      /\ \A a \in 1..Len(w) : w[a] \in Slots /\ w[a] \in Ptr
      /\ \A a \in Int : at(w, a) \in Ptr
      /\ first = at(w, 1) /\ last = at(w, Len(w))
      /\ entries[w[i]].next = at(w, i + 1) /\ entries[w[i]].prev = at(w, i - 1)
    BY GoodMeans
<1>1. /\ first = e <=> i = 1
      /\ last = e <=> i = Len(w)
      /\ i # 1 => p = w[i - 1] /\ i - 1 \in 1..Len(w)
      /\ first = w[1] /\ 1 \in 1..Len(w) /\ Len(w) # 0
    BY <1>g DEF at
<1>2. PICK es1 : es1 = overwrite(entries, e, v)
    OBVIOUS
<1>3. PICK es2 : es2 = link_next(es1, p, n)
    OBVIOUS
<1>4. PICK es3 : es3 = link_prev(es2, n, p)
    OBVIOUS
<1>5. PICK es4 : es4 = place(es3, e, Null, first)
    OBVIOUS
<1>6. entries' = IF i = 1 THEN es1 ELSE link_prev(es4, first, e)
  <2>1. entries[e].next = n /\ entries[e].prev = p
      BY <1>g
  <2>2. replace_and_promote(e, k, v)
      OBVIOUS
  <2> HIDE DEF e, n, p
  <2>3. CASE i = 1
      BY <1>1, <1>2, <2>2, <2>3 DEF replace_and_promote, overwrite
  <2>4. CASE i # 1
    <3>1. first # e
        BY <1>1, <2>4
    <3>. QED
        BY <1>2, <1>3, <1>4, <1>5, <2>1, <2>2, <2>4, <3>1
        DEF replace_and_promote, overwrite, place
  <2>. QED
      BY <2>3, <2>4
<1>7. /\ first' = e /\ last' = (IF i # 1 /\ i = Len(w) THEN p ELSE last)
      /\ len' = len /\ crashed' = crashed
      /\ recent' = <<k>> \o RemoveFirst(recent, k)
    BY <1>g, <1>1 DEF replace_and_promote, touch
<1>h. /\ entries \in [Slots -> Entry] /\ e \in Slots /\ e \in Ptr
      /\ v \in Vals \cup {Free}
      /\ Null \in Ptr /\ p \in Ptr /\ n \in Ptr /\ first \in Ptr
    BY <1>g
<1> HIDE DEF e, t, p, n
<1>8. /\ es1 \in [Slots -> Entry]
      /\ \A x \in Slots : /\ es1[x].key = entries[x].key
                           /\ es1[x].val = (IF x = e THEN v ELSE entries[x].val)
                           /\ es1[x].prev = entries[x].prev
                           /\ es1[x].next = entries[x].next
    BY <1>h, <1>2, WriteValue
<1>9. /\ es2 \in [Slots -> Entry]
      /\ \A x \in Slots : /\ es2[x].key = es1[x].key /\ es2[x].val = es1[x].val
                           /\ es2[x].prev = es1[x].prev
                           /\ es2[x].next = IF x = p THEN n ELSE es1[x].next
    BY <1>h, <1>3, <1>8, LinkNext, SMTT(30)
<1>10. /\ es3 \in [Slots -> Entry]
       /\ \A x \in Slots : /\ es3[x].key = es2[x].key /\ es3[x].val = es2[x].val
                            /\ es3[x].next = es2[x].next
                            /\ es3[x].prev = IF x = n THEN p ELSE es2[x].prev
    BY <1>h, <1>4, <1>9, LinkPrev
<1>11. /\ Linked(es3, IF i = 1 THEN at(w, 2) ELSE first,
                      IF i = Len(w) THEN p ELSE last, t)
       /\ \A x \in Slots : On(t, x) <=> On(w, x) /\ x # e
       /\ Len(t) = Len(w) - 1
  <2>1. Linked(entries, first, last, w)
      BY DEF Good
  <2>2. \A x \in Slots : x # w[i] =>
              /\ es3[x].next = IF x = at(w, i - 1) THEN at(w, i + 1)
                               ELSE entries[x].next
              /\ es3[x].prev = IF x = at(w, i + 1) THEN at(w, i - 1)
                               ELSE entries[x].prev
      BY <1>8, <1>9, <1>10 DEF p, n
  <2>. QED
      BY <1>10, <2>1, <2>2, UnlinkKeepsLinks DEF e, t, p
<1>12. t \in Seq(Slots) /\ ~On(t, e)
    BY <1>h, <1>11 DEF Linked
<1>13. PICK z : z = <<e>> \o t
    OBVIOUS
<1>14. /\ Linked(entries', first', last', z)
       /\ \A x \in Slots : On(z, x) <=> On(t, x) \/ x = e
       /\ Len(z) = Len(w)
       /\ \A x \in Slots : /\ entries'[x].key = entries[x].key
                            /\ entries'[x].val = (IF x = e THEN v
                                                  ELSE entries[x].val)
  <2>1. CASE i = 1
    <3>1. z = w
        BY <1>g, <1>1, <1>13, <2>1, FirstAndRest DEF e, t
    <3>2. entries' = es1 /\ first' = first /\ last' = last
        BY <1>1, <1>6, <1>7, <2>1
    <3>3. Linked(es1, first, last, w)
      <4>1. Linked(entries, first, last, w)
          BY DEF Good
      <4>. QED
          BY <1>g, <1>8, <4>1 DEF Linked
    <3>4. \A x \in Slots : On(w, x) <=> On(t, x) \/ x = e
        BY <1>11 DEF On, e
    <3>. QED
        BY <1>8, <3>1, <3>2, <3>3, <3>4
  <2>2. CASE i # 1
    <3>1. /\ es4 \in [Slots -> Entry]
          /\ \A x \in Slots : /\ es4[x].key = es3[x].key /\ es4[x].val = es3[x].val
                               /\ es4[x].prev = (IF x = e THEN Null ELSE es3[x].prev)
                               /\ es4[x].next = (IF x = e THEN first ELSE es3[x].next)
      <4>1. /\ es3 \in [Slots -> Entry] /\ e \in Slots
            /\ Null \in Ptr /\ first \in Ptr
          BY <1>h, <1>10
      <4>2. PICK f : f = first
          OBVIOUS
      <4>3. PICK o : o = Null
          OBVIOUS
      <4>4. es4 = place(es3, e, o, f) /\ o \in Ptr /\ f \in Ptr
          BY <1>5, <4>1, <4>2, <4>3
      <4>5. /\ es4 \in [Slots -> Entry]
            /\ \A x \in Slots :
                  /\ es4[x].key = es3[x].key /\ es4[x].val = es3[x].val
                  /\ es4[x].prev = (IF x = e THEN o ELSE es3[x].prev)
                  /\ es4[x].next = (IF x = e THEN f ELSE es3[x].next)
          BY <4>1, <4>4, WriteLinks
      <4>. QED
          BY <4>2, <4>3, <4>5
    <3>2. entries' = link_prev(es4, first, e)
        BY <1>6, <2>2
    <3>3. /\ entries' \in [Slots -> Entry]
          /\ \A x \in Slots : /\ entries'[x].key = es4[x].key
                               /\ entries'[x].val = es4[x].val
                               /\ entries'[x].next = es4[x].next
                               /\ entries'[x].prev = IF x = first THEN e
                                                     ELSE es4[x].prev
        BY <1>h, <3>1, <3>2, LinkPrev
    <3>4. first # e
        BY <1>1, <2>2
    <3>5. entries'[e].next = first /\ entries'[e].prev = Null
        BY <1>h, <3>1, <3>3, <3>4
    <3>6. \A x \in Slots : x # e =>
              /\ entries'[x].next = es3[x].next
              /\ entries'[x].prev = IF x = first THEN e ELSE es3[x].prev
        BY <3>1, <3>3
    <3>7. PICK l : l = IF i = Len(w) THEN p ELSE last
        OBVIOUS
    <3>8. Linked(es3, first, l, t)
        BY <1>11, <2>2, <3>7
    <3>9. /\ Linked(entries', e, IF Len(t) = 0 THEN e ELSE l, z)
          /\ \A x \in Slots : On(z, x) <=> On(t, x) \/ x = e
          /\ Len(z) = Len(t) + 1
        BY <1>h, <1>12, <1>13, <3>3, <3>5, <3>6, <3>8, PushKeepsLinks
    <3>10. Len(t) # 0 /\ Len(t) + 1 = Len(w)
        BY <1>g, <1>11, <2>2
    <3>11. first' = e /\ last' = l
        BY <1>7, <2>2, <3>7
    <3>12. \A x \in Slots : /\ entries'[x].key = entries[x].key
                             /\ entries'[x].val = (IF x = e THEN v
                                                   ELSE entries[x].val)
        BY <1>8, <1>9, <1>10, <3>1, <3>3
    <3>. QED
        BY <3>9, <3>10, <3>11, <3>12
  <2>. QED
      BY <2>1, <2>2
<1>15. /\ Keyed(entries, t) /\ lst(entries, t) = RemoveAt(lst(entries, w), i)
       /\ \A j \in 1..Len(t) : entries[t[j]].key # k
  <2>1. Keyed(entries, w)
      BY DEF Good
  <2>. QED
      BY <1>g, <2>1, UnlinkKeepsKeys DEF t
<1>16. entries'[e].key = k /\ entries'[e].val = v
    BY <1>h, <1>14 DEF e
<1>17. /\ Keyed(entries', z)
       /\ lst(entries', z) = <<[key |-> k, val |-> v]>> \o lst(entries, t)
  <2>1. \A x \in Slots : x # e => /\ entries'[x].key = entries[x].key
                                  /\ entries'[x].val = entries[x].val
      BY <1>14
  <2>2. /\ entries'[e].key \in Keys /\ entries'[e].val \in Vals
        /\ \A j \in 1..Len(t) : entries[t[j]].key # entries'[e].key
      BY <1>15, <1>16
  <2>3. /\ Keyed(entries', <<e>> \o t)
        /\ lst(entries', <<e>> \o t) =
              <<[key |-> entries'[e].key, val |-> entries'[e].val]>>
                  \o lst(entries, t)
    <3>1. Keyed(entries, t) /\ e \in Slots
        BY <1>h, <1>15
    <3>. QED
        BY <1>12, <2>1, <2>2, <3>1, PushKeepsKeys
  <2>. QED
      BY <1>13, <1>16, <2>3
<1>18. ByAge(entries', z, recent')
  <2>1. ByAge(entries, w, recent)
      BY DEF Good
  <2>2. PICK r : r = RemoveFirst(recent, k)
      OBVIOUS
  <2>3. ByAge(entries, t, r) /\ \A j \in 1..Len(r) : r[j] # k
      BY <1>g, <2>1, <2>2, ForgetMember DEF t
  <2>4. \A x \in Slots : x # e => entries'[x].key = entries[x].key
      BY <1>14
  <2>5. ByAge(entries', <<e>> \o t, <<k>> \o r)
      BY <1>h, <1>12, <1>16, <2>3, <2>4, RememberNewest
  <2>. QED
      BY <1>7, <1>13, <2>2, <2>5
<1>19. Complete(entries', z)
    BY <1>11, <1>14 DEF Good, Complete
<1>20. z \in Seq(Slots)
    BY <1>14 DEF Linked
<1>21. Good(z)'
    BY <1>7, <1>14, <1>17, <1>18, <1>19 DEF Good, Counted
<1>. QED
    BY <1>7, <1>14, <1>15, <1>17, <1>20, <1>21

(* A value replaced where the entry stands. *)
LEMMA SwapKeeps ==
    ASSUME NEW w, Good(w), NEW k \in Keys, NEW v \in Vals, NEW i \in 1..Len(w),
           entries[w[i]].key = k, entries' = overwrite(entries, w[i], v),
           UNCHANGED <<first, last, len, crashed, recent>>
    PROVE  /\ Good(w)'
           /\ lst(entries', w) =
                 ReplaceAt(lst(entries, w), i, [key |-> k, val |-> v])
<1>g. /\ w \in Seq(Slots) /\ entries \in [Slots -> Entry]
      /\ \A a, b \in 1..Len(w) : w[a] = w[b] => a = b
      /\ \A a \in 1..Len(w) : w[a] \in Slots
    BY GoodMeans
<1>1. PICK n : n = overwrite(entries, w[i], v)
    OBVIOUS
<1>2. entries' = n
    BY <1>1
<1>3. v \in Vals \cup {Free} /\ w[i] \in Slots
    BY <1>g
<1>4. /\ n \in [Slots -> Entry]
      /\ \A x \in Slots : /\ n[x].key = entries[x].key
                           /\ n[x].val = (IF x = w[i] THEN v ELSE entries[x].val)
                           /\ n[x].prev = entries[x].prev
                           /\ n[x].next = entries[x].next
    BY <1>g, <1>1, <1>3, WriteValue
<1>5. Linked(n, first, last, w)
  <2>1. Linked(entries, first, last, w)
      BY DEF Good
  <2>. QED
      BY <1>g, <1>4, <2>1 DEF Linked
<1>6. Keyed(n, w)
  <2>1. Keyed(entries, w)
      BY DEF Good
  <2>. QED
      BY <1>g, <1>4, <2>1 DEF Keyed
<1>7. Complete(n, w)
    BY <1>4 DEF Good, Complete
<1>8. ByAge(n, w, recent)
  <2>1. ByAge(entries, w, recent)
      BY DEF Good
  <2>. QED
      BY <1>g, <1>4, <2>1 DEF ByAge
<1>9. Good(w)'
    BY <1>2, <1>5, <1>6, <1>7, <1>8 DEF Good
<1>10. ASSUME NEW j \in 1..Len(w)
       PROVE  [key |-> n[w[j]].key, val |-> n[w[j]].val] =
                 IF j = i THEN [key |-> k, val |-> v]
                 ELSE [key |-> entries[w[j]].key, val |-> entries[w[j]].val]
    BY <1>g, <1>4
<1>11. lst(n, w) = [lst(entries, w) EXCEPT ![i] = [key |-> k, val |-> v]]
    BY <1>10 DEF lst
<1>12. lst(n, w) = ReplaceAt(lst(entries, w), i, [key |-> k, val |-> v])
    BY <1>11 DEF ReplaceAt
<1>. QED
    BY <1>2, <1>9, <1>12

(* The steps that leave the list as it is. *)
LEMMA SameKeeps ==
    ASSUME NEW w, Good(w), entries' = entries, crashed' \in BOOLEAN,
           UNCHANGED <<first, last, len, recent>>
    PROVE  Good(w)'
BY DEF Good

LEMMA MissKeeps ==
    ASSUME NEW w, Good(w), NEW k \in Keys,
           \A i \in 1..Len(w) : entries[w[i]].key # k, cache_del_miss(k)
    PROVE  Good(w)' /\ entries' = entries /\ len' = len
<1>1. w \in Seq(Slots)
    BY GoodMeans
<1>2. ByAge(entries, w, RemoveFirst(recent, k))
    BY <1>1, ForgetStranger DEF Good
<1>. QED
    BY <1>2 DEF Good, cache_del_miss

LEMMA NewEntryFailsKeeps ==
    ASSUME NEW w, Good(w), len # CHAINLEN, new_entry_fails
    PROVE  Good(w)' /\ lst(entries', w) = lst(entries, w) /\ len' = len
<1>g. /\ w \in Seq(Slots) /\ entries \in [Slots -> Entry] /\ CHAINLEN \in Nat
      /\ Len(w) \in Nat /\ \A a \in 1..Len(w) : w[a] \in Slots
    BY GoodMeans
<1>0. /\ first' = first /\ last' = last /\ len' = len /\ recent' = recent
      /\ crashed' \in BOOLEAN
    BY DEF new_entry_fails, Good
<1>1. CASE entries' = entries
    BY <1>0, <1>1, SameKeeps
<1>2. CASE entries' # entries
  <2>1. Len(w) < CHAINLEN
      BY <1>g DEF Good, Counted
  <2>2. alloc_entry \in Slots /\ entries[alloc_entry].key = Free /\ ~On(w, alloc_entry)
      BY <2>1, AllocMeans
  <2>3. PICK n : n = fill(entries, alloc_entry, Free, Free)
      OBVIOUS
  <2>4. entries' = n
      BY <1>2, <2>3 DEF new_entry_fails, fill
  <2>5. /\ n \in [Slots -> Entry]
        /\ \A x \in Slots :
              /\ n[x].key = (IF x = alloc_entry THEN Free ELSE entries[x].key)
              /\ n[x].val = (IF x = alloc_entry THEN Free ELSE entries[x].val)
              /\ n[x].prev = entries[x].prev /\ n[x].next = entries[x].next
      BY <1>g, <2>2, <2>3, Release
  <2>6. \A j \in 1..Len(w) : /\ n[w[j]].key = entries[w[j]].key
                             /\ n[w[j]].val = entries[w[j]].val
                             /\ n[w[j]].prev = entries[w[j]].prev
                             /\ n[w[j]].next = entries[w[j]].next
    <3> TAKE j \in 1..Len(w)
    <3>1. w[j] \in Slots /\ w[j] # alloc_entry
        BY <1>g, <2>2 DEF On
    <3>. QED
        BY <2>5, <3>1
  <2>7. Linked(n, first, last, w)
    <3>1. Linked(entries, first, last, w)
        BY DEF Good
    <3>. QED
        BY <2>5, <2>6, <3>1 DEF Linked
  <2>8. Keyed(n, w) /\ ByAge(n, w, recent)
    <3>1. Keyed(entries, w) /\ ByAge(entries, w, recent)
        BY DEF Good
    <3>. QED
        BY <2>6, <3>1 DEF Keyed, ByAge
  <2>9. Complete(n, w)
    <3>1. \A s \in Slots : n[s].key # Free => entries[s].key # Free
        BY <2>2, <2>5
    <3>. QED
        BY <3>1 DEF Good, Complete
  <2>10. Good(w)'
      BY <1>0, <2>4, <2>7, <2>8, <2>9 DEF Good
  <2>11. lst(n, w) = lst(entries, w)
      BY <2>6 DEF lst
  <2>. QED
      BY <1>0, <2>4, <2>10, <2>11
<1>. QED
    BY <1>1, <1>2

-----------------------------------------------------------------------------
(* The sequence of the refinement mapping is what the path holds. *)
ListIsThePaths == \A w : Good(w) => walk = w /\ list = lst(entries, w)

LEMMA ListIsPath == ListIsThePaths
<1> SUFFICES ASSUME NEW w, Good(w)
             PROVE  walk = w /\ list = lst(entries, w)
    BY DEF ListIsThePaths
<1>1. walk = w
    BY WalkIsPath
<1>2. DOMAIN w = 1..Len(w)
    BY GoodMeans
<1>. QED
    BY <1>1, <1>2 DEF list, lst

LEMMA ListIsPathNext == ListIsThePaths'
BY ListIsPath, PTL

(* Looking a key up in the list and in the sequence. *)
LEMMA LookUp ==
    ASSUME NEW w, Good(w), NEW k
    PROVE  LET c == lst(entries, w)
           IN  /\ c \in Seq(Pair) /\ Len(c) = Len(w)
               /\ \/ /\ find(k) = Null /\ ~in_chain(c, k)
                     /\ \A i \in 1..Len(w) : entries[w[i]].key # k
                  \/ \E i \in 1..Len(w) :
                        /\ find(k) = w[i] /\ find(k) # Null
                        /\ entries[w[i]].key = k /\ in_chain(c, k)
                        /\ find_in_chain(c, k) = i
                        /\ c[i].val = entries[w[i]].val
<1>0. PICK c : c = lst(entries, w)
    OBVIOUS
<1>1. w \in Seq(Slots)
    BY GoodMeans
<1>2. Keyed(entries, w)
    BY DEF Good
<1>3. /\ c \in Seq(Pair) /\ Len(c) = Len(w)
      /\ \A i \in 1..Len(w) : c[i].key = entries[w[i]].key /\ c[i].val = entries[w[i]].val
  <2>1. /\ c \in Seq(Pair) /\ Len(c) = Len(w)
        /\ \A i \in 1..Len(w) : c[i] = [key |-> entries[w[i]].key,
                                         val |-> entries[w[i]].val]
      BY <1>0, <1>1, <1>2, ListElements
  <2>2. ASSUME NEW i \in 1..Len(w)
        PROVE  c[i].key = entries[w[i]].key /\ c[i].val = entries[w[i]].val
    <3>1. c[i] = [key |-> entries[w[i]].key, val |-> entries[w[i]].val]
        BY <2>1
    <3>. QED
        BY <3>1
  <2>. QED
      BY <2>1, <2>2
<1>4. DOMAIN c = 1..Len(w)
    BY <1>3
<1>5. CASE find(k) = Null /\ \A i \in 1..Len(w) : entries[w[i]].key # k
  <2>1. ~in_chain(c, k)
      BY <1>3, <1>4, <1>5 DEF in_chain
  <2>. QED
      BY <1>0, <1>3, <1>5, <2>1
<1>6. ASSUME NEW i \in 1..Len(w), find(k) = w[i], find(k) # Null,
             entries[w[i]].key = k
      PROVE  in_chain(c, k) /\ find_in_chain(c, k) = i
  <2>1. in_chain(c, k)
      BY <1>3, <1>4, <1>6 DEF in_chain
  <2>2. find_in_chain(c, k) \in 1..Len(c) /\ c[find_in_chain(c, k)].key = k
      BY <1>3, <2>1, FindInChain
  <2>. QED
      BY <1>2, <1>3, <1>6, <2>1, <2>2 DEF Keyed
<1>. QED
    BY <1>0, <1>3, <1>5, <1>6, FindMeans

LEMMA FrontIsRemoveAt ==
    ASSUME NEW S, NEW c \in Seq(S), Len(c) # 0
    PROVE  Front(c) = RemoveAt(c, Len(c))
<1>1. Len(c) \in 1..Len(c) /\ Len(c) \in Nat
    OBVIOUS
<1>2. PICK f : f = Front(c)
    OBVIOUS
<1>3. PICK r : r = RemoveAt(c, Len(c))
    OBVIOUS
<1>4. /\ f \in Seq(S) /\ Len(f) = Len(c) - 1
      /\ \A j \in 1..(Len(c) - 1) : f[j] = c[j]
    BY <1>2, FrontElements
<1>5. /\ r \in Seq(S) /\ Len(r) = Len(c) - 1
      /\ \A j \in 1..(Len(c) - 1) : r[j] = IF j < Len(c) THEN c[j] ELSE c[j + 1]
    BY <1>1, <1>3, RemoveAtElements
<1>6. \A j \in 1..Len(f) : f[j] = r[j]
    BY <1>1, <1>4, <1>5
<1>7. f = r
    BY <1>4, <1>5, <1>6, SameElements
<1>. QED
    BY <1>2, <1>3, <1>7

(* What the sequence, and the slots still in use, are to ChainList. *)
LEMMA MapMeans ==
    ASSUME NEW w, Good(w), NEW z, Good(z)'
    PROVE  /\ list = lst(entries, w) /\ list' = lst(entries', z)
           /\ Len(list) = Len(w) /\ Len(list') = Len(z)
           /\ len \in Nat /\ len <= CHAINLEN /\ Len(w) \in Nat /\ CHAINLEN \in Nat
           /\ Len(w) <= len /\ len - Len(w) < CHAINLEN
<1>1. list = lst(entries, w)
    BY ListIsPath DEF ListIsThePaths
<1>2. list' = lst(entries', z)
    BY ListIsPathNext DEF ListIsThePaths
<1>3. Len(lst(entries, w)) = Len(w)
  <2>1. w \in Seq(Slots) /\ Keyed(entries, w)
      BY DEF Good, Linked
  <2>. QED
      BY <2>1, ListElements
<1>4. Len(lst(entries', z)) = Len(z)
  <2>1. z \in Seq(Slots) /\ Keyed(entries', z)
      BY DEF Good, Linked
  <2>. QED
      BY <2>1, ListElements
<1>5. /\ len \in Nat /\ len <= CHAINLEN /\ Len(w) \in Nat /\ CHAINLEN \in Nat
      /\ Len(w) <= len /\ len - Len(w) < CHAINLEN
    BY ChainLenAssumption DEF Good, Linked, Counted
<1>. QED
    BY <1>1, <1>2, <1>3, <1>4, <1>5

-----------------------------------------------------------------------------
(* What a step does to the sequence ChainList knows. *)
(* ChainList's copies of the operators of Chain are those operators. *)
LEMMA SameOperators ==
    ASSUME NEW c, NEW k, NEW v, NEW n
    PROVE  /\ L!in_chain(c, k) <=> in_chain(c, k)
           /\ L!find_in_chain(c, k) = find_in_chain(c, k)
           /\ L!chain_set(c, n, k, v) = chain_set(c, n, k, v)
           /\ L!chain_del(c, k) = chain_del(c, k)
           /\ L!chain_update(c, k, v) = chain_update(c, k, v)
           /\ L!Front(c) = Front(c)
<1>1. L!in_chain(c, k) = in_chain(c, k)
    BY DEF L!in_chain, in_chain
<1>2. L!find_in_chain(c, k) = find_in_chain(c, k)
    BY DEF L!find_in_chain, find_in_chain
<1>3. L!chain_set(c, n, k, v) = chain_set(c, n, k, v)
    BY <1>1, <1>2 DEF L!chain_set, chain_set, L!RemoveAt, RemoveAt, L!Front, Front
<1>4. L!chain_del(c, k) = chain_del(c, k)
    BY <1>1, <1>2 DEF L!chain_del, chain_del, L!RemoveAt, RemoveAt
<1>5. L!chain_update(c, k, v) = chain_update(c, k, v)
    BY <1>2 DEF L!chain_update, chain_update, L!ReplaceAt, ReplaceAt
<1>6. L!Front(c) = Front(c)
    BY DEF L!Front, Front
<1>. QED
    BY <1>1, <1>2, <1>3, <1>4, <1>5, <1>6

LEMMA GetSteps ==
    ASSUME NEW w, Good(w), NEW k \in Keys, cache_get(k)
    PROVE  Good(w)' /\ L!Get(k)
<1>1. Good(w)'
    BY SameKeeps DEF cache_get, Good
<1>2. /\ list = lst(entries, w) /\ list' = lst(entries', w)
    BY <1>1, MapMeans
<1>3. list' = list /\ len' = len /\ crashed' = crashed
    BY <1>2 DEF cache_get
<1>4. out' = L!found(k)
  <2>1. CASE find(k) = Null /\ ~in_chain(list, k)
      BY <2>1, SameOperators DEF cache_get, L!found, NotIn, L!NotIn
  <2>2. ASSUME NEW i \in 1..Len(w), find(k) = w[i], find(k) # Null,
               in_chain(list, k), find_in_chain(list, k) = i,
               list[i].val = entries[w[i]].val
        PROVE  out' = L!found(k)
      BY <2>2, SameOperators DEF cache_get, L!found
  <2>. QED
      BY <1>2, <2>1, <2>2, LookUp
<1>. QED
    BY <1>1, <1>3, <1>4 DEF L!Get

LEMMA DelMissSteps ==
    ASSUME NEW w, Good(w), NEW k \in Keys, cache_del_miss(k)
    PROVE  Good(w)' /\ L!Del(k)
<1>1. find(k) = Null
    BY DEF cache_del_miss
<1>2. /\ ~in_chain(lst(entries, w), k)
      /\ \A i \in 1..Len(w) : entries[w[i]].key # k
    BY <1>1, LookUp
<1>3. Good(w)' /\ entries' = entries /\ len' = len
    BY <1>2, MissKeeps
<1>4. list = lst(entries, w) /\ list' = lst(entries', w)
    BY <1>3, MapMeans
<1>5. list' = list /\ ~in_chain(list, k) /\ crashed' = crashed /\ out' = NotIn
    BY <1>2, <1>3, <1>4 DEF cache_del_miss
<1>6. list' = chain_del(list, k)
    BY <1>5 DEF chain_del
<1>. QED
    BY <1>3, <1>5, <1>6, SameOperators DEF L!Del, NotIn, L!NotIn

LEMMA DelHitSteps ==
    ASSUME NEW w, Good(w), NEW k \in Keys, cache_del_hit(k)
    PROVE  (\E z \in Seq(Slots) : Good(z)') /\ L!Del(k)
<1>1. find(k) # Null
    BY DEF cache_del_hit
<1>2. PICK i \in 1..Len(w) :
         /\ find(k) = w[i] /\ entries[w[i]].key = k
         /\ in_chain(lst(entries, w), k) /\ find_in_chain(lst(entries, w), k) = i
    BY <1>1, LookUp
<1>3. PICK z \in Seq(Slots) :
         /\ Good(z)' /\ Len(z) = Len(w) - 1 /\ len' = len - 1
         /\ lst(entries', z) = RemoveAt(lst(entries, w), i)
    BY <1>2, DeleteKeeps
<1>4. /\ list = lst(entries, w) /\ list' = lst(entries', z)
      /\ Len(list) = Len(w) /\ Len(list') = Len(z)
      /\ len \in Nat /\ Len(w) \in Nat /\ CHAINLEN \in Nat
    BY <1>3, MapMeans
<1>5. list' = chain_del(list, k) /\ in_chain(list, k)
    BY <1>2, <1>3, <1>4 DEF chain_del
<1>6. CHAINLEN - (len' - Len(list')) = CHAINLEN - (len - Len(list))
    BY <1>3, <1>4
<1>7. crashed' = crashed /\ out' = "ok"
    BY DEF cache_del_hit
<1>. QED
    BY <1>3, <1>5, <1>6, <1>7, SameOperators DEF L!Del

(* When ChainList takes the bucket to be full, and to be unusable. *)
LEMMA FullMeans ==
    ASSUME NEW w, Good(w)
    PROVE  /\ L!full <=> len = CHAINLEN
           /\ L!unusable <=> /\ Len(w) < len
                             /\ Len(w) = 0 \/ (len = CHAINLEN /\ Len(w) = 1)
<1>1. list = lst(entries, w)
    BY ListIsPath DEF ListIsThePaths
<1>2. list \in Seq(Pair) /\ Len(list) = Len(w)
    BY <1>1, LookUp
<1>3. list = <<>> <=> Len(w) = 0
    BY <1>2
<1>4. /\ len \in Nat /\ len <= CHAINLEN /\ Len(w) \in Nat /\ CHAINLEN \in Nat
      /\ Len(w) <= len
    BY ChainLenAssumption DEF Good, Linked, Counted
<1>5. L!full <=> len = CHAINLEN
    BY <1>2, <1>4 DEF L!full
<1>6. CHAINLEN - (len - Len(list)) < CHAINLEN <=> Len(w) < len
    BY <1>2, <1>4
<1>7. ASSUME len = CHAINLEN
      PROVE  CHAINLEN - (len - Len(list)) = 1 <=> Len(w) = 1
    BY <1>2, <1>4, <1>7
<1>. QED
    BY <1>3, <1>5, <1>6, <1>7 DEF L!unusable, L!chain_unusable, L!full

LEMMA InsertFullSteps ==
    ASSUME NEW w, Good(w), NEW k \in Keys, NEW v \in Vals,
           find(k) = Null, len = CHAINLEN, insert_in_full_chain(k, v)
    PROVE  (\E z \in Seq(Slots) : Good(z)') /\ L!Set(k, v)
<1>1. /\ ~in_chain(lst(entries, w), k)
      /\ \A i \in 1..Len(w) : entries[w[i]].key # k
      /\ lst(entries, w) \in Seq(Pair) /\ Len(lst(entries, w)) = Len(w)
    BY LookUp
<1>2. PICK z \in Seq(Slots) :
         /\ Good(z)' /\ Len(z) = Len(w) /\ Len(w) > 1 /\ len' = len
         /\ lst(entries', z) = <<[key |-> k, val |-> v]>>
                                  \o RemoveAt(lst(entries, w), Len(w))
    BY <1>1, InsertFullKeeps
<1>3. /\ list = lst(entries, w) /\ list' = lst(entries', z)
      /\ Len(list) = Len(w) /\ Len(list') = Len(z)
      /\ len \in Nat /\ Len(w) \in Nat /\ CHAINLEN \in Nat /\ Len(w) <= CHAINLEN
    BY <1>2, MapMeans
<1>4. L!full /\ ~L!unusable
  <2>0. Len(w) > 1
      BY <1>2, Zenon
  <2>1. \A n \in Nat : n > 1 => n # 0 /\ n # 1
      OBVIOUS
  <2>2. Len(w) # 0 /\ Len(w) # 1
      BY <1>3, <2>0, <2>1, Zenon
  <2>. QED
      BY <2>2, FullMeans
<1>5. PICK f : f = Front(list)
    OBVIOUS
<1>6. /\ f \in Seq(Pair) /\ Len(f) = Len(list) - 1
      /\ \A j \in 1..(Len(list) - 1) : f[j] = list[j]
      /\ f = RemoveAt(list, Len(list))
  <2>1. list \in Seq(Pair) /\ Len(list) # 0
      BY <1>1, <1>2, <1>3
  <2>. QED
      BY <1>5, <2>1, FrontElements, FrontIsRemoveAt
<1>7. ~in_chain(list, k)
    BY <1>1, <1>3
<1>8. Len(list) = CHAINLEN - (len - Len(list))
    BY <1>4 DEF L!full
<1>9. list' = chain_set(list, CHAINLEN - (len - Len(list)), k, v)
    BY <1>2, <1>3, <1>5, <1>6, <1>7, <1>8 DEF chain_set
<1>10. CHAINLEN - (len' - Len(list')) = CHAINLEN - (len - Len(list))
    BY <1>2, <1>3
<1>11. crashed' = crashed /\ out' = "ok"
    BY DEF insert_in_full_chain
<1>. QED
    BY <1>2, <1>4, <1>9, <1>10, <1>11, SameOperators DEF L!Set

LEMMA InsertFullFailsSteps ==
    ASSUME NEW w, Good(w), NEW k \in Keys, NEW v \in Vals,
           find(k) = Null, len = CHAINLEN, insert_in_full_chain_fails(k, v)
    PROVE  (\E z \in Seq(Slots) : Good(z)') /\ L!SetFails(k)
<1>1. /\ ~in_chain(lst(entries, w), k)
      /\ lst(entries, w) \in Seq(Pair) /\ Len(lst(entries, w)) = Len(w)
    BY LookUp
<1>2. PICK z \in Seq(Slots) :
         /\ Good(z)' /\ Len(z) = Len(w) - 1 /\ Len(z) # 0 /\ len' = len
         /\ lst(entries', z) = RemoveAt(lst(entries, w), Len(w))
    BY InsertFullFailsKeeps
<1>3. /\ list = lst(entries, w) /\ list' = lst(entries', z)
      /\ Len(list) = Len(w) /\ Len(list') = Len(z)
      /\ len \in Nat /\ Len(w) \in Nat /\ CHAINLEN \in Nat
    BY <1>2, MapMeans
<1>4. Len(w) # 0 /\ Len(w) # 1
    BY <1>2, <1>3
<1>5. L!full /\ ~L!unusable
    BY <1>4, FullMeans
<1>6. list' = Front(list)
  <2>1. list \in Seq(Pair) /\ Len(list) # 0
      BY <1>1, <1>3, <1>4
  <2>2. Front(list) = RemoveAt(list, Len(list))
      BY <2>1, FrontIsRemoveAt
  <2>. QED
      BY <1>2, <1>3, <2>2
<1>7. CHAINLEN - (len' - Len(list')) = CHAINLEN - (len - Len(list)) - 1
    BY <1>2, <1>3
<1>8. crashed' = crashed /\ out' = "error" /\ MemFaults
    BY DEF insert_in_full_chain_fails
<1>9. ~L!in_chain(list, k) /\ L!Front(list) = Front(list)
    BY <1>1, <1>3, SameOperators
<1>. QED
    BY <1>2, <1>5, <1>6, <1>7, <1>8, <1>9 DEF L!SetFails

LEMMA InsertFreeSteps ==
    ASSUME NEW w, Good(w), NEW k \in Keys, NEW v \in Vals,
           find(k) = Null, len # CHAINLEN, insert_in_free_slot(k, v)
    PROVE  (\E z \in Seq(Slots) : Good(z)') /\ L!Set(k, v)
<1>1. /\ ~in_chain(lst(entries, w), k)
      /\ \A i \in 1..Len(w) : entries[w[i]].key # k
    BY LookUp
<1>2. PICK z \in Seq(Slots) :
         /\ Good(z)' /\ Len(z) = Len(w) + 1 /\ len' = len + 1
         /\ lst(entries', z) = <<[key |-> k, val |-> v]>> \o lst(entries, w)
    BY <1>1, InsertFreeKeeps
<1>3. /\ list = lst(entries, w) /\ list' = lst(entries', z)
      /\ Len(list) = Len(w) /\ Len(list') = Len(z)
      /\ len \in Nat /\ len <= CHAINLEN /\ Len(w) \in Nat /\ CHAINLEN \in Nat
      /\ Len(w) <= len
    BY <1>2, MapMeans
<1>4. ~L!full /\ ~L!unusable
  <2>1. Len(w) = 0 => len = 0
    <3>1. len = 0 \/ first # Null
        BY DEF insert_in_free_slot
    <3>2. first = at(w, 1)
        BY DEF Good, Linked
    <3>. QED
        BY <3>1, <3>2 DEF at
  <2>2. ~(Len(w) < len /\ Len(w) = 0)
      BY <1>3, <2>1
  <2>. QED
      BY <2>2, FullMeans
<1>5. ~in_chain(list, k) /\ Len(list) # CHAINLEN - (len - Len(list))
    BY <1>1, <1>3, <1>4 DEF L!full
<1>6. list' = chain_set(list, CHAINLEN - (len - Len(list)), k, v)
    BY <1>2, <1>3, <1>5 DEF chain_set
<1>7. CHAINLEN - (len' - Len(list')) = CHAINLEN - (len - Len(list))
    BY <1>2, <1>3
<1>8. crashed' = crashed /\ out' = "ok"
    BY DEF insert_in_free_slot
<1>. QED
    BY <1>2, <1>4, <1>6, <1>7, <1>8, SameOperators DEF L!Set

LEMMA NewEntryFailsSteps ==
    ASSUME NEW w, Good(w), NEW k \in Keys,
           find(k) = Null, len # CHAINLEN, new_entry_fails
    PROVE  (\E z \in Seq(Slots) : Good(z)') /\ (L!SetFails(k) \/ L!SetKills(k))
<1>1. ~in_chain(lst(entries, w), k) /\ w \in Seq(Slots)
    BY LookUp, GoodMeans
<1>2. Good(w)' /\ lst(entries', w) = lst(entries, w) /\ len' = len
    BY NewEntryFailsKeeps
<1>3. list = lst(entries, w) /\ list' = lst(entries', w)
    BY <1>2, MapMeans
<1>4. ~L!full
    BY FullMeans
<1>5. list' = list /\ len' = len /\ ~L!in_chain(list, k)
    BY <1>1, <1>2, <1>3, SameOperators
<1>6. MemFaults /\ out' = "error" /\ (crashed' = crashed \/ crashed' = TRUE)
    BY DEF new_entry_fails
<1>7. CASE crashed' = crashed
    BY <1>1, <1>2, <1>4, <1>5, <1>6, <1>7 DEF L!SetFails
<1>8. CASE crashed' = TRUE
    BY <1>1, <1>2, <1>4, <1>5, <1>6, <1>8 DEF L!SetKills
<1>. QED
    BY <1>6, <1>7, <1>8

LEMMA NullDereferenceSteps ==
    ASSUME NEW w, Good(w), NEW k \in Keys, find(k) = Null, null_dereference
    PROVE  (\E z \in Seq(Slots) : Good(z)') /\ L!SetKills(k)
<1>1. ~in_chain(lst(entries, w), k) /\ w \in Seq(Slots)
    BY LookUp, GoodMeans
<1>2. Good(w)'
    BY SameKeeps DEF null_dereference
<1>3. /\ list = lst(entries, w) /\ list' = lst(entries', w)
      /\ len \in Nat /\ len <= CHAINLEN /\ Len(w) \in Nat /\ CHAINLEN \in Nat
      /\ Len(w) <= len /\ len - Len(w) < CHAINLEN
    BY <1>2, MapMeans
<1>4. /\ list' = list /\ len' = len /\ ~L!in_chain(list, k)
      /\ crashed' = TRUE /\ out' = out
    BY <1>1, <1>3, SameOperators DEF null_dereference
<1>5. L!unusable
  <2>g. /\ first = at(w, 1) /\ last = at(w, Len(w)) /\ Null \notin Slots
        /\ \A i \in 1..Len(w) : /\ w[i] \in Slots
                                /\ entries[w[i]].prev = at(w, i - 1)
      BY GoodMeans
  <2>1. CASE len = CHAINLEN /\ entries[last].prev = Null
    <3>1. Len(w) \in 1..Len(w)
        BY <1>3, <2>1
    <3>2. at(w, Len(w) - 1) = Null
        BY <2>g, <2>1, <3>1 DEF at
    <3>3. Len(w) = 1
      <4>0. Len(w) \in Nat /\ Len(w) >= 1 /\ w \in Seq(Slots)
          BY <1>1, <1>3, <3>1
      <4>1. PICK n \in Nat : n = Len(w)
          BY <4>0
      <4>2. n # 1 => n - 1 \in 1..n
          BY <4>0, <4>1
      <4>3. n - 1 \in 1..n => w[n - 1] # Null
          BY <2>g, <4>1
      <4>4. n - 1 \in 1..n => at(w, n - 1) = w[n - 1]
          BY <4>1 DEF at
      <4>. QED
          BY <3>2, <4>1, <4>2, <4>3, <4>4
    <3>4. Len(w) < len
        BY <2>1, <3>3, ChainLenAssumption
    <3>. QED
        BY <2>1, <3>3, <3>4, FullMeans
  <2>2. CASE len \notin {0, CHAINLEN} /\ first = Null
    <3>1. Len(w) = 0
      <4>1. 1 \in 1..Len(w) => w[1] # Null
          BY <2>g
      <4>. QED
          BY <1>3, <2>g, <2>2, <4>1 DEF at
    <3>2. Len(w) < len
        BY <1>3, <2>2, <3>1
    <3>. QED
        BY <3>1, <3>2, FullMeans
  <2>. QED
      BY <2>1, <2>2 DEF null_dereference
<1>. QED
    BY <1>1, <1>2, <1>4, <1>5 DEF L!SetKills

LEMMA PromoteSteps ==
    ASSUME NEW w, Good(w), NEW k \in Keys, NEW v \in Vals,
           find(k) # Null, replace_and_promote(find(k), k, v)
    PROVE  (\E z \in Seq(Slots) : Good(z)') /\ L!Set(k, v)
<1>1. PICK i \in 1..Len(w) :
         /\ find(k) = w[i] /\ entries[w[i]].key = k
         /\ in_chain(lst(entries, w), k) /\ find_in_chain(lst(entries, w), k) = i
    BY LookUp
<1>2. PICK z \in Seq(Slots) :
         /\ Good(z)' /\ Len(z) = Len(w) /\ len' = len
         /\ lst(entries', z) = <<[key |-> k, val |-> v]>>
                                  \o RemoveAt(lst(entries, w), i)
    BY <1>1, PromoteKeeps
<1>3. /\ list = lst(entries, w) /\ list' = lst(entries', z)
      /\ Len(list) = Len(w) /\ Len(list') = Len(z)
    BY <1>2, MapMeans
<1>4. in_chain(list, k) /\ find_in_chain(list, k) = i
    BY <1>1, <1>3
<1>5. list' = chain_set(list, CHAINLEN - (len - Len(list)), k, v)
    BY <1>2, <1>3, <1>4 DEF chain_set
<1>6. CHAINLEN - (len' - Len(list')) = CHAINLEN - (len - Len(list))
    BY <1>2, <1>3
<1>7. crashed' = crashed /\ out' = "ok"
    BY DEF replace_and_promote
<1>. QED
    BY <1>2, <1>4, <1>5, <1>6, <1>7, SameOperators DEF L!Set

LEMMA ReplaceFailsSteps ==
    ASSUME NEW w, Good(w), NEW k \in Keys, NEW v \in Vals,
           find(k) # Null, replace_fails(find(k), v)
    PROVE  (\E z \in Seq(Slots) : Good(z)') /\ L!SetFails(k)
<1>1. in_chain(lst(entries, w), k) /\ w \in Seq(Slots)
    BY LookUp, GoodMeans
<1>2. Good(w)'
    BY SameKeeps DEF replace_fails, Good
<1>3. list = lst(entries, w) /\ list' = lst(entries', w)
    BY <1>2, MapMeans
<1>4. /\ list' = list /\ len' = len /\ L!in_chain(list, k)
      /\ crashed' = crashed /\ out' = "error" /\ MemFaults
    BY <1>1, <1>3, SameOperators DEF replace_fails
<1>. QED
    BY <1>1, <1>2, <1>4 DEF L!SetFails

LEMMA CasSteps ==
    ASSUME NEW w, Good(w), NEW k \in Keys, NEW old \in Vals, NEW new \in Vals,
           cache_cas(k, old, new)
    PROVE  (\E z \in Seq(Slots) : Good(z)') /\ L!Swap(k, old, new)
<1>0. /\ first' = first /\ last' = last /\ len' = len
      /\ crashed' = crashed /\ recent' = recent /\ crashed' \in BOOLEAN
    BY DEF cache_cas, Good
<1>0u. UNCHANGED <<first, last, len, crashed, recent>>
    BY DEF cache_cas
<1>1. w \in Seq(Slots)
    BY GoodMeans
<1>2. list = lst(entries, w) /\ list \in Seq(Pair) /\ Len(list) = Len(w)
    BY LookUp, ListIsPath DEF ListIsThePaths
<1>3. CASE find(k) = Null
  <2>1. /\ ~L!in_chain(list, k) /\ entries' = entries /\ out' = NotIn
      BY <1>2, <1>3, LookUp, SameOperators DEF cache_cas
  <2>2. Good(w)'
      BY <1>0, <2>1, SameKeeps
  <2>3. list' = list
      BY <1>2, <2>1, <2>2, MapMeans
  <2>. QED
      BY <1>0, <1>1, <2>1, <2>2, <2>3 DEF L!Swap, NotIn, L!NotIn
<1>4. CASE find(k) # Null
  <2>1. PICK i \in 1..Len(w) :
           /\ find(k) = w[i] /\ entries[w[i]].key = k
           /\ in_chain(list, k) /\ find_in_chain(list, k) = i
           /\ list[i].val = entries[w[i]].val
      BY <1>2, <1>4, LookUp
  <2>2. L!in_chain(list, k) /\ L!found(k) = entries[w[i]].val
      BY <2>1, SameOperators DEF L!found
  <2>3. CASE entries' = entries
    <3>1. Good(w)'
        BY <1>0, <2>3, SameKeeps
    <3>2. list' = list
        BY <1>2, <2>3, <3>1, MapMeans
    <3>3. \/ entries[w[i]].val # old /\ out' = "no match"
          \/ entries[w[i]].val = old /\ out' = "ok" /\ entries' = [entries EXCEPT ![w[i]].val = new]
          \/ entries[w[i]].val = old /\ MemFaults /\ old # new /\ out' = "error"
        BY <1>4, <2>1 DEF cache_cas
    <3>4. CASE \/ entries[w[i]].val # old /\ out' = "no match"
               \/ entries[w[i]].val = old /\ MemFaults /\ old # new /\ out' = "error"
        BY <1>0, <1>1, <2>2, <3>1, <3>2, <3>4 DEF L!Swap
    <3>5. CASE /\ entries[w[i]].val = old /\ out' = "ok"
               /\ entries' = [entries EXCEPT ![w[i]].val = new]
      <4>1. entries[w[i]].key = k /\ entries' = overwrite(entries, w[i], new)
          BY <2>1, <3>5 DEF overwrite
      <4>2. /\ Good(w)'
            /\ lst(entries', w) =
                  ReplaceAt(lst(entries, w), i, [key |-> k, val |-> new])
          BY <1>0u, <4>1, SwapKeeps
      <4>3. list' = lst(entries', w)
          BY <4>2, MapMeans
      <4>4. list' = chain_update(list, k, new)
          BY <1>2, <2>1, <4>2, <4>3 DEF chain_update
      <4>. QED
          BY <1>0, <1>1, <2>2, <3>2, <3>5, <4>2, <4>4, SameOperators DEF L!Swap
    <3>. QED
        BY <3>3, <3>4, <3>5
  <2>4. CASE entries' # entries
    <3>1. /\ entries[w[i]].val = old /\ out' = "ok"
          /\ entries' = [entries EXCEPT ![w[i]].val = new]
        BY <1>4, <2>1, <2>4 DEF cache_cas
    <3>2. entries[w[i]].key = k /\ entries' = overwrite(entries, w[i], new)
        BY <2>1, <3>1 DEF overwrite
    <3>3. /\ Good(w)'
          /\ lst(entries', w) =
                ReplaceAt(lst(entries, w), i, [key |-> k, val |-> new])
        BY <1>0u, <3>2, SwapKeeps
    <3>4. list' = lst(entries', w) /\ Len(list') = Len(w)
        BY <3>3, MapMeans
    <3>5. list' = chain_update(list, k, new)
        BY <1>2, <2>1, <3>3, <3>4 DEF chain_update
    <3>. QED
        BY <1>0, <1>1, <1>2, <2>2, <3>1, <3>3, <3>4, <3>5, SameOperators DEF L!Swap
  <2>. QED
      BY <2>3, <2>4
<1>. QED
    BY <1>3, <1>4

-----------------------------------------------------------------------------
LEMMA CreateGood ==
    ASSUME cache_create
    PROVE  Good(<<>>) /\ L!Init
<1>1. CHAINLEN \in Nat /\ CHAINLEN > 0
    BY ChainLenAssumption
<1>2. /\ <<>> \in Seq(Slots) /\ Len(<<>>) = 0
      /\ \A i : at(<<>>, i) = Null
    BY DEF at
<1>3. FreeEntry \in Entry
    BY DEF FreeEntry, Entry, Ptr
<1>4. entries \in [Slots -> Entry] /\ \A s \in Slots : entries[s].key = Free
    BY <1>3 DEF cache_create, FreeEntry
<1>5. Linked(entries, first, last, <<>>)
    BY <1>2, <1>4 DEF Linked, cache_create
<1>6. Keyed(entries, <<>>) /\ Complete(entries, <<>>)
    BY <1>2, <1>4 DEF Keyed, Complete
<1>7. Counted(len, <<>>) /\ crashed \in BOOLEAN
  <2>1. len = 0 /\ crashed = FALSE
      BY DEF cache_create
  <2>2. 0 \in 0..CHAINLEN /\ 0 <= 0 /\ 0 - 0 < CHAINLEN
      BY <1>1
  <2>3. Counted(0, <<>>)
      BY <1>2, <2>2 DEF Counted
  <2>. QED
      BY <2>1, <2>3
<1>8. ByAge(entries, <<>>, recent)
    BY <1>2 DEF ByAge, cache_create
<1>9. Good(<<>>)
    BY <1>5, <1>6, <1>7, <1>8 DEF Good
<1>10. list = lst(entries, <<>>)
    BY <1>9, ListIsPath DEF ListIsThePaths
<1>11. list \in Seq(Pair) /\ Len(list) = 0
    BY <1>2, <1>9, <1>10, LookUp
<1>12. list = <<>> /\ CHAINLEN - (len - Len(list)) = CHAINLEN
    BY <1>1, <1>11 DEF cache_create
<1>. QED
    BY <1>9, <1>12 DEF L!Init, cache_create, NotIn, L!NotIn

LEMMA SetSteps ==
    ASSUME NEW w, Good(w), NEW k \in Keys, NEW v \in Vals, cache_set(k, v)
    PROVE  /\ \E z \in Seq(Slots) : Good(z)'
           /\ L!Set(k, v) \/ L!SetFails(k) \/ L!SetKills(k)
<1>1. CASE find(k) = Null /\ len = CHAINLEN /\ insert_in_full_chain(k, v)
    BY <1>1, InsertFullSteps
<1>2. CASE find(k) = Null /\ len = CHAINLEN /\ insert_in_full_chain_fails(k, v)
    BY <1>2, InsertFullFailsSteps
<1>3. CASE find(k) = Null /\ null_dereference
    BY <1>3, NullDereferenceSteps
<1>4. CASE find(k) = Null /\ len # CHAINLEN /\ insert_in_free_slot(k, v)
    BY <1>4, InsertFreeSteps
<1>5. CASE find(k) = Null /\ len # CHAINLEN /\ new_entry_fails
    BY <1>5, NewEntryFailsSteps
<1>6. CASE find(k) # Null /\ replace_and_promote(find(k), k, v)
    BY <1>6, PromoteSteps
<1>7. CASE find(k) # Null /\ replace_fails(find(k), v)
    BY <1>7, ReplaceFailsSteps
<1>. QED
    BY <1>1, <1>2, <1>3, <1>4, <1>5, <1>6, <1>7 DEF cache_set

(* Every step leads from a good path to a good path and is a step of the  *)
(* sequence.                                                               *)
LEMMA NextSteps ==
    ASSUME NEW w, Good(w), Next
    PROVE  (\E z \in Seq(Slots) : Good(z)') /\ L!Next
<1>0. w \in Seq(Slots)
    BY GoodMeans
<1>1. ~crashed
    BY DEF Next
<1>2. PICK k \in Keys :
         \/ cache_get(k) /\ call' = <<"get", k>>
         \/ cache_del_miss(k) /\ call' = <<"del", k>>
         \/ cache_del_hit(k) /\ call' = <<"del", k>>
         \/ \E v \in Vals : cache_set(k, v) /\ call' = <<"set", k, v>>
         \/ \E old, new \in Vals : /\ cache_cas(k, old, new)
                                   /\ call' = <<"cas", k, old, new>>
    BY DEF Next
<1>3. CASE cache_get(k) /\ call' = <<"get", k>>
  <2>1. Good(w)' /\ L!Get(k)
      BY <1>3, GetSteps
  <2>. QED
      BY <1>0, <1>1, <1>3, <2>1 DEF L!Next
<1>4. CASE cache_del_miss(k) /\ call' = <<"del", k>>
  <2>1. Good(w)' /\ L!Del(k)
      BY <1>4, DelMissSteps
  <2>. QED
      BY <1>0, <1>1, <1>4, <2>1 DEF L!Next
<1>5. CASE cache_del_hit(k) /\ call' = <<"del", k>>
  <2>1. (\E z \in Seq(Slots) : Good(z)') /\ L!Del(k)
      BY <1>5, DelHitSteps
  <2>. QED
      BY <1>1, <1>5, <2>1 DEF L!Next
<1>6. CASE \E v \in Vals : cache_set(k, v) /\ call' = <<"set", k, v>>
  <2>1. PICK v \in Vals : cache_set(k, v) /\ call' = <<"set", k, v>>
      BY <1>6
  <2>2. /\ \E z \in Seq(Slots) : Good(z)'
        /\ L!Set(k, v) \/ L!SetFails(k) \/ L!SetKills(k)
      BY <2>1, SetSteps
  <2>. QED
      BY <1>1, <2>1, <2>2 DEF L!Next
<1>7. CASE \E old, new \in Vals : /\ cache_cas(k, old, new)
                                  /\ call' = <<"cas", k, old, new>>
  <2>1. PICK old, new \in Vals : /\ cache_cas(k, old, new)
                                 /\ call' = <<"cas", k, old, new>>
      BY <1>7
  <2>2. (\E z \in Seq(Slots) : Good(z)') /\ L!Swap(k, old, new)
      BY <2>1, CasSteps
  <2>. QED
      BY <1>1, <2>1, <2>2 DEF L!Next
<1>. QED
    BY <1>2, <1>3, <1>4, <1>5, <1>6, <1>7

LEMMA StutterSteps ==
    ASSUME NEW w, Good(w), UNCHANGED vars
    PROVE  Good(w)' /\ list' = list
<1>1. /\ entries' = entries /\ first' = first /\ last' = last /\ len' = len
      /\ crashed' = crashed /\ recent' = recent
    BY DEF vars
<1>2. Good(w)'
    BY <1>1 DEF Good
<1>3. list = lst(entries, w) /\ list' = lst(entries', w)
    BY <1>2, MapMeans
<1>. QED
    BY <1>1, <1>2, <1>3

(* Before and after every operation the array holds one list, in both     *)
(* directions, of keys in the order of their last sets.                    *)
THEOREM ListStays == Spec => []IInv
<1>1. cache_create => IInv
  <2> SUFFICES ASSUME cache_create PROVE IInv
      OBVIOUS
  <2>1. Good(<<>>) /\ <<>> \in Seq(Slots)
      BY CreateGood
  <2>. QED
      BY <2>1 DEF IInv
<1>2. IInv /\ [Next]_vars => IInv'
  <2> SUFFICES ASSUME IInv, [Next]_vars PROVE IInv'
      OBVIOUS
  <2>1. PICK w \in Seq(Slots) : Good(w)
      BY DEF IInv
  <2>2. CASE Next
      BY <2>1, <2>2, NextSteps DEF IInv
  <2>3. CASE UNCHANGED vars
      BY <2>1, <2>3, StutterSteps DEF IInv
  <2>. QED
      BY <2>2, <2>3
<1>. QED
    BY <1>1, <1>2, PTL DEF Spec

(* The array, the pointers and c->len keep their types: no pointer of the *)
(* list ever leaves the array, whatever malloc() calls fail.              *)
THEOREM TypeCorrect == Spec => []TypeOK
<1>1. IInv => TypeOK
  <2> SUFFICES ASSUME IInv PROVE TypeOK
      OBVIOUS
  <2>1. PICK w \in Seq(Slots) : Good(w)
      BY DEF IInv
  <2>2. /\ entries \in [Slots -> Entry] /\ first = at(w, 1) /\ last = at(w, Len(w))
        /\ \A i \in Int : at(w, i) \in Ptr
        /\ Len(w) \in Nat
      BY <2>1, GoodMeans
  <2>3. first \in Ptr /\ last \in Ptr
      BY <2>2
  <2>4. len \in 0..CHAINLEN /\ crashed \in BOOLEAN
      BY <2>1 DEF Good, Counted
  <2>5. ASSUME NEW s \in Slots
        PROVE  /\ entries[s].key \in Keys \cup {Free}
               /\ entries[s].val \in Vals \cup {Free}
               /\ entries[s].prev \in Ptr
               /\ entries[s].next \in Ptr
    <3>1. entries[s] \in Entry
        BY <2>2
    <3>. QED
        BY <3>1 DEF Entry
  <2>6. DOMAIN entries = Slots
      BY <2>2
  <2>. QED
      BY <2>3, <2>4, <2>5, <2>6 DEF TypeOK
<1>. QED
    BY <1>1, ListStays, PTL

(* Read backwards from c->last the list is the one read forwards from     *)
(* c->first, and the used slots are the ones on it, after any sequence of *)
(* operations of cache.c and of malloc() failures in them.                *)
THEOREM LinksStayRight == Spec => []LinksAgree
<1>1. IInv => LinksAgree
  <2> SUFFICES ASSUME IInv PROVE LinksAgree
      OBVIOUS
  <2>1. PICK w \in Seq(Slots) : Good(w)
      BY DEF IInv
  <2>2. walk = w
      BY <2>1, WalkIsPath
  <2>3. /\ Len(w) \in Nat /\ DOMAIN w = 1..Len(w)
        /\ \A i, j \in 1..Len(w) : w[i] = w[j] => i = j
        /\ last = at(w, Len(w))
        /\ \A i \in 1..Len(w) : entries[w[i]].prev = at(w, i - 1)
      BY <2>1, GoodMeans
  <2>4. last = IF w = <<>> THEN Null ELSE w[Len(w)]
    <3>1. CASE w = <<>>
        BY <2>3, <3>1 DEF at
    <3>2. CASE w # <<>>
      <4>1. Len(w) \in 1..Len(w)
          BY <2>3, <3>2
      <4>. QED
          BY <2>3, <3>2, <4>1 DEF at
    <3>. QED
        BY <3>1, <3>2
  <2>5. ASSUME NEW i \in DOMAIN w
        PROVE  entries[w[i]].prev = IF i = 1 THEN Null ELSE w[i - 1]
    <3>1. i \in 1..Len(w) /\ entries[w[i]].prev = at(w, i - 1)
        BY <2>3
    <3>2. CASE i = 1
      <4>1. i - 1 \notin 1..Len(w)
          BY <3>2
      <4>. QED
          BY <3>1, <3>2, <4>1 DEF at
    <3>3. CASE i # 1
      <4>1. i - 1 \in 1..Len(w)
          BY <2>3, <3>1, <3>3
      <4>. QED
          BY <3>1, <3>3, <4>1 DEF at
    <3>. QED
        BY <3>2, <3>3
  <2>6. ASSUME NEW s \in Slots
        PROVE  entries[s].key # Free <=> s \in ToSet(w)
    <3>1. s \in ToSet(w) <=> On(w, s)
        BY <2>3 DEF ToSet, On
    <3>2. entries[s].key # Free => On(w, s)
        BY <2>1 DEF Good, Complete
    <3>3. On(w, s) => entries[s].key # Free
      <4>1. \A i \in 1..Len(w) : entries[w[i]].key \in Keys
          BY <2>1 DEF Good, Keyed
      <4>. QED
          BY <4>1, SizesAssumption DEF On, Free
    <3>. QED
        BY <3>1, <3>2, <3>3
  <2>. QED
      BY <2>2, <2>3, <2>4, <2>5, <2>6 DEF LinksAgree
<1>. QED
    BY <1>1, ListStays, PTL

(* The chain holds the keys set most recently, newest first: eviction     *)
(* takes the one set longest ago, whatever was deleted, swapped or failed *)
(* between.                                                                *)
THEOREM NewestAreKept == Spec => []KeepsRecentSets
<1>1. IInv => KeepsRecentSets
  <2> SUFFICES ASSUME IInv PROVE KeepsRecentSets
      OBVIOUS
  <2>1. PICK w \in Seq(Slots) : Good(w)
      BY DEF IInv
  <2>2. PICK ks : ks = [i \in DOMAIN list |-> list[i].key]
      OBVIOUS
  <2>3. list = lst(entries, w)
      BY <2>1, ListIsPath DEF ListIsThePaths
  <2>4. list \in Seq(Pair) /\ Len(list) = Len(w) /\ Len(w) \in Nat
      BY <2>1, <2>3, LookUp
  <2>5. /\ recent \in Seq(Keys) /\ Len(w) <= Len(recent)
        /\ \A i \in 1..Len(w) : entries[w[i]].key = recent[i]
      BY <2>1 DEF Good, ByAge
  <2>6. ASSUME NEW i \in 1..Len(w) PROVE ks[i] = recent[i]
    <3>1. i \in DOMAIN list
        BY <2>4
    <3>2. list[i] = [key |-> entries[w[i]].key, val |-> entries[w[i]].val]
        BY <2>3 DEF lst
    <3>. QED
        BY <2>2, <2>5, <3>1, <3>2
  <2>7. ks \in Seq(Keys) /\ Len(ks) = Len(w)
    <3>1. DOMAIN ks = 1..Len(w)
        BY <2>2, <2>4
    <3>2. \A i \in 1..Len(w) : ks[i] \in Keys
        BY <2>5, <2>6
    <3>3. ks = [i \in 1..Len(w) |-> ks[i]]
        BY <2>2, <3>1
    <3>. QED
        BY <2>4, <3>1, <3>2, <3>3
  <2>8. SubSeq(ks, 1, Len(ks)) = SubSeq(recent, 1, Len(ks))
      BY <2>4, <2>5, <2>6, <2>7
  <2>. QED
      BY <2>2, <2>4, <2>5, <2>7, <2>8 DEF KeepsRecentSets, IsPrefix
<1>. QED
    BY <1>1, ListStays, PTL

(* The linked list of cache.c implements the list that its callers are    *)
(* promised: every operation is one of ChainList's, with its result.      *)
THEOREM ListIsImplemented == Spec => ImplementsList
<1>1. cache_create => L!Init
    BY CreateGood
<1>2. IInv /\ [Next]_vars =>
         [L!Next]_<<list, CHAINLEN - (len - Len(list)), crashed, out, call>>
  <2> SUFFICES ASSUME IInv, [Next]_vars
               PROVE  [L!Next]_<<list, CHAINLEN - (len - Len(list)),
                                 crashed, out, call>>
      OBVIOUS
  <2>1. PICK w \in Seq(Slots) : Good(w)
      BY DEF IInv
  <2>2. CASE Next
      BY <2>1, <2>2, NextSteps
  <2>3. CASE UNCHANGED vars
    <3>1. list' = list /\ len' = len /\ crashed' = crashed /\ out' = out
          /\ call' = call
        BY <2>1, <2>3, StutterSteps DEF vars
    <3>. QED
        BY <3>1
  <2>. QED
      BY <2>2, <2>3
<1>. QED
    BY <1>1, <1>2, ListStays, PTL DEF Spec, ImplementsList, L!Spec

=============================================================================
