-------------------------- MODULE ServerPoolProofs --------------------------
(***************************************************************************)
(* Proofs about ServerPool: the descriptors of a client process, the order *)
(* of its servers and the arithmetic that selects one.                     *)
(***************************************************************************)
EXTENDS ServerPool, FiniteSetTheorems, WellFoundedInduction, TLAPS

(* A non-empty set of numbers has a least one. *)
LEMMA LeastNumber ==
    ASSUME NEW S, S \subseteq Nat, S # {}
    PROVE  \E n \in S : \A x \in S : n <= x
<1> DEFINE R == OpToRel(<, Nat)
<1>1. \A m, n \in Nat : m < n => <<m, n>> \in R
    BY Zenon DEF OpToRel
<1>2. IsWellFoundedOn(R, Nat)
    BY NatLessThanWellFounded, Zenon
<1> HIDE DEF R
<1>3. PICK n \in S : \A m \in S : <<m, n>> \notin R
    BY <1>2, WFMin, Zenon
<1>4. \A m \in S : ~(m < n)
    BY <1>1, <1>3, Zenon
<1>5. \A m \in S : n <= m
    BY <1>4
<1>. QED
    BY <1>5

(* A function can be defined by its value at 0 and a step h from each      *)
(* value to the next.  By the least length for which it could not.         *)
LEMMA StepByStep ==
    ASSUME NEW N \in Nat, NEW a \in Nat,
           NEW h \in [Nat -> [Nat -> Nat]]
    PROVE  \E f \in [0..N -> Nat] :
              f[0] = a /\ \A n \in 1..N : f[n] = h[n][f[n - 1]]
<1> DEFINE Solves(f, m) == /\ f \in [0..m -> Nat] /\ f[0] = a
                           /\ \A n \in 1..m : f[n] = h[n][f[n - 1]]
           Bad == {m \in Nat : ~\E f : Solves(f, m)}
<1>1. Bad = {}
  <2> SUFFICES ASSUME Bad # {} PROVE FALSE
      OBVIOUS
  <2>1. PICK m \in Bad : \A x \in Bad : m <= x
    <3>1. Bad \subseteq Nat
        OBVIOUS
    <3> HIDE DEF Bad
    <3>. QED
        BY <3>1, LeastNumber
  <2>2. m \in Nat /\ ~\E f : Solves(f, m)
      OBVIOUS
  <2> HIDE DEF Bad
  <2>3. CASE m = 0
    <3>1. Solves([n \in 0..0 |-> a], 0)
        OBVIOUS
    <3>. QED
        BY <2>2, <2>3, <3>1
  <2>4. CASE m # 0
    <3>1. m - 1 \in Nat /\ ~(m <= m - 1)
        BY <2>2, <2>4
    <3>2. m - 1 \notin Bad
        BY <2>1, <3>1, Zenon
    <3>3. PICK f : Solves(f, m - 1)
        BY <3>1, <3>2, Zenon DEF Bad
    <3>a. f \in [0..(m - 1) -> Nat] /\ f[0] = a
        BY <3>3, Zenon
    <3>b. \A n \in 1..(m - 1) : f[n] = h[n][f[n - 1]]
        BY <3>3, Zenon
    <3>4. f[m - 1] \in Nat /\ h[m][f[m - 1]] \in Nat
      <4>1. m - 1 \in 0..(m - 1)
          BY <3>1
      <4>2. f[m - 1] \in Nat
          BY <3>a, <4>1, Zenon
      <4>. QED
          BY <2>2, <4>2, Zenon
    <3> DEFINE g == [n \in 0..m |-> IF n = m THEN h[m][f[m - 1]] ELSE f[n]]
    <3>5. g \in [0..m -> Nat] /\ g[0] = a
      <4>1. \A n \in 0..m : n # m => n \in 0..(m - 1)
          BY <2>2
      <4>2. \A n \in 0..m : n # m => f[n] \in Nat
          BY <3>a, <4>1, Zenon
      <4>3. 0 \in 0..m /\ 0 # m
          BY <2>2, <2>4
      <4>. QED
          BY <3>a, <3>4, <4>2, <4>3, Zenon
    <3>6. ASSUME NEW n \in 1..m
          PROVE  g[n] = h[n][g[n - 1]]
      <4>1. n - 1 \in 0..m /\ n - 1 # m
          BY <2>2
      <4>2. g[n - 1] = f[n - 1]
          BY <4>1
      <4>3. CASE n = m
          BY <4>2, <4>3
      <4>4. CASE n # m
        <5>1. n \in 1..(m - 1)
            BY <2>2, <4>4
        <5>2. f[n] = h[n][f[n - 1]]
            BY <3>b, <5>1, Zenon
        <5>3. n \in 0..m
            BY <2>2
        <5>4. g[n] = f[n]
            BY <4>4, <5>3, Zenon
        <5>. QED
            BY <4>2, <5>2, <5>4, Zenon
      <4>. QED
          BY <4>3, <4>4
    <3> HIDE DEF g
    <3>7. Solves(g, m)
        BY <3>5, <3>6
    <3>. QED
        BY <2>2, <3>7
  <2>. QED
      BY <2>3, <2>4
<1>2. PICK f : Solves(f, N)
    BY <1>1
<1>. QED
    BY <1>2

-----------------------------------------------------------------------------
(* Arithmetic. *)

LEMMA AtLeastOnce ==
    ASSUME NEW k \in Nat \ {0}, NEW m \in Nat
    PROVE  k * m >= m
<1>1. k * m = (k - 1) * m + m
    OBVIOUS
<1>2. (k - 1) * m >= 0
    OBVIOUS
<1>. QED
    BY <1>1, <1>2

(* Two digits determine the quotient and the remainder. *)
LEMMA DigitsUnique ==
    ASSUME NEW m \in Nat, NEW a \in Nat, NEW b \in Nat, NEW r \in 0..(m - 1),
           NEW s \in 0..(m - 1), a * m + r = b * m + s
    PROVE  a = b /\ r = s
<1>1. ASSUME NEW x \in Nat, NEW y \in Nat, NEW u \in 0..(m - 1), NEW v \in 0..(m - 1),
             x * m + u = y * m + v, x < y
      PROVE  FALSE
  <2>1. y - x \in Nat \ {0}
      BY <1>1
  <2>2. (y - x) * m >= m
      BY <2>1, AtLeastOnce
  <2>3. (y - x) * m = y * m - x * m
      OBVIOUS
  <2>4. y * m \in Nat /\ x * m \in Nat
      OBVIOUS
  <2>. QED
      BY <1>1, <2>2, <2>3, <2>4
<1>2. ~(a < b) /\ ~(b < a)
    BY <1>1
<1>3. a = b
    BY <1>2
<1>4. a * m \in Nat
    OBVIOUS
<1>. QED
    BY <1>3, <1>4

LEMMA Division ==
    ASSUME NEW n \in Nat, NEW m \in Nat \ {0}
    PROVE  /\ n \div m \in Nat /\ n % m \in 0..(m - 1)
           /\ n = (n \div m) * m + (n % m)
BY SMTT(30)

LEMMA Remainder ==
    ASSUME NEW m \in Nat \ {0}, NEW a \in Nat, NEW r \in 0..(m - 1), NEW n \in Nat,
           n = a * m + r
    PROVE  n % m = r /\ n \div m = a
<1>1. /\ n \div m \in Nat /\ n % m \in 0..(m - 1)
      /\ n = (n \div m) * m + (n % m)
    BY Division
<1>2. a * m + r = (n \div m) * m + (n % m)
    BY <1>1
<1>. QED
    BY <1>1, <1>2, DigitsUnique

(* Multiples do not count. *)
LEMMA SameRemainder ==
    ASSUME NEW m \in Nat \ {0}, NEW x \in Nat, NEW q \in Nat
    PROVE  (x + q * m) % m = x % m
<1>1. /\ x \div m \in Nat /\ x % m \in 0..(m - 1)
      /\ x = (x \div m) * m + (x % m)
    BY Division
<1>2. x \div m + q \in Nat /\ x + q * m \in Nat
    BY <1>1
<1>3. (x \div m + q) * m = (x \div m) * m + q * m
    BY <1>1
<1>4. x + q * m = (x \div m + q) * m + (x % m)
  <2>1. (x \div m) * m \in Nat /\ q * m \in Nat
      BY <1>1
  <2>. QED
      BY <1>1, <1>3, <2>1
<1>. QED
    BY <1>1, <1>2, <1>4, Remainder

LEMMA Sizes ==
    /\ Byte \in Nat \ {0, 1} /\ Word \in Nat /\ Word >= 4
    /\ Word - 1 \in Nat \ {0} /\ Long \in Nat /\ Long >= Word
    /\ Byte * Byte = Word /\ Word * Word = Long
<1>1. Byte \in Nat /\ Byte >= 2
    BY PoolAssumption
<1>2. PICK w : w = Byte * Byte
    OBVIOUS
<1>3. w \in Nat /\ w >= 4
    BY <1>1, <1>2
<1>4. w * w >= w
    BY <1>3, AtLeastOnce
<1>. QED
    BY <1>1, <1>2, <1>3, <1>4 DEF Word, Long

(* Adding the carries does not change the one's complement sum. *)
LEMMA FoldKeeps ==
    ASSUME NEW s \in 0..(Long - 1), s >= Word
    PROVE  LET t == (s % Word) + (s \div Word) IN
           /\ t \in 0..(Long - 1) /\ t < s
           /\ ones_complement_sum(t) = ones_complement_sum(s)
<1>1. PICK w \in Nat : w = Word /\ w >= 4 /\ w - 1 \in Nat \ {0}
    BY Sizes
<1>2. s \in Nat /\ s < Long /\ Long \in Nat /\ s >= w
    BY <1>1, Sizes
<1>3. PICK q \in Nat : q = s \div Word
    BY <1>1, <1>2, Division
<1>4. PICK r \in 0..(w - 1) : r = s % Word
    BY <1>1, <1>2, Division
<1>5. s = q * w + r
    BY <1>1, <1>2, <1>3, <1>4, Division
<1>6. q # 0
    BY <1>1, <1>2, <1>5
<1>7. q * w = q * (w - 1) + q
    BY <1>1
<1>8. PICK k \in Nat : k = q * (w - 1) /\ k >= w - 1
  <2>1. q * (w - 1) >= w - 1
      BY <1>1, <1>6, AtLeastOnce
  <2>2. q * (w - 1) \in Nat
      BY <1>1
  <2>. QED
      BY <2>1, <2>2
<1>9. s = k + q + r
    BY <1>5, <1>7, <1>8
<1>10. PICK t \in Nat : t = r + q /\ t \in 0..(Long - 1) /\ t < s /\ t > 0
    BY <1>1, <1>2, <1>6, <1>8, <1>9
<1>11. PICK x \in Nat : x = t - 1
    BY <1>10
<1>12. s - 1 = x + q * (w - 1)
    BY <1>8, <1>9, <1>10, <1>11
<1>13. (x + q * (w - 1)) % (w - 1) = x % (w - 1)
    BY <1>1, SameRemainder
<1>14. s # 0 /\ t # 0
    BY <1>1, <1>2, <1>10
<1>15. ones_complement_sum(t) = (x % (w - 1)) + 1
    BY <1>1, <1>11, <1>14 DEF ones_complement_sum
<1>16. ones_complement_sum(s) = ((x + q * (w - 1)) % (w - 1)) + 1
    BY <1>1, <1>12, <1>14 DEF ones_complement_sum
<1>17. ones_complement_sum(t) = ones_complement_sum(s)
    BY <1>13, <1>15, <1>16, Zenon
<1>18. t = (s % Word) + (s \div Word)
    BY <1>3, <1>4, <1>10, Zenon
<1>. QED
    BY <1>10, <1>17, <1>18, Zenon

LEMMA SmallSum ==
    ASSUME NEW s \in Nat, s < Word
    PROVE  ones_complement_sum(s) = s
<1>1. PICK m \in Nat : m = Word - 1 /\ m # 0
    BY Sizes
<1>2. CASE s = 0
    BY <1>2 DEF ones_complement_sum
<1>3. CASE s # 0
  <2>1. s - 1 \in Nat /\ s - 1 \in 0..(m - 1) /\ s - 1 = 0 * m + (s - 1)
      BY <1>1, <1>3, Sizes
  <2>2. (s - 1) % m = s - 1
      BY <1>1, <2>1, Remainder
  <2>. QED
      BY <1>1, <1>3, <2>2 DEF ones_complement_sum
<1>. QED
    BY <1>2, <1>3

(* checksum's loop ends with the one's complement sum: that sum solves the *)
(* loop's equation, and no other function does.                            *)
LEMMA FoldIsSum ==
    ASSUME NEW n \in 0..(Long - 1)
    PROVE  fold(n) = ones_complement_sum(n)
<1> DEFINE D == 0..(Long - 1)
           next(s) == (s % Word) + (s \div Word)
           F(f) == [s \in D |-> IF s < Word THEN s ELSE f[next(s)]]
           g == [s \in D |-> ones_complement_sum(s)]
<1>1. D \subseteq Nat /\ Word \in Nat
    BY Sizes
<1>2. ASSUME NEW s \in D, s < Word
      PROVE  ones_complement_sum(s) = s
    BY <1>1, <1>2, SmallSum
<1>3. ASSUME NEW s \in D, ~(s < Word)
      PROVE  /\ next(s) \in D /\ next(s) < s
             /\ ones_complement_sum(next(s)) = ones_complement_sum(s)
  <2>1. s >= Word
      BY <1>1, <1>3
  <2>. QED
      BY <2>1, FoldKeeps
<1> HIDE DEF next, D
<1>4. g = F(g)
  <2>1. \A s \in D : g[s] = F(g)[s]
      BY <1>2, <1>3
  <2>2. g = [s \in D |-> g[s]] /\ F(g) = [s \in D |-> F(g)[s]]
      OBVIOUS
  <2> HIDE DEF g, F
  <2>. QED
      BY <2>1, <2>2, Zenon
<1> DEFINE c == CHOOSE f : f = F(f)
<1>5. c = F(c)
  <2> HIDE DEF F, g
  <2>. QED
      BY <1>4, Zenon
<1>6. fold(n) = c[n]
    BY Zenon DEF fold, D, next
<1> HIDE DEF c
<1>7. \A s \in D : c[s] = ones_complement_sum(s)
  <2> DEFINE Bad == {s \in D : c[s] # ones_complement_sum(s)}
  <2> SUFFICES ASSUME Bad # {} PROVE FALSE
      OBVIOUS
  <2>1. PICK s \in Bad : \A x \in Bad : s <= x
    <3>1. Bad \subseteq Nat
        BY <1>1
    <3> HIDE DEF Bad
    <3>. QED
        BY <3>1, LeastNumber
  <2>2. s \in D /\ c[s] # ones_complement_sum(s)
      OBVIOUS
  <2>3. c[s] = IF s < Word THEN s ELSE c[next(s)]
      BY <1>5, <2>2
  <2>4. CASE s < Word
      BY <1>2, <2>2, <2>3, <2>4
  <2>5. CASE ~(s < Word)
    <3>1. next(s) \in D /\ next(s) < s /\ ones_complement_sum(next(s)) = ones_complement_sum(s)
        BY <1>3, <2>2, <2>5
    <3>2. ~(s <= next(s))
      <4>1. \A a, b \in Nat : a < b => ~(b <= a)
          OBVIOUS
      <4>2. s \in Nat /\ next(s) \in Nat
          BY <1>1, <2>2, <3>1, Zenon
      <4>. QED
          BY <3>1, <4>1, <4>2, Zenon
    <3>3. c[next(s)] = ones_complement_sum(next(s))
        BY <2>1, <3>1, <3>2, Zenon
    <3>. QED
        BY <2>2, <2>3, <2>5, <3>1, <3>3, Zenon
  <2>. QED
      BY <2>4, <2>5
<1>. QED
    BY <1>6, <1>7 DEF D

LEMMA AsReadType ==
    ASSUME NEW o, NEW x \in Bytes, NEW y \in Bytes
    PROVE  as_read(o, <<x, y>>) \in Nat
<1>1. x \in Nat /\ y \in Nat /\ Byte \in Nat
    BY Sizes DEF Bytes
<1>2. Byte * x \in Nat /\ Byte * y \in Nat
    BY <1>1
<1>3. <<x, y>>[1] = x /\ <<x, y>>[2] = y
    OBVIOUS
<1>. QED
    BY <1>1, <1>2, <1>3 DEF as_read

(* What checksum adds up is an unsigned 32-bit number. *)
LEMMA SumType ==
    ASSUME NEW o, NEW key \in Seq(Bytes)
    PROVE  sum_of(o, key) \in 0..(Long - 1)
<1> DEFINE n == Len(key)
           half == n \div 2
           word(i) == IF i \in 1..half THEN as_read(o, <<key[i], key[i + 1]>>) ELSE 0
           h == [i \in Nat |-> [x \in Nat |-> (x + word(i)) % Long]]
           F(f) == [i \in 0..half |->
                      IF i = 0 THEN 0
                      ELSE (f[i - 1] + as_read(o, <<key[i], key[i + 1]>>)) % Long]
           c == CHOOSE f : f = F(f)
<1>0. n \in Nat /\ half \in Nat /\ n = half * 2 + (n % 2) /\ n % 2 \in 0..1
  <2>1. \A l \in Nat : /\ l \div 2 \in Nat /\ l = (l \div 2) * 2 + (l % 2)
                       /\ l % 2 \in 0..1
      OBVIOUS
  <2>2. n \in Nat
      OBVIOUS
  <2>. QED
      BY <2>1, <2>2, Zenon
<1>1. Long \in Nat \ {0}
    BY Sizes
<1>2. \A i \in 1..half : i \in 1..n /\ i + 1 \in 1..n
    BY <1>0
<1>3. \A i \in 1..n : key[i] \in Bytes
    OBVIOUS
<1>4. \A i \in Nat : word(i) \in Nat
  <2>1. ASSUME NEW i \in 1..half PROVE as_read(o, <<key[i], key[i + 1]>>) \in Nat
      BY <1>2, <1>3, AsReadType
  <2>. QED
      BY <2>1
<1> HIDE DEF n, half
<1>5. PICK f \in [0..half -> Nat] :
         f[0] = 0 /\ \A i \in 1..half : f[i] = h[i][f[i - 1]]
  <2>1. \A i, x \in Nat : (x + word(i)) % Long \in Nat
    <3> HIDE DEF word
    <3>1. \A x, y \in Nat : (x + y) % Long \in Nat
        BY <1>1, Division
    <3>. QED
        BY <1>4, <3>1, Zenon
  <2>2. h \in [Nat -> [Nat -> Nat]]
      BY <2>1
  <2> HIDE DEF h
  <2>. QED
      BY <1>0, <2>2, StepByStep, 0 \in Nat, ZenonT(60)
<1>6. ASSUME NEW i \in 1..half
      PROVE  f[i] = (f[i - 1] + as_read(o, <<key[i], key[i + 1]>>)) % Long
  <2>1. i \in Nat /\ f[i - 1] \in Nat /\ word(i) = as_read(o, <<key[i], key[i + 1]>>)
      BY <1>0, <1>5
  <2> HIDE DEF word
  <2>2. h[i][f[i - 1]] = (f[i - 1] + word(i)) % Long
      BY <2>1, Zenon
  <2> HIDE DEF h
  <2>. QED
      BY <1>5, <2>1, <2>2, Zenon
<1> HIDE DEF h
<1>7. f = F(f)
  <2>1. \A i \in 0..half : f[i] = F(f)[i]
    <3> TAKE i \in 0..half
    <3>1. i # 0 => i \in 1..half
        BY <1>0
    <3>. QED
        BY <1>5, <1>6, <3>1
  <2>2. F(f) = [i \in 0..half |-> F(f)[i]] /\ f = [i \in 0..half |-> f[i]]
      OBVIOUS
  <2> HIDE DEF F
  <2>. QED
      BY <2>1, <2>2, Zenon
<1>8. c = F(c)
  <2> HIDE DEF F
  <2>. QED
      BY <1>7, Zenon
<1>9. sum_of(o, key) = (c[half] + IF n % 2 = 1 THEN key[half + 1] ELSE 0) % Long
    BY Zenon DEF sum_of, n, half
<1> HIDE DEF c
<1>10. c[0] = 0 /\ \A i \in 1..half : c[i] = (c[i - 1] + as_read(o, <<key[i], key[i + 1]>>)) % Long
    BY <1>0, <1>8, SMTT(40)
<1>11. \A i \in 0..half : c[i] = f[i]
  <2> DEFINE Bad == {i \in 0..half : c[i] # f[i]}
  <2> SUFFICES ASSUME Bad # {} PROVE FALSE
      OBVIOUS
  <2>1. PICK i \in Bad : \A x \in Bad : i <= x
    <3>1. Bad \subseteq Nat
        BY <1>0
    <3> HIDE DEF Bad
    <3>. QED
        BY <3>1, LeastNumber
  <2>2. i # 0
      BY <1>5, <1>10
  <2>3. i \in 1..half /\ i - 1 \in 0..half /\ ~(i <= i - 1)
      BY <1>0, <2>2
  <2>4. c[i - 1] = f[i - 1]
      BY <2>1, <2>3, Zenon
  <2>5. c[i] = f[i]
      BY <1>6, <1>10, <2>3, <2>4, Zenon
  <2>. QED
      BY <2>5
<1>12. c[half] \in Nat
    BY <1>0, <1>5, <1>11
<1>13. (IF n % 2 = 1 THEN key[half + 1] ELSE 0) \in Nat
  <2>1. n % 2 = 1 => half + 1 \in 1..n
      BY <1>0
  <2>2. Bytes \subseteq Nat
      BY Sizes DEF Bytes
  <2>. QED
      BY <1>3, <2>1, <2>2
<1>14. PICK m \in Nat : m = c[half] + IF n % 2 = 1 THEN key[half + 1] ELSE 0
    BY <1>12, <1>13
<1>15. m % Long \in 0..(Long - 1)
    BY <1>1, Division
<1>. QED
    BY <1>9, <1>14, <1>15, Zenon

(* For every key, in either byte order, checksum is the complement of the  *)
(* one's complement sum of the words it reads: the place in the array is   *)
(* determined by the key alone, with no carry lost.                        *)
THEOREM SelectionIsOnesComplement == Spec => []SelectsByOnesComplement
<1>1. SelectsByOnesComplement
  <2> SUFFICES ASSUME NEW p \in Procs, servers[p] # <<>>, NEW k \in Keys
               PROVE  select_srv(p, k) =
                        1 + ((Long - 1 - ones_complement_sum(sum_of(order[p], k)))
                                % Len(servers[p]))
      BY Zenon DEF SelectsByOnesComplement
  <2>1. k \in Seq(Bytes)
      BY PoolAssumption
  <2>2. fold(sum_of(order[p], k)) = ones_complement_sum(sum_of(order[p], k))
      BY <2>1, SumType, FoldIsSum, Zenon
  <2>. QED
      BY <2>2, Zenon DEF select_srv, checksum
<1>. QED
    BY <1>1, PTL


-----------------------------------------------------------------------------
(* The array of servers and the descriptors. *)

Entry == {e \in [type : TIPC_CONN..SCTP_CONN, addr : Bytes \X Bytes,
                 port : Bytes \X Bytes, fd : Nat] : ident(e) \in Idents}

(* No server compares below one that stands before it. *)
Sorted(o, array) ==
    \A i, j \in DOMAIN array : i < j => ~compare_servers(o, array[j], array[i])

OwnSockets(array) ==
    \A i, j \in DOMAIN array : array[i].fd = array[j].fd => i = j

SocketsOpen(array, fds) == \A i \in DOMAIN array : array[i].fd \in fds

SocketsKnown(array, fds) == \A f \in fds : \E i \in DOMAIN array : array[i].fd = f

(* One process's array and descriptors after n calls. *)
PoolOK(o, array, fds, n, lost) ==
    /\ array \in Seq(Entry)
    /\ Sorted(o, array)
    /\ OwnSockets(array)
    /\ SocketsOpen(array, fds)
    /\ lost \/ SocketsKnown(array, fds)
    /\ n \in 0..MaxAdds
    /\ fds \subseteq 0..(n - 1)

(* The inductive invariant. *)
PInv ==
    /\ order \in [Procs -> {"little", "big"}]
    /\ servers \in [Procs -> Seq(Entry)]
    /\ open \in [Procs -> SUBSET Nat]
    /\ adds \in [Procs -> Nat]
    /\ forgot \in [Procs -> BOOLEAN]
    /\ \A p \in Procs : PoolOK(order[p], servers[p], open[p], adds[p], forgot[p])

LEMMA EmptyPool ==
    ASSUME NEW o, NEW fds, NEW n \in 0..MaxAdds, NEW lost \in BOOLEAN,
           fds \subseteq 0..(n - 1), lost \/ fds = {}
    PROVE  PoolOK(o, <<>>, fds, n, lost)
<1>1. <<>> \in Seq(Entry) /\ DOMAIN <<>> = {}
    OBVIOUS
<1>2. Sorted(o, <<>>) /\ OwnSockets(<<>>) /\ SocketsOpen(<<>>, fds)
    BY <1>1, Zenon DEF Sorted, OwnSockets, SocketsOpen
<1>3. lost \/ SocketsKnown(<<>>, fds)
    BY Zenon DEF SocketsKnown
<1>. QED
    BY <1>1, <1>2, <1>3, Zenon DEF PoolOK

(* A call that leaves the array and the descriptors alone. *)
LEMMA NothingAdded ==
    ASSUME NEW o, NEW array, NEW fds, NEW n, NEW lost,
           PoolOK(o, array, fds, n, lost), n < MaxAdds
    PROVE  PoolOK(o, array, fds, n + 1, lost)
<1>1. n \in 0..MaxAdds /\ fds \subseteq 0..(n - 1)
    BY Zenon DEF PoolOK
<1>2. PICK m : m = n + 1
    OBVIOUS
<1>3. m \in 0..MaxAdds /\ 0..(n - 1) \subseteq 0..(m - 1)
    BY <1>1, <1>2, PoolAssumption
<1>4. fds \subseteq 0..(m - 1)
    BY <1>1, <1>3, Zenon
<1>5. PoolOK(o, array, fds, m, lost)
    BY <1>3, <1>4, Zenon DEF PoolOK
<1>. QED
    BY <1>2, <1>5, Zenon

LEMMA AppendMeans ==
    ASSUME NEW S, NEW s \in Seq(S), NEW x \in S
    PROVE  /\ Append(s, x) \in Seq(S) /\ Len(s) \in Nat
           /\ DOMAIN s = 1..Len(s) /\ DOMAIN Append(s, x) = 1..(Len(s) + 1)
           /\ \A i \in 1..Len(s) : Append(s, x)[i] = s[i]
           /\ Append(s, x)[Len(s) + 1] = x
           /\ Front(Append(s, x)) = s
<1>1. /\ Append(s, x) \in Seq(S) /\ Len(s) \in Nat /\ Len(Append(s, x)) = Len(s) + 1
      /\ DOMAIN s = 1..Len(s) /\ DOMAIN Append(s, x) = 1..(Len(s) + 1)
      /\ \A i \in 1..Len(s) : Append(s, x)[i] = s[i]
      /\ Append(s, x)[Len(s) + 1] = x
    BY SMTT(40)
<1>2. PICK n \in Nat : n = Len(s)
    BY <1>1, Zenon
<1>3. SubSeq(Append(s, x), 1, n) = [i \in 1..n |-> Append(s, x)[i]]
    BY <1>1, <1>2
<1>4. [i \in 1..n |-> Append(s, x)[i]] = [i \in 1..n |-> s[i]]
    BY <1>1, <1>2, Zenon
<1>5. s = [i \in 1..n |-> s[i]]
    BY <1>2
<1>6. Len(Append(s, x)) - 1 = n
    BY <1>1, <1>2
<1>7. Front(Append(s, x)) = s
    BY <1>3, <1>4, <1>5, <1>6, Zenon DEF Front
<1>. QED
    BY <1>1, <1>7

(* The array grown by a server with a socket of its own, in any order. *)
LEMMA Inserted ==
    ASSUME NEW o, NEW array, NEW fds, NEW n, NEW lost \in BOOLEAN,
           PoolOK(o, array, fds, n, lost), n < MaxAdds,
           NEW e \in Entry, e.fd \in 0..n, e.fd \notin fds,
           NEW new \in qsort(o, Append(array, e))
    PROVE  PoolOK(o, new, fds \cup {e.fd}, n + 1, lost)
<1> DEFINE long == Append(array, e)
           all == fds \cup {e.fd}
<1>0. array \in Seq(Entry) /\ n \in 0..MaxAdds /\ fds \subseteq 0..(n - 1)
    BY Zenon DEF PoolOK
<1>1. PICK l \in Nat : l = Len(array)
    BY <1>0
<1>2. /\ long \in Seq(Entry) /\ DOMAIN array = 1..l /\ DOMAIN long = 1..(l + 1)
      /\ \A i \in 1..l : long[i] = array[i]
      /\ long[l + 1] = e
    BY <1>0, <1>1, AppendMeans
<1>3. \A i \in 1..(l + 1) : i \in 1..l \/ i = l + 1
    OBVIOUS
<1> HIDE DEF long
<1>4. SocketsOpen(long, all)
  <2>1. \A i \in 1..l : array[i].fd \in fds
      BY <1>2, Zenon DEF PoolOK, SocketsOpen
  <2>. QED
      BY <1>2, <1>3, <2>1, Zenon DEF SocketsOpen
<1>5. OwnSockets(long)
  <2>1. \A i \in 1..l : array[i].fd \in fds
      BY <1>2, Zenon DEF PoolOK, SocketsOpen
  <2>2. \A i, j \in 1..l : array[i].fd = array[j].fd => i = j
      BY <1>2, Zenon DEF PoolOK, OwnSockets
  <2>3. \A i \in 1..l : long[i].fd \in fds
      BY <1>2, <2>1, Zenon
  <2>4. \A i, j \in 1..l : long[i].fd = long[j].fd => i = j
      BY <1>2, <2>2, Zenon
  <2>5. long[l + 1].fd \notin fds
      BY <1>2, Zenon
  <2>6. \A i, j \in 1..(l + 1) : long[i].fd = long[j].fd => i = j
      BY <1>3, <2>3, <2>4, <2>5, Zenon
  <2>. QED
      BY <1>2, <2>6, Zenon DEF OwnSockets
<1>6. lost \/ SocketsKnown(long, all)
  <2> SUFFICES ASSUME ~lost, NEW f \in all
               PROVE  \E i \in DOMAIN long : long[i].fd = f
      BY Zenon DEF SocketsKnown
  <2>1. CASE f \in fds
    <3>1. PICK i \in 1..l : array[i].fd = f
        BY <1>2, <2>1, Zenon DEF PoolOK, SocketsKnown
    <3>2. i \in 1..(l + 1)
        OBVIOUS
    <3>. QED
        BY <1>2, <3>1, <3>2, Zenon
  <2>2. CASE f = e.fd
    <3>1. l + 1 \in 1..(l + 1)
        OBVIOUS
    <3>. QED
        BY <1>2, <2>2, <3>1, Zenon
  <2>. QED
      BY <2>1, <2>2
<1> DEFINE D == 1..(l + 1)
<1>7. PICK perm \in Bijection(D, D) : new = [i \in D |-> long[perm[i]]]
    BY <1>2, Zenon DEF qsort, long
<1>8. /\ perm \in [D -> D]
      /\ \A i, j \in D : perm[i] = perm[j] => i = j
      /\ \A j \in D : \E i \in D : perm[i] = j
    BY Zenon DEF Bijection, Injection, Surjection, IsInjective
<1>9. Sorted(o, new)
    BY Zenon DEF qsort, Sorted
<1>10. DOMAIN new = D /\ \A i \in D : new[i] = long[perm[i]] /\ perm[i] \in D
    BY <1>7, <1>8, Zenon
<1>11. new \in Seq(Entry)
  <2>1. \A i \in D : long[i] \in Entry
      BY <1>2
  <2>2. \A i \in D : long[perm[i]] \in Entry
      BY <1>10, <2>1, Zenon
  <2>3. new \in [D -> Entry]
      BY <1>7, <2>2, Zenon
  <2>4. l + 1 \in Nat
      OBVIOUS
  <2>. QED
      BY <2>3, <2>4
<1> HIDE DEF D
<1>12. DOMAIN long = D
    BY <1>2, Zenon DEF D
<1>13. OwnSockets(new)
  <2>1. \A i, j \in D : new[i].fd = new[j].fd => perm[i] = perm[j]
      BY <1>5, <1>10, <1>12, ZenonT(60) DEF OwnSockets
  <2>2. \A i, j \in D : new[i].fd = new[j].fd => i = j
      BY <1>8, <2>1, Zenon
  <2>. QED
      BY <1>10, <2>2, Zenon DEF OwnSockets
<1>14. SocketsOpen(new, all)
    BY <1>4, <1>10, <1>12, Zenon DEF SocketsOpen
<1>15. lost \/ SocketsKnown(new, all)
  <2> SUFFICES ASSUME ~lost, NEW f \in all
               PROVE  \E i \in DOMAIN new : new[i].fd = f
      BY Zenon DEF SocketsKnown
  <2>1. PICK j \in D : long[j].fd = f
      BY <1>6, <1>12, Zenon DEF SocketsKnown
  <2>2. PICK i \in D : perm[i] = j
      BY <1>8, Zenon
  <2>. QED
      BY <1>10, <2>1, <2>2, Zenon
<1>16. PICK m : m = n + 1
    OBVIOUS
<1>17. m \in 0..MaxAdds /\ all \subseteq 0..(m - 1)
  <2>1. m \in 0..MaxAdds /\ 0..(n - 1) \subseteq 0..(m - 1) /\ m - 1 = n
      BY <1>0, <1>16, PoolAssumption
  <2>. QED
      BY <1>0, <2>1, Zenon
<1>18. PoolOK(o, new, all, m, lost)
    BY <1>9, <1>11, <1>13, <1>14, <1>15, <1>17, Zenon DEF PoolOK
<1>. QED
    BY <1>16, <1>18, Zenon

(* There is a free descriptor, and socket() takes one. *)
LEMMA FreeSocket ==
    ASSUME NEW p \in Procs, PInv, adds[p] < MaxAdds
    PROVE  socket(p) \in 0..adds[p] /\ socket(p) \notin open[p]
<1> DEFINE n == adds[p]
           Free == {f \in 0..n : f \notin open[p]}
<1>1. n \in 0..MaxAdds /\ open[p] \subseteq 0..(n - 1)
    BY Zenon DEF PInv, PoolOK
<1> HIDE DEF n
<1>2. n \in Nat /\ n \in 0..n /\ n \notin 0..(n - 1) /\ n <= MaxAdds /\ MaxAdds \in Nat
    BY <1>1, PoolAssumption
<1>3. Free # {} /\ Free \subseteq Nat
  <2>1. n \in Free
      BY <1>1, <1>2, Zenon
  <2>2. 0..n \subseteq Nat
      OBVIOUS
  <2>. QED
      BY <2>1, <2>2, Zenon
<1>4. PICK f \in Free : \A x \in Free : f <= x
  <2> HIDE DEF Free
  <2>. QED
      BY <1>3, LeastNumber
<1>5. f \in 0..MaxAdds
    BY <1>2
<1>6. \A g \in 0..f - 1 : g \in open[p]
  <2> TAKE g \in 0..f - 1
  <2>1. g \in 0..n /\ ~(f <= g)
      BY <1>2
  <2>. QED
      BY <1>4, <2>1, Zenon
<1>7. f \notin open[p]
    BY Zenon
<1>8. /\ socket(p) \in 0..MaxAdds /\ socket(p) \notin open[p]
      /\ \A g \in 0..socket(p) - 1 : g \in open[p]
    BY <1>5, <1>6, <1>7, Zenon DEF socket
<1>9. PICK t \in 0..MaxAdds : t = socket(p)
    BY <1>8, Zenon
<1>10. ~(n < t)
  <2> SUFFICES ASSUME n < t PROVE FALSE
      OBVIOUS
  <2>1. n \in 0..t - 1
      BY <1>2
  <2>. QED
      BY <1>1, <1>2, <1>8, <1>9, <2>1, Zenon
<1>11. t \in 0..n
    BY <1>2, <1>10
<1>. QED
    BY <1>8, <1>9, <1>11, Zenon DEF n


LEMMA NewEntry ==
    ASSUME NEW p \in Procs, NEW s \in Idents, socket(p) \in Nat
    PROVE  newsrv(p, s) \in Entry /\ newsrv(p, s).fd = socket(p)
<1>1. s \in [type : TIPC_CONN..SCTP_CONN, addr : Bytes \X Bytes, port : Bytes \X Bytes]
    BY PoolAssumption, Zenon
<1>2. PICK f \in Nat : f = socket(p)
    OBVIOUS
<1>3. PICK T : T = TIPC_CONN..SCTP_CONN
    OBVIOUS
<1>4. PICK B : B = Bytes \X Bytes
    OBVIOUS
<1> DEFINE e == [type |-> s.type, addr |-> s.addr, port |-> s.port, fd |-> f]
<1>5. e \in [type : T, addr : B, port : B, fd : Nat] /\ e.fd = f
    BY <1>1, <1>3, <1>4
<1>6. [type |-> e.type, addr |-> e.addr, port |-> e.port] = s
    BY <1>1
<1>7. ident(e) \in Idents
    BY <1>6 DEF ident
<1>8. newsrv(p, s) = e
    BY <1>2 DEF newsrv
<1> HIDE DEF e
<1>9. e \in Entry
    BY <1>3, <1>4, <1>5, <1>7, Zenon DEF Entry
<1>. QED
    BY <1>2, <1>5, <1>8, <1>9, Zenon

LEMMA InitPInv == ASSUME Init PROVE PInv
<1>1. 0 \in 0..MaxAdds /\ 0 \in Nat
    BY PoolAssumption
<1>2. \A o : PoolOK(o, <<>>, {}, 0, FALSE)
  <2> TAKE o
  <2>1. {} \subseteq 0..(0 - 1) /\ FALSE \in BOOLEAN
      OBVIOUS
  <2>. QED
      BY <1>1, <2>1, EmptyPool
<1>3. \A p \in Procs : PoolOK(order[p], servers[p], open[p], adds[p], forgot[p])
  <2> TAKE p \in Procs
  <2>1. servers[p] = <<>> /\ open[p] = {} /\ adds[p] = 0 /\ forgot[p] = FALSE
      BY Zenon DEF Init
  <2>. QED
      BY <1>2, <2>1, Zenon
<1>4. /\ order \in [Procs -> {"little", "big"}] /\ servers \in [Procs -> Seq(Entry)]
      /\ open \in [Procs -> SUBSET Nat] /\ adds \in [Procs -> Nat]
      /\ forgot \in [Procs -> BOOLEAN]
    BY <1>1 DEF Init
<1>. QED
    BY <1>3, <1>4, Zenon DEF PInv

(* What remains to be shown of a step of p: its own part. *)
LEMMA OwnPart ==
    ASSUME PInv, NEW p \in Procs, NEW array, NEW fds, NEW n, NEW lost,
           order' = order,
           servers' = [servers EXCEPT ![p] = array],
           open' = [open EXCEPT ![p] = fds],
           adds' = [adds EXCEPT ![p] = n],
           forgot' = [forgot EXCEPT ![p] = lost],
           lost \in BOOLEAN,
           PoolOK(order[p], array, fds, n, lost)
    PROVE  PInv'
<1>1. array \in Seq(Entry) /\ fds \in SUBSET Nat /\ n \in Nat
  <2>1. array \in Seq(Entry) /\ n \in 0..MaxAdds /\ fds \subseteq 0..(n - 1)
      BY Zenon DEF PoolOK
  <2>2. n \in Nat /\ 0..(n - 1) \subseteq Nat
      BY <2>1, PoolAssumption
  <2>. QED
      BY <2>1, <2>2, Zenon
<1>2. /\ order \in [Procs -> {"little", "big"}] /\ servers \in [Procs -> Seq(Entry)]
      /\ open \in [Procs -> SUBSET Nat] /\ adds \in [Procs -> Nat]
      /\ forgot \in [Procs -> BOOLEAN]
    BY Zenon DEF PInv
<1>3. /\ order' \in [Procs -> {"little", "big"}] /\ servers' \in [Procs -> Seq(Entry)]
      /\ open' \in [Procs -> SUBSET Nat] /\ adds' \in [Procs -> Nat]
      /\ forgot' \in [Procs -> BOOLEAN]
    BY <1>1, <1>2, Zenon
<1>4. ASSUME NEW q \in Procs
      PROVE  PoolOK(order'[q], servers'[q], open'[q], adds'[q], forgot'[q])
  <2>1. CASE q = p
    <3>1. /\ servers'[p] = array /\ open'[p] = fds /\ adds'[p] = n
          /\ forgot'[p] = lost /\ order'[p] = order[p]
        BY <1>2, Zenon
    <3>. QED
        BY <2>1, <3>1, Zenon
  <2>2. CASE q # p
    <3>1. /\ servers'[q] = servers[q] /\ open'[q] = open[q] /\ adds'[q] = adds[q]
          /\ forgot'[q] = forgot[q] /\ order'[q] = order[q]
        BY <1>2, <2>2, Zenon
    <3>2. PoolOK(order[q], servers[q], open[q], adds[q], forgot[q])
        BY Zenon DEF PInv
    <3>. QED
        BY <3>1, <3>2, Zenon
  <2>. QED
      BY <2>1, <2>2
<1>. QED
    BY <1>3, <1>4, Zenon DEF PInv

LEMMA SameEntry ==
    ASSUME NEW S, NEW T, NEW f \in [S -> T], NEW x \in S, NEW y, y = f[x]
    PROVE  f = [f EXCEPT ![x] = y]
OBVIOUS


LEMMA NextPInv == ASSUME PInv, [Next]_vars PROVE PInv'
<1>1. CASE UNCHANGED vars
    BY <1>1, Zenon DEF PInv, vars
<1>2. CASE Next
  <2>1. PICK p \in Procs : \/ \E s \in Idents : add_server(p, s) \/ add_tcp_server_refused(p, s)
                           \/ add_fails(p)
                           \/ nmdb_init(p) \/ nmdb_free(p)
      BY <1>2, Zenon DEF Next
  <2> DEFINE o == order[p]
             array == servers[p]
             fds == open[p]
             n == adds[p]
             lost == forgot[p]
  <2>2. /\ order \in [Procs -> {"little", "big"}] /\ servers \in [Procs -> Seq(Entry)]
        /\ open \in [Procs -> SUBSET Nat] /\ adds \in [Procs -> Nat]
        /\ forgot \in [Procs -> BOOLEAN]
      BY Zenon DEF PInv
  <2>3. PoolOK(o, array, fds, n, lost) /\ lost \in BOOLEAN
      BY <2>2, Zenon DEF PInv
  <2>4. /\ order = [order EXCEPT ![p] = o] /\ servers = [servers EXCEPT ![p] = array]
        /\ open = [open EXCEPT ![p] = fds] /\ adds = [adds EXCEPT ![p] = n]
        /\ forgot = [forgot EXCEPT ![p] = lost]
      BY <2>2, SameEntry
  <2>5. ASSUME calls_add(p)
        PROVE  /\ adds' = [adds EXCEPT ![p] = n + 1] /\ n < MaxAdds
               /\ socket(p) \in 0..n /\ socket(p) \notin fds /\ socket(p) \in Nat
    <3>1. n < MaxAdds /\ adds' = [adds EXCEPT ![p] = n + 1]
        BY <2>5, Zenon DEF calls_add
    <3>2. socket(p) \in 0..n /\ socket(p) \notin fds
        BY <3>1, FreeSocket, Zenon
    <3>3. 0..n \subseteq Nat
        BY <2>2
    <3>. QED
        BY <3>1, <3>2, <3>3, Zenon
  <2>6. ASSUME NEW s \in Idents, add_server(p, s) PROVE PInv'
    <3>1. /\ calls_add(p) /\ order' = order /\ forgot' = forgot
          /\ open' = [open EXCEPT ![p] = fds \cup {socket(p)}]
        BY <2>6, Zenon DEF add_server
    <3>2. PICK new \in qsort(o, Append(array, newsrv(p, s))) :
             servers' = [servers EXCEPT ![p] = new]
        BY <2>6, Zenon DEF add_server
    <3>3. newsrv(p, s) \in Entry /\ newsrv(p, s).fd = socket(p)
        BY <2>5, <3>1, NewEntry, Zenon
    <3>4. PICK e \in Entry : e = newsrv(p, s)
        BY <3>3, Zenon
    <3>5. e.fd = socket(p) /\ e.fd \in 0..n /\ e.fd \notin fds /\ n < MaxAdds
        BY <2>5, <3>1, <3>3, <3>4, Zenon
    <3>6. new \in qsort(o, Append(array, e))
        BY <3>2, <3>4, Zenon
    <3> HIDE DEF o, array, fds, n, lost
    <3>7. PoolOK(o, new, fds \cup {e.fd}, n + 1, lost)
        BY <2>3, <3>5, <3>6, Inserted
    <3>8. PICK all, m : all = fds \cup {e.fd} /\ m = n + 1
        OBVIOUS
    <3>9. /\ open' = [open EXCEPT ![p] = all] /\ adds' = [adds EXCEPT ![p] = m]
          /\ forgot' = [forgot EXCEPT ![p] = lost] /\ PoolOK(o, new, all, m, lost)
        BY <2>4, <2>5, <3>1, <3>5, <3>7, <3>8, Zenon
    <3>. QED
        BY <2>3, <3>1, <3>2, <3>9, OwnPart, Zenon DEF o
  <2>7. ASSUME NEW s \in Idents, add_tcp_server_refused(p, s) PROVE PInv'
    <3> DEFINE newarray == Append(array, newsrv(p, s))
    <3>1. calls_add(p) /\ tcp_error_exit(p, s)
        BY <2>7, Zenon DEF add_tcp_server_refused
    <3>2. order' = order /\ open' = open
        BY <3>1, Zenon DEF tcp_error_exit
    <3>3. \/ servers' = [servers EXCEPT ![p] = Front(newarray)] /\ forgot' = forgot
          \/ /\ servers' = [servers EXCEPT ![p] = <<>>]
             /\ forgot' = [forgot EXCEPT ![p] = TRUE]
        BY <3>1, Zenon DEF tcp_error_exit
    <3>4. newsrv(p, s) \in Entry
        BY <2>5, <3>1, NewEntry, Zenon
    <3>5. array \in Seq(Entry)
        BY <2>2, Zenon
    <3>6. Front(newarray) = array
        BY <3>4, <3>5, AppendMeans
    <3> HIDE DEF newarray, o, array, fds, n, lost
    <3>7. n < MaxAdds /\ adds' = [adds EXCEPT ![p] = n + 1]
        BY <2>5, <3>1, Zenon
    <3>8. PICK m : m = n + 1
        OBVIOUS
    <3>9. PoolOK(o, array, fds, m, lost)
        BY <2>3, <3>7, <3>8, NothingAdded, Zenon
    <3>10. /\ open' = [open EXCEPT ![p] = fds] /\ adds' = [adds EXCEPT ![p] = m]
        BY <2>4, <3>2, <3>7, <3>8, Zenon
    <3>11. CASE servers' = [servers EXCEPT ![p] = Front(newarray)] /\ forgot' = forgot
      <4>1. servers' = [servers EXCEPT ![p] = array] /\ forgot' = [forgot EXCEPT ![p] = lost]
          BY <2>4, <3>6, <3>11, Zenon
      <4>. QED
          BY <2>3, <3>2, <3>9, <3>10, <4>1, OwnPart, Zenon DEF o
    <3>12. CASE /\ servers' = [servers EXCEPT ![p] = <<>>]
                /\ forgot' = [forgot EXCEPT ![p] = TRUE]
      <4>1. m \in 0..MaxAdds /\ fds \subseteq 0..(m - 1)
          BY <3>9, Zenon DEF PoolOK
      <4>2. PoolOK(o, <<>>, fds, m, TRUE)
          BY <4>1, EmptyPool
      <4>. QED
          BY <3>2, <3>10, <3>12, <4>2, OwnPart, TRUE \in BOOLEAN, Zenon DEF o
    <3>. QED
        BY <3>3, <3>11, <3>12, Zenon
  <2>8. ASSUME add_fails(p) PROVE PInv'
    <3>1. calls_add(p) /\ UNCHANGED <<order, servers, open, forgot>>
        BY <2>8, Zenon DEF add_fails
    <3>2. n < MaxAdds /\ adds' = [adds EXCEPT ![p] = n + 1]
        BY <2>5, <3>1, Zenon
    <3> HIDE DEF o, array, fds, n, lost
    <3>3. PICK m : m = n + 1
        OBVIOUS
    <3>4. PoolOK(o, array, fds, m, lost)
        BY <2>3, <3>2, <3>3, NothingAdded, Zenon
    <3>5. /\ servers' = [servers EXCEPT ![p] = array]
          /\ open' = [open EXCEPT ![p] = fds] /\ adds' = [adds EXCEPT ![p] = m]
          /\ forgot' = [forgot EXCEPT ![p] = lost] /\ order' = order
        BY <2>4, <3>1, <3>2, <3>3, Zenon
    <3>. QED
        BY <2>3, <3>4, <3>5, OwnPart, Zenon DEF o
  <2>9. ASSUME nmdb_init(p) PROVE PInv'
      BY <2>9, Zenon DEF nmdb_init, PInv
  <2>10. ASSUME nmdb_free(p) PROVE PInv'
    <3> DEFINE rest == fds \ {s.fd : s \in ToSet(array)}
    <3>1. /\ open' = [open EXCEPT ![p] = rest] /\ servers' = [servers EXCEPT ![p] = <<>>]
          /\ order' = order /\ adds' = adds /\ forgot' = forgot
        BY <2>10, Zenon DEF nmdb_free
    <3>2. lost \/ rest = {}
      <4>1. lost \/ \A f \in fds : \E i \in DOMAIN array : array[i].fd = f
          BY <2>3, Zenon DEF PoolOK, SocketsKnown
      <4>2. \A i \in DOMAIN array : array[i] \in ToSet(array)
          BY Zenon DEF ToSet
      <4>. QED
          BY <4>1, <4>2, ZenonT(60)
    <3>3. n \in 0..MaxAdds /\ rest \subseteq 0..(n - 1)
        BY <2>3, Zenon DEF PoolOK
    <3> HIDE DEF o, array, fds, n, lost, rest
    <3>4. PoolOK(o, <<>>, rest, n, lost)
        BY <2>3, <3>2, <3>3, EmptyPool
    <3>5. adds' = [adds EXCEPT ![p] = n] /\ forgot' = [forgot EXCEPT ![p] = lost]
        BY <2>4, <3>1, Zenon
    <3>. QED
        BY <2>3, <3>1, <3>4, <3>5, OwnPart, Zenon DEF o
  <2>. QED
      BY <2>1, <2>6, <2>7, <2>8, <2>9, <2>10, Zenon
<1>. QED
    BY <1>1, <1>2

LEMMA AlwaysPInv == Spec => []PInv
<1>. QED
    BY InitPInv, NextPInv, PTL DEF Spec

(* An array in which each server has a socket of its own has as many       *)
(* sockets as servers.                                                     *)
LEMMA SocketsCounted ==
    ASSUME NEW array \in Seq(Entry), OwnSockets(array)
    PROVE  Cardinality({s.fd : s \in ToSet(array)}) = Len(array)
<1>1. PICK l \in Nat : l = Len(array) /\ DOMAIN array = 1..l
    OBVIOUS
<1> DEFINE D == 1..l
           T == {s.fd : s \in ToSet(array)}
           f == [i \in D |-> array[i].fd]
<1>2. IsFiniteSet(D) /\ Cardinality(D) = l
  <2>1. /\ IsFiniteSet(1..l)
        /\ Cardinality(1..l) = IF 1 > l THEN 0 ELSE l - 1 + 1
      BY FS_Interval
  <2>. QED
      BY <2>1
<1> HIDE DEF D
<1>3. DOMAIN array = D
    BY <1>1 DEF D
<1>4. f \in [D -> T]
    BY <1>3, Zenon DEF ToSet
<1>5. \A t \in T : \E i \in D : f[i] = t
    BY <1>3, Zenon DEF ToSet
<1>6. \A i, j \in D : f[i] = f[j] => i = j
    BY <1>3, Zenon DEF OwnSockets
<1>7. DOMAIN f = D
    OBVIOUS
<1> HIDE DEF T, f
<1>8. f \in Bijection(D, T)
    BY <1>4, <1>5, <1>6, <1>7, Zenon DEF Bijection, Injection, Surjection, IsInjective
<1>9. ExistsBijection(D, T)
    BY <1>8, Zenon DEF ExistsBijection
<1>10. Cardinality(T) = Cardinality(D)
    BY <1>2, <1>9, FS_Bijection
<1>. QED
    BY <1>1, <1>2, <1>10, Zenon DEF T

(* Whatever fails while servers are added, and over nmdb_free and a new    *)
(* nmdb_init, each server of a process has one open descriptor of its own  *)
(* and no other is left open, but for those of an array lost to a failed   *)
(* realloc in add_tcp_server_addr.                                         *)
THEOREM DescriptorsKept == Spec => []NoDescriptorLost
<1>1. ASSUME PInv PROVE NoDescriptorLost
  <2> SUFFICES ASSUME NEW p \in Procs
               PROVE  LET fds == {s.fd : s \in ToSet(servers[p])}
                      IN  /\ Cardinality(fds) = Len(servers[p])
                          /\ fds \subseteq open[p]
                          /\ fds # open[p] => forgot[p]
      BY Zenon DEF NoDescriptorLost
  <2> DEFINE fds == {s.fd : s \in ToSet(servers[p])}
  <2>1. PoolOK(order[p], servers[p], open[p], adds[p], forgot[p])
      BY <1>1, Zenon DEF PInv
  <2>2. servers[p] \in Seq(Entry) /\ OwnSockets(servers[p])
      BY <2>1, Zenon DEF PoolOK
  <2>3. Cardinality(fds) = Len(servers[p])
      BY <2>2, SocketsCounted, Zenon
  <2>4. fds \subseteq open[p]
      BY <2>1, Zenon DEF PoolOK, SocketsOpen, ToSet
  <2>5. forgot[p] \/ open[p] \subseteq fds
      BY <2>1, ZenonT(60) DEF PoolOK, SocketsKnown, ToSet
  <2>. QED
      BY <2>3, <2>4, <2>5, Zenon
<1>. QED
    BY <1>1, AlwaysPInv, PTL


-----------------------------------------------------------------------------
(* The order of the servers determines the array. *)

LEMMA AsReadInjective ==
    ASSUME NEW o, NEW b \in Bytes \X Bytes, NEW c \in Bytes \X Bytes,
           as_read(o, b) = as_read(o, c)
    PROVE  b = c
<1>1. PICK x \in Bytes, y \in Bytes : b = <<x, y>>
    OBVIOUS
<1>2. PICK u \in Bytes, v \in Bytes : c = <<u, v>>
    OBVIOUS
<1>3. b[1] = x /\ b[2] = y /\ c[1] = u /\ c[2] = v
    BY <1>1, <1>2
<1>4. PICK m \in Nat : m = Byte /\ Bytes = 0..(m - 1)
    BY Sizes DEF Bytes
<1>5. x \in Nat /\ y \in Nat /\ u \in Nat /\ v \in Nat
    BY <1>4
<1>6. x = u /\ y = v
  <2>1. CASE o = "little"
    <3>1. x + m * y = u + m * v
        BY <1>3, <1>4, <2>1, Zenon DEF as_read
    <3>2. y * m + x = v * m + u
        BY <1>4, <1>5, <3>1
    <3>. QED
        BY <1>4, <1>5, <3>2, DigitsUnique
  <2>2. CASE o # "little"
    <3>1. m * x + y = m * u + v
        BY <1>3, <1>4, <2>2, Zenon DEF as_read
    <3>2. x * m + y = u * m + v
        BY <1>4, <1>5, <3>1
    <3>. QED
        BY <1>4, <1>5, <3>2, DigitsUnique
  <2>. QED
      BY <2>1, <2>2
<1>. QED
    BY <1>1, <1>2, <1>6

LEMMA AsReadNat ==
    ASSUME NEW o, NEW b \in Bytes \X Bytes
    PROVE  as_read(o, b) \in Nat
<1>1. PICK x \in Bytes, y \in Bytes : b = <<x, y>>
    OBVIOUS
<1>. QED
    BY <1>1, AsReadType

LEMMA IdentFields ==
    ASSUME NEW s \in Idents
    PROVE  /\ s.addr \in Bytes \X Bytes /\ s.port \in Bytes \X Bytes /\ s.type \in Nat
           /\ s = [type |-> s.type, addr |-> s.addr, port |-> s.port]
           /\ s.type = TIPC_CONN => s.addr = <<0, 0>>
<1>1. PICK T : T = TIPC_CONN..SCTP_CONN
    OBVIOUS
<1>2. PICK B : B = Bytes \X Bytes
    OBVIOUS
<1>3. s \in [type : T, addr : B, port : B]
    BY <1>1, <1>2, PoolAssumption, Zenon
<1>4. /\ s.addr \in B /\ s.port \in B /\ s.type \in T
      /\ s = [type |-> s.type, addr |-> s.addr, port |-> s.port]
    BY <1>3
<1>5. T \subseteq Nat
    BY <1>1 DEF TIPC_CONN, SCTP_CONN
<1>6. s.type = TIPC_CONN => s.addr = <<0, 0>>
    BY PoolAssumption, Zenon
<1>. QED
    BY <1>2, <1>4, <1>5, <1>6, Zenon

(* Of two different servers one compares below the other. *)
LEMMA OneIsBelow ==
    ASSUME NEW o, NEW s \in Idents, NEW t \in Idents, s # t
    PROVE  compare_servers(o, s, t) \/ compare_servers(o, t, s)
<1> SUFFICES ASSUME ~compare_servers(o, s, t), ~compare_servers(o, t, s)
             PROVE  s = t
    BY Zenon
<1> DEFINE port(x) == IF x.type = TIPC_CONN THEN as_read("big", x.port)
                                            ELSE as_read(o, x.port)
           addr(x) == as_read(o, x.addr)
<1>0. \A a, b \in Nat : ~(a < b) /\ ~(b < a) => a = b
    OBVIOUS
<1>1. /\ s.addr \in Bytes \X Bytes /\ s.port \in Bytes \X Bytes /\ s.type \in Nat
      /\ t.addr \in Bytes \X Bytes /\ t.port \in Bytes \X Bytes /\ t.type \in Nat
      /\ s = [type |-> s.type, addr |-> s.addr, port |-> s.port]
      /\ t = [type |-> t.type, addr |-> t.addr, port |-> t.port]
      /\ s.type = TIPC_CONN => s.addr = <<0, 0>>
      /\ t.type = TIPC_CONN => t.addr = <<0, 0>>
    BY IdentFields, Zenon
<1>2. port(s) \in Nat /\ port(t) \in Nat /\ addr(s) \in Nat /\ addr(t) \in Nat
    BY <1>1, AsReadNat, Zenon
<1>3. ASSUME NEW x \in {s, t}, NEW y \in {s, t}
      PROVE  compare_servers(o, x, y) <=>
                \/ x.type < y.type
                \/ /\ x.type = y.type
                   /\ \/ x.type # TIPC_CONN /\ addr(x) < addr(y)
                      \/ /\ x.type = TIPC_CONN \/ addr(x) = addr(y)
                         /\ port(x) < port(y)
    BY Zenon DEF compare_servers
<1> HIDE DEF port, addr
<1>4. s.type = t.type
    BY <1>0, <1>1, <1>3, Zenon
<1>5. s.addr = t.addr
  <2>1. CASE s.type = TIPC_CONN
      BY <1>1, <1>4, <2>1, Zenon
  <2>2. CASE s.type # TIPC_CONN
    <3>1. addr(s) = addr(t)
        BY <1>0, <1>2, <1>3, <1>4, <2>2, Zenon
    <3>. QED
        BY <1>1, <3>1, AsReadInjective, Zenon DEF addr
  <2>. QED
      BY <2>1, <2>2
<1>6. s.port = t.port
  <2>1. addr(s) = addr(t)
      BY <1>5, Zenon DEF addr
  <2>2. port(s) = port(t)
      BY <1>0, <1>2, <1>3, <1>4, <2>1, Zenon
  <2>3. CASE s.type = TIPC_CONN
      BY <1>1, <1>4, <2>2, <2>3, AsReadInjective, Zenon DEF port
  <2>4. CASE s.type # TIPC_CONN
      BY <1>1, <1>4, <2>2, <2>4, AsReadInjective, Zenon DEF port
  <2>. QED
      BY <2>3, <2>4
<1>. QED
    BY <1>1, <1>4, <1>5, <1>6, Zenon

places(a, s) == {i \in DOMAIN a : a[i] = s}

(* Of two sorted arrays of the same servers, neither differs from the      *)
(* other first by having a server too many or one that compares below: the *)
(* other array would have that server less often.                          *)
LEMMA NoFirstDifference ==
    ASSUME NEW o, NEW l \in Nat, NEW k \in Nat, NEW a, NEW b,
           DOMAIN a = 1..l, DOMAIN b = 1..k,
           Sorted(o, b),
           NEW i \in 1..l,
           \A j \in 1..(i - 1) : j \in DOMAIN b => a[j] = b[j],
           i \in DOMAIN b => compare_servers(o, a[i], b[i]) /\ a[i] # b[i]
    PROVE  Cardinality(places(a, a[i])) # Cardinality(places(b, a[i]))
<1>1. \A j \in 1..k : j < i => j \in 1..(i - 1) /\ j \in 1..l
    OBVIOUS
<1>2. \A j \in DOMAIN b : j < i => a[j] = b[j] /\ j \in 1..l
    BY <1>1, Zenon
<1>3. ASSUME NEW j \in DOMAIN b, ~(j < i), b[j] = a[i] PROVE FALSE
  <2>1. i \in DOMAIN b /\ (j = i \/ i < j)
      BY <1>3
  <2>2. CASE j = i
      BY <1>3, <2>1, <2>2, Zenon
  <2>3. CASE i < j
      BY <1>3, <2>1, <2>3, Zenon DEF Sorted
  <2>. QED
      BY <2>1, <2>2, <2>3
<1>4. \A j \in DOMAIN b : ~(j < i) => b[j] # a[i]
    BY <1>3, Zenon
<1> DEFINE S == places(a, a[i])
           T == places(b, a[i])
<1>5. IsFiniteSet(S)
  <2>1. IsFiniteSet(1..l)
      BY FS_Interval
  <2>2. S \in SUBSET (1..l)
      BY Zenon DEF places
  <2> HIDE DEF S
  <2>. QED
      BY <2>1, <2>2, FS_Subset
<1>6. T \in SUBSET S
    BY <1>2, <1>4, Zenon DEF places
<1>7. i \in S
    BY Zenon DEF places
<1>8. i \notin T
  <2>1. ~(i < i)
      OBVIOUS
  <2>. QED
      BY <1>4, <2>1, Zenon DEF places
<1> HIDE DEF S, T
<1>9. Cardinality(S) = Cardinality(T) => S = T
    BY <1>5, <1>6, FS_Subset
<1>10. S # T
    BY <1>7, <1>8, Zenon
<1>. QED
    BY <1>9, <1>10, Zenon DEF S, T

LEMMA SortedIsUnique ==
    ASSUME NEW o, NEW l \in Nat, NEW k \in Nat,
           NEW a \in [1..l -> Idents], NEW b \in [1..k -> Idents],
           Sorted(o, a), Sorted(o, b),
           \A s \in Idents : Cardinality(places(a, s)) = Cardinality(places(b, s))
    PROVE  l = k /\ a = b
<1> DEFINE Same(i) == i \in 1..l /\ i \in 1..k /\ a[i] = b[i]
           Bad == {i \in (1..l) \cup (1..k) : ~Same(i)}
<1>0. DOMAIN a = 1..l /\ DOMAIN b = 1..k
    OBVIOUS
<1>1. Bad = {}
  <2> SUFFICES ASSUME Bad # {} PROVE FALSE
      OBVIOUS
  <2>1. PICK i \in Bad : \A x \in Bad : i <= x
    <3>1. Bad \subseteq Nat
        OBVIOUS
    <3> HIDE DEF Bad
    <3>. QED
        BY <3>1, LeastNumber
  <2>2. i \in (1..l) \cup (1..k) /\ ~Same(i)
      BY Zenon
  <2>3. \A j \in 1..(i - 1) : Same(j)
    <3> TAKE j \in 1..(i - 1)
    <3>1. j \in (1..l) \cup (1..k) /\ ~(i <= j)
        BY <2>2
    <3>. QED
        BY <2>1, <3>1, Zenon
  <2>4. \A j \in 1..(i - 1) : a[j] = b[j]
      BY <2>3, Zenon
  <2> HIDE DEF Bad
  <2>5. CASE i \in 1..l /\ i \notin 1..k
    <3>1. Cardinality(places(a, a[i])) # Cardinality(places(b, a[i]))
        BY <1>0, <2>4, <2>5, NoFirstDifference
    <3>. QED
        BY <2>5, <3>1, Zenon
  <2>6. CASE i \in 1..k /\ i \notin 1..l
    <3>1. Cardinality(places(b, b[i])) # Cardinality(places(a, b[i]))
        BY <1>0, <2>4, <2>6, NoFirstDifference
    <3>. QED
        BY <2>6, <3>1, Zenon
  <2>7. CASE i \in 1..l /\ i \in 1..k
    <3>1. a[i] # b[i] /\ a[i] \in Idents /\ b[i] \in Idents
        BY <2>2, <2>7, Zenon
    <3>2. compare_servers(o, a[i], b[i]) \/ compare_servers(o, b[i], a[i])
        BY <3>1, OneIsBelow, Zenon
    <3>3. CASE compare_servers(o, a[i], b[i])
      <4>1. Cardinality(places(a, a[i])) # Cardinality(places(b, a[i]))
          BY <1>0, <2>4, <2>7, <3>1, <3>3, NoFirstDifference
      <4>. QED
          BY <3>1, <4>1, Zenon
    <3>4. CASE compare_servers(o, b[i], a[i])
      <4>1. Cardinality(places(b, b[i])) # Cardinality(places(a, b[i]))
          BY <1>0, <2>4, <2>7, <3>1, <3>4, NoFirstDifference
      <4>. QED
          BY <3>1, <4>1, Zenon
    <3>. QED
        BY <3>2, <3>3, <3>4
  <2>. QED
      BY <2>2, <2>5, <2>6, <2>7, Zenon
<1>2. \A i \in (1..l) \cup (1..k) : Same(i)
    BY <1>1, Zenon
<1>3. l = k
  <2>1. l \in (1..l) \cup (1..k) => l \in 1..k
      BY <1>2, Zenon
  <2>2. k \in (1..l) \cup (1..k) => k \in 1..l
      BY <1>2, Zenon
  <2>. QED
      BY <2>1, <2>2
<1>4. \A i \in 1..l : a[i] = b[i]
    BY <1>2, Zenon
<1>. QED
    BY <1>3, <1>4


(* Servers are compared by type, address and port. *)
LEMMA PoolFields ==
    ASSUME NEW e \in Entry
    PROVE  /\ ident(e) \in Idents
           /\ ident(e).type = e.type /\ ident(e).addr = e.addr /\ ident(e).port = e.port
BY Zenon DEF Entry, ident

LEMMA ComparesIdents ==
    ASSUME NEW o, NEW d \in Entry, NEW e \in Entry
    PROVE  compare_servers(o, ident(d), ident(e)) <=> compare_servers(o, d, e)
<1>1. /\ ident(e).type = e.type /\ ident(e).addr = e.addr /\ ident(e).port = e.port
      /\ ident(d).type = d.type /\ ident(d).addr = d.addr /\ ident(d).port = d.port
    BY PoolFields, Zenon
<1>. QED
    BY <1>1 DEF compare_servers

(* What a process's array is, by the servers in it. *)
LEMMA PoolOfIdents ==
    ASSUME PInv, NEW p \in Procs
    PROVE  /\ Len(servers[p]) \in Nat /\ DOMAIN servers[p] = 1..Len(servers[p])
           /\ pool(p) \in [1..Len(servers[p]) -> Idents]
           /\ Sorted(order[p], pool(p))
           /\ \A s \in Idents : given(p)[s] = Cardinality(places(pool(p), s))
<1> DEFINE array == servers[p]
<1>1. array \in Seq(Entry) /\ Sorted(order[p], array)
    BY Zenon DEF PInv, PoolOK
<1>2. PICK l \in Nat : l = Len(array) /\ DOMAIN array = 1..l
    BY <1>1
<1>3. \A i \in 1..l : array[i] \in Entry
    BY <1>1, <1>2
<1>4. pool(p) = [i \in 1..l |-> ident(array[i])]
    BY <1>2, Zenon DEF pool
<1>5. pool(p) \in [1..l -> Idents]
  <2>1. \A i \in 1..l : ident(array[i]) \in Idents
      BY <1>3, PoolFields, Zenon
  <2>. QED
      BY <1>4, <2>1, Zenon
<1>6. DOMAIN pool(p) = 1..l
    BY <1>4, Zenon
<1>7. Sorted(order[p], pool(p))
  <2> SUFFICES ASSUME NEW i \in 1..l, NEW j \in 1..l, i < j
               PROVE  ~compare_servers(order[p], pool(p)[j], pool(p)[i])
      BY <1>6, Zenon DEF Sorted
  <2>1. ~compare_servers(order[p], array[j], array[i])
      BY <1>1, <1>2, Zenon DEF Sorted
  <2>2. pool(p)[j] = ident(array[j]) /\ pool(p)[i] = ident(array[i])
      BY <1>4, Zenon
  <2>. QED
      BY <1>3, <2>1, <2>2, ComparesIdents, Zenon
<1>8. \A s \in Idents : given(p)[s] = Cardinality(places(pool(p), s))
  <2> TAKE s \in Idents
  <2>1. {i \in DOMAIN array : pool(p)[i] = s} = places(pool(p), s)
      BY <1>2, <1>6, Zenon DEF places
  <2>. QED
      BY <2>1, Zenon DEF given
<1>. QED
    BY <1>2, <1>5, <1>7, <1>8, Zenon

(* Processes on machines of one byte order that were given the same        *)
(* servers, in whatever order, over whatever failed attempts, and even if  *)
(* one was given twice, have the same array of servers, and take the same  *)
(* server for every key.                                                   *)
THEOREM ProcessesAgree == Spec => []AgreeOnServers
<1>1. ASSUME PInv PROVE AgreeOnServers
  <2> SUFFICES ASSUME NEW p \in Procs, NEW q \in Procs, order[p] = order[q],
                      servers[p] # <<>>, given(p) = given(q), NEW k \in Keys
               PROVE  pool(p)[select_srv(p, k)] = pool(q)[select_srv(q, k)]
      BY Zenon DEF AgreeOnServers
  <2>1. PICK l \in Nat : l = Len(servers[p]) /\ DOMAIN servers[p] = 1..l
      BY <1>1, PoolOfIdents, Zenon
  <2>2. PICK m \in Nat : m = Len(servers[q]) /\ DOMAIN servers[q] = 1..m
      BY <1>1, PoolOfIdents, Zenon
  <2>3. /\ pool(p) \in [1..l -> Idents] /\ Sorted(order[p], pool(p))
        /\ \A s \in Idents : given(p)[s] = Cardinality(places(pool(p), s))
      BY <1>1, <2>1, PoolOfIdents, Zenon
  <2>4. /\ pool(q) \in [1..m -> Idents] /\ Sorted(order[p], pool(q))
        /\ \A s \in Idents : given(q)[s] = Cardinality(places(pool(q), s))
      BY <1>1, <2>2, PoolOfIdents, Zenon
  <2>5. \A s \in Idents : Cardinality(places(pool(p), s)) = Cardinality(places(pool(q), s))
      BY <2>3, <2>4, Zenon
  <2>6. l = m /\ pool(p) = pool(q)
      BY <2>3, <2>4, <2>5, SortedIsUnique
  <2>7. servers[q] # <<>>
    <3>1. servers[p] \in Seq(Entry) /\ servers[q] \in Seq(Entry)
        BY <1>1, Zenon DEF PInv
    <3>2. l # 0
        BY <2>1, <3>1
    <3>. QED
        BY <2>2, <2>6, <3>2
  <2>8. select_srv(p, k) = select_srv(q, k)
      BY <2>1, <2>2, <2>6, <2>7, Zenon DEF select_srv
  <2>. QED
      BY <2>6, <2>8, Zenon
<1>. QED
    BY <1>1, AlwaysPInv, PTL

=============================================================================
