----------------------------- MODULE TcpProofs -----------------------------
(***************************************************************************)
(* Proofs about Tcp: what a message's length is read back as, the types    *)
(* and the reads for every client, and the order of requests and replies   *)
(* for a client that waits for each reply.                                 *)
(***************************************************************************)
EXTENDS Tcp, SequenceTheorems, WellFoundedInduction, TLAPS

(* A non-empty set of numbers has a least one. *)
LEMMA LeastNumber ==
    ASSUME NEW S, S \subseteq Nat, S # {}
    PROVE  \E n \in S : \A x \in S : n <= x
<1> DEFINE R == OpToRel(<, Nat)
<1>1. \A m, n \in Nat : m < n => <<m, n>> \in R
    BY Zenon DEF OpToRel
<1>2. IsWellFoundedOn(R, Nat)
    BY NatLessThanWellFounded, Zenon
<1> HIDE DEF R
<1>3. PICK n \in S : \A m \in S : <<m, n>> \notin R
    BY <1>2, WFMin, Zenon
<1>4. \A m \in S : ~(m < n)
    BY <1>1, <1>3, Zenon
<1>5. \A m \in S : n <= m
    BY <1>4
<1>. QED
    BY <1>5

(* A function can be defined by its value at 0 and a step h from each      *)
(* value to the next.  By the least length for which it could not.         *)
LEMMA StepByStep ==
    ASSUME NEW N \in Nat, NEW a \in Nat,
           NEW h \in [Nat -> [Nat -> Nat]]
    PROVE  \E f \in [0..N -> Nat] :
              f[0] = a /\ \A n \in 1..N : f[n] = h[n][f[n - 1]]
<1> DEFINE Solves(f, m) == /\ f \in [0..m -> Nat] /\ f[0] = a
                           /\ \A n \in 1..m : f[n] = h[n][f[n - 1]]
           Bad == {m \in Nat : ~\E f : Solves(f, m)}
<1>1. Bad = {}
  <2> SUFFICES ASSUME Bad # {} PROVE FALSE
      OBVIOUS
  <2>1. PICK m \in Bad : \A x \in Bad : m <= x
    <3>1. Bad \subseteq Nat
        OBVIOUS
    <3> HIDE DEF Bad
    <3>. QED
        BY <3>1, LeastNumber
  <2>2. m \in Nat /\ ~\E f : Solves(f, m)
      OBVIOUS
  <2> HIDE DEF Bad
  <2>3. CASE m = 0
    <3>1. Solves([n \in 0..0 |-> a], 0)
        OBVIOUS
    <3>. QED
        BY <2>2, <2>3, <3>1
  <2>4. CASE m # 0
    <3>1. m - 1 \in Nat /\ ~(m <= m - 1)
        BY <2>2, <2>4
    <3>2. m - 1 \notin Bad
        BY <2>1, <3>1, Zenon
    <3>3. PICK f : Solves(f, m - 1)
        BY <3>1, <3>2, Zenon DEF Bad
    <3>a. f \in [0..(m - 1) -> Nat] /\ f[0] = a
        BY <3>3, Zenon
    <3>b. \A n \in 1..(m - 1) : f[n] = h[n][f[n - 1]]
        BY <3>3, Zenon
    <3>4. f[m - 1] \in Nat /\ h[m][f[m - 1]] \in Nat
      <4>1. m - 1 \in 0..(m - 1)
          BY <3>1
      <4>2. f[m - 1] \in Nat
          BY <3>a, <4>1, Zenon
      <4>. QED
          BY <2>2, <4>2, Zenon
    <3> DEFINE g == [n \in 0..m |-> IF n = m THEN h[m][f[m - 1]] ELSE f[n]]
    <3>5. g \in [0..m -> Nat] /\ g[0] = a
      <4>1. \A n \in 0..m : n # m => n \in 0..(m - 1)
          BY <2>2
      <4>2. \A n \in 0..m : n # m => f[n] \in Nat
          BY <3>a, <4>1, Zenon
      <4>3. 0 \in 0..m /\ 0 # m
          BY <2>2, <2>4
      <4>. QED
          BY <3>a, <3>4, <4>2, <4>3, Zenon
    <3>6. ASSUME NEW n \in 1..m
          PROVE  g[n] = h[n][g[n - 1]]
      <4>1. n - 1 \in 0..m /\ n - 1 # m
          BY <2>2
      <4>2. g[n - 1] = f[n - 1]
          BY <4>1
      <4>3. CASE n = m
          BY <4>2, <4>3
      <4>4. CASE n # m
        <5>1. n \in 1..(m - 1)
            BY <2>2, <4>4
        <5>2. f[n] = h[n][f[n - 1]]
            BY <3>b, <5>1, Zenon
        <5>3. n \in 0..m
            BY <2>2
        <5>4. g[n] = f[n]
            BY <4>4, <5>3, Zenon
        <5>. QED
            BY <4>2, <5>2, <5>4, Zenon
      <4>. QED
          BY <4>3, <4>4
    <3> HIDE DEF g
    <3>7. Solves(g, m)
        BY <3>5, <3>6
    <3>. QED
        BY <2>2, <3>7
  <2>. QED
      BY <2>3, <2>4
<1>2. PICK f : Solves(f, N)
    BY <1>1
<1>. QED
    BY <1>2

-----------------------------------------------------------------------------
(* Lengths as digits. *)

LEMMA Division ==
    ASSUME NEW n \in Nat
    PROVE  /\ n \div Base \in Nat /\ n % Base \in 0..(Base - 1)
           /\ n = (n \div Base) * Base + (n % Base)
BY BodiesAssumption, SMTT(30)

(* shifted is what its definition says. *)
LEMMA Shifted ==
    ASSUME NEW n \in Nat
    PROVE  /\ shifted(n) \in [0..HdrLen -> Nat]
           /\ shifted(n)[0] = n
           /\ \A i \in 1..HdrLen : shifted(n)[i] = shifted(n)[i - 1] \div Base
<1> DEFINE F(f) == [i \in 0..HdrLen |-> IF i = 0 THEN n ELSE f[i - 1] \div Base]
           h == [i \in Nat |-> [x \in Nat |-> x \div Base]]
<1>1. h \in [Nat -> [Nat -> Nat]]
    BY Division
<1>2. HdrLen \in Nat
    BY SizesAssumption
<1> HIDE DEF h
<1>3. PICK f \in [0..HdrLen -> Nat] :
         f[0] = n /\ \A i \in 1..HdrLen : f[i] = h[i][f[i - 1]]
    BY <1>1, <1>2, StepByStep, ZenonT(60)
<1>4. ASSUME NEW i \in 1..HdrLen PROVE f[i] = f[i - 1] \div Base
  <2>1. i \in Nat /\ f[i - 1] \in Nat
      BY <1>2, <1>3
  <2>2. h[i][f[i - 1]] = f[i - 1] \div Base
      BY <2>1, Zenon DEF h
  <2>. QED
      BY <1>3, <2>2, Zenon
<1>5. f = F(f)
  <2>1. \A i \in 0..HdrLen : f[i] = F(f)[i]
      BY <1>2, <1>3, <1>4
  <2>2. F(f) = [i \in 0..HdrLen |-> F(f)[i]] /\ f = [i \in 0..HdrLen |-> f[i]]
      OBVIOUS
  <2> HIDE DEF F
  <2>. QED
      BY <2>1, <2>2, Zenon
<1>6. shifted(n) = F(shifted(n))
  <2>1. shifted(n) = CHOOSE f_1 : f_1 = F(f_1)
      BY DEF shifted
  <2> HIDE DEF F
  <2>. QED
      BY <1>5, <2>1, Zenon
<1>7. shifted(n)[0] = n /\ \A i \in 1..HdrLen : shifted(n)[i] = shifted(n)[i - 1] \div Base
    BY <1>2, <1>6
<1>8. \A i \in 0..HdrLen : shifted(n)[i] = f[i]
  <2> DEFINE Bad == {i \in 0..HdrLen : shifted(n)[i] # f[i]}
  <2> SUFFICES ASSUME Bad # {} PROVE FALSE
      OBVIOUS
  <2>1. PICK i \in Bad : \A x \in Bad : i <= x
    <3>1. Bad \subseteq Nat
        BY <1>2
    <3> HIDE DEF Bad
    <3>. QED
        BY <3>1, LeastNumber
  <2>2. i # 0
      BY <1>3, <1>7
  <2>3. i \in 1..HdrLen /\ i - 1 \in 0..HdrLen /\ ~(i <= i - 1)
      BY <1>2, <2>2
  <2>4. i - 1 \notin Bad
      BY <2>1, <2>3, Zenon
  <2>. QED
      BY <1>4, <1>7, <2>1, <2>3, <2>4
<1>9. shifted(n) \in [0..HdrLen -> Nat]
    BY <1>3, <1>6, <1>8
<1>. QED
    BY <1>7, <1>9

(* number is what its definition says. *)
LEMMA Number ==
    ASSUME NEW b, \A i \in 1..HdrLen : b[i] \in Nat
    PROVE  /\ number(b) \in [0..HdrLen -> Nat]
           /\ number(b)[0] = 0
           /\ \A i \in 1..HdrLen : number(b)[i] = number(b)[i - 1] * Base + b[i]
<1> DEFINE F(f) == [i \in 0..HdrLen |-> IF i = 0 THEN 0 ELSE f[i - 1] * Base + b[i]]
           digit(i) == IF i \in 1..HdrLen THEN b[i] ELSE 0
           h == [i \in Nat |-> [x \in Nat |-> x * Base + digit(i)]]
<1>1. \A i \in Nat : digit(i) \in Nat
    OBVIOUS
<1>2. HdrLen \in Nat /\ Base \in Nat
    BY SizesAssumption, BodiesAssumption
<1>3. PICK f \in [0..HdrLen -> Nat] :
         f[0] = 0 /\ \A i \in 1..HdrLen : f[i] = h[i][f[i - 1]]
  <2>1. \A i \in Nat, x \in Nat : x * Base + digit(i) \in Nat
    <3> HIDE DEF digit
    <3>. QED
        BY <1>1, <1>2
  <2>2. h \in [Nat -> [Nat -> Nat]]
      BY <2>1
  <2> HIDE DEF h
  <2>. QED
      BY <1>2, <2>2, StepByStep, 0 \in Nat, ZenonT(60)
<1>4. ASSUME NEW i \in 1..HdrLen PROVE f[i] = f[i - 1] * Base + b[i]
  <2>1. i \in Nat /\ f[i - 1] \in Nat /\ digit(i) = b[i]
      BY <1>2, <1>3
  <2> HIDE DEF digit
  <2>2. h[i][f[i - 1]] = f[i - 1] * Base + digit(i)
      BY <2>1, Zenon DEF h
  <2> HIDE DEF h
  <2>. QED
      BY <1>3, <2>1, <2>2, Zenon
<1> HIDE DEF h
<1>5. f = F(f)
  <2>1. \A i \in 0..HdrLen : f[i] = F(f)[i]
      BY <1>2, <1>3, <1>4
  <2>2. F(f) = [i \in 0..HdrLen |-> F(f)[i]] /\ f = [i \in 0..HdrLen |-> f[i]]
      OBVIOUS
  <2> HIDE DEF F
  <2>. QED
      BY <2>1, <2>2, Zenon
<1>6. number(b) = F(number(b))
  <2>1. number(b) = CHOOSE f_1 : f_1 = F(f_1)
      BY DEF number
  <2> HIDE DEF F
  <2>. QED
      BY <1>5, <2>1, Zenon
<1>7. number(b)[0] = 0 /\ \A i \in 1..HdrLen : number(b)[i] = number(b)[i - 1] * Base + b[i]
    BY <1>2, <1>6
<1>8. \A i \in 0..HdrLen : number(b)[i] = f[i]
  <2> DEFINE Bad == {i \in 0..HdrLen : number(b)[i] # f[i]}
  <2> SUFFICES ASSUME Bad # {} PROVE FALSE
      OBVIOUS
  <2>1. PICK i \in Bad : \A x \in Bad : i <= x
    <3>1. Bad \subseteq Nat
        BY <1>2
    <3> HIDE DEF Bad
    <3>. QED
        BY <3>1, LeastNumber
  <2>2. i # 0
      BY <1>3, <1>7
  <2>3. i \in 1..HdrLen /\ i - 1 \in 0..HdrLen /\ ~(i <= i - 1)
      BY <1>2, <2>2
  <2>4. i - 1 \notin Bad
      BY <2>1, <2>3, Zenon
  <2>. QED
      BY <1>4, <1>7, <2>1, <2>3, <2>4
<1>9. number(b) \in [0..HdrLen -> Nat]
    BY <1>3, <1>6, <1>8
<1>. QED
    BY <1>7, <1>9

(* htonl makes HdrLen digits. *)
LEMMA HtonlType ==
    ASSUME NEW n \in Nat
    PROVE  htonl(n) \in Bytes /\ Len(htonl(n)) = HdrLen
<1>1. HdrLen \in Nat /\ Base \in Nat
    BY SizesAssumption, BodiesAssumption
<1>2. \A i \in 1..HdrLen : shifted(n)[HdrLen - i] \in Nat
    BY <1>1, Shifted
<1>3. \A i \in 1..HdrLen : shifted(n)[HdrLen - i] % Base \in 0..(Base - 1)
    BY <1>2, Division
<1>. QED
    BY <1>1, <1>3 DEF htonl, Bytes

(* A length that fits is read back as it was written. *)
LEMMA NtohlHtonl ==
    ASSUME NEW n \in Nat, fits(n), NEW b, \A i \in 1..HdrLen : b[i] = htonl(n)[i]
    PROVE  ntohl(b) = n
<1> DEFINE s == shifted(n)
           v == number(b)
           Bad == {i \in 0..HdrLen : v[i] # s[HdrLen - i]}
<1>1. HdrLen \in Nat /\ Base \in Nat
    BY SizesAssumption, BodiesAssumption
<1>2. /\ s \in [0..HdrLen -> Nat] /\ s[0] = n /\ s[HdrLen] = 0
      /\ \A i \in 1..HdrLen : s[i] = s[i - 1] \div Base
    BY Shifted DEF fits
<1>3. \A i \in 1..HdrLen : b[i] = s[HdrLen - i] % Base
    BY DEF htonl
<1>4. \A i \in 1..HdrLen : b[i] \in Nat
  <2>1. htonl(n) \in Seq(0..(Base - 1)) /\ Len(htonl(n)) = HdrLen
      BY HtonlType DEF Bytes
  <2>2. \A i \in 1..HdrLen : htonl(n)[i] \in 0..(Base - 1)
      BY <2>1, ElementOfSeq
  <2>. QED
      BY <1>1, <2>2
<1>5. /\ v \in [0..HdrLen -> Nat] /\ v[0] = 0
      /\ \A i \in 1..HdrLen : v[i] = v[i - 1] * Base + b[i]
    BY <1>4, Number
<1> HIDE DEF s, v
<1>6. Bad = {}
  <2> SUFFICES ASSUME Bad # {} PROVE FALSE
      OBVIOUS
  <2>1. PICK i \in Bad : \A x \in Bad : i <= x
    <3>1. Bad \subseteq Nat
        BY <1>1
    <3> HIDE DEF Bad
    <3>. QED
        BY <3>1, LeastNumber
  <2>2. i # 0
      BY <1>1, <1>2, <1>5
  <2>3. i \in 1..HdrLen /\ i - 1 \in 0..HdrLen /\ ~(i <= i - 1)
      BY <1>1, <2>2
  <2>4. v[i - 1] = s[HdrLen - (i - 1)]
      BY <2>1, <2>3, Zenon
  <2>5. HdrLen - (i - 1) \in 1..HdrLen /\ (HdrLen - (i - 1)) - 1 = HdrLen - i
        /\ s[HdrLen - i] \in Nat
      BY <1>1, <1>2, <2>3
  <2>6. s[HdrLen - (i - 1)] = s[HdrLen - i] \div Base
      BY <1>2, <2>5
  <2>7. s[HdrLen - i] = (s[HdrLen - i] \div Base) * Base + (s[HdrLen - i] % Base)
      BY <2>5, Division
  <2>8. v[i] = v[i - 1] * Base + b[i] /\ b[i] = s[HdrLen - i] % Base
      BY <1>3, <1>5, <2>3, Zenon
  <2>9. v[i] = s[HdrLen - i]
      BY <2>4, <2>6, <2>7, <2>8, Zenon
  <2>. QED
      BY <2>9
<1>7. v[HdrLen] = s[HdrLen - HdrLen]
    BY <1>1, <1>6
<1>. QED
    BY <1>1, <1>2, <1>7 DEF ntohl, v

(* What ntohl reads from bytes is a number. *)
LEMMA NtohlType ==
    ASSUME NEW b \in Bytes, Len(b) >= HdrLen
    PROVE  ntohl(b) \in Nat
<1>1. HdrLen \in Nat /\ Base \in Nat
    BY SizesAssumption, BodiesAssumption
<1>2. \A i \in 1..HdrLen : b[i] \in Nat
    BY <1>1 DEF Bytes
<1>3. number(b) \in [0..HdrLen -> Nat]
    BY <1>2, Number
<1>4. HdrLen \in 0..HdrLen
    BY <1>1
<1>. QED
    BY <1>3, <1>4, Zenon DEF ntohl

-----------------------------------------------------------------------------
(* Parts of sequences. *)

LEMMA TakeDrop ==
    ASSUME NEW S, NEW s \in Seq(S), NEW n \in 0..Len(s)
    PROVE  /\ take(s, n) \in Seq(S) /\ Len(take(s, n)) = n
           /\ drop(s, n) \in Seq(S) /\ Len(drop(s, n)) = Len(s) - n
           /\ take(s, n) \o drop(s, n) = s
<1>1. /\ take(s, n) \in Seq(S) /\ Len(take(s, n)) = n
      /\ \A i \in 1..n : take(s, n)[i] = s[i]
    BY DEF take
<1>2. /\ drop(s, n) \in Seq(S) /\ Len(drop(s, n)) = Len(s) - n
      /\ \A i \in 1..(Len(s) - n) : drop(s, n)[i] = s[n + i]
    BY DEF drop
<1>3. take(s, n) \o drop(s, n) = s
  <2> DEFINE t == take(s, n)
             d == drop(s, n)
  <2> HIDE DEF t, d
  <2>1. /\ t \in Seq(S) /\ Len(t) = n /\ \A i \in 1..n : t[i] = s[i]
        /\ d \in Seq(S) /\ Len(d) = Len(s) - n
        /\ \A i \in 1..(Len(s) - n) : d[i] = s[n + i]
      BY <1>1, <1>2 DEF t, d
  <2>2. t \o d \in Seq(S) /\ Len(t \o d) = Len(s)
      BY <2>1, SMTT(40)
  <2>3. \A i \in 1..Len(s) : (t \o d)[i] = s[i]
    <3> TAKE i \in 1..Len(s)
    <3>0. i \in Nat /\ n \in Nat
        OBVIOUS
    <3>1. CASE i <= n
        BY <2>1, <3>0, <3>1
    <3>2. CASE i > n
      <4>1. i - n \in 1..(Len(s) - n) /\ n + (i - n) = i
          BY <3>2
      <4>2. (t \o d)[i] = d[i - n]
          BY <2>1, <3>2
      <4>. QED
          BY <2>1, <4>1, <4>2
    <3>3. i <= n \/ i > n
        BY <3>0
    <3>. QED
        BY <3>1, <3>2, <3>3, Zenon
  <2>4. t \o d = s
      BY <2>2, <2>3, SeqEqual
  <2>. QED
      BY <2>4 DEF t, d
<1>. QED
    BY <1>1, <1>2, <1>3

LEMMA Longer ==
    ASSUME NEW s \in Bytes, NEW t \in Bytes
    PROVE  /\ s \o t \in Bytes /\ Len(s \o t) = Len(s) + Len(t)
           /\ \A i \in 1..Len(s) : (s \o t)[i] = s[i]
           /\ \A i \in 1..Len(t) : (s \o t)[Len(s) + i] = t[i]
BY DEF Bytes

LEMMA FrameType ==
    ASSUME NEW b \in Bytes
    PROVE  /\ frame(b) \in Bytes /\ Len(frame(b)) = HdrLen + Len(b)
           /\ \A i \in 1..HdrLen : frame(b)[i] = htonl(HdrLen + Len(b))[i]
           /\ \A i \in 1..Len(b) : frame(b)[HdrLen + i] = b[i]
<1>1. HdrLen + Len(b) \in Nat
    BY SizesAssumption DEF Bytes
<1>2. htonl(HdrLen + Len(b)) \in Bytes /\ Len(htonl(HdrLen + Len(b))) = HdrLen
    BY <1>1, HtonlType
<1>3. PICK h \in Bytes : h = htonl(HdrLen + Len(b))
    BY <1>2, Zenon
<1>4. frame(b) = h \o b /\ Len(h) = HdrLen
    BY <1>2, <1>3, Zenon DEF frame
<1>5. /\ h \o b \in Bytes /\ Len(h \o b) = Len(h) + Len(b)
      /\ \A i \in 1..Len(h) : (h \o b)[i] = h[i]
      /\ \A i \in 1..Len(b) : (h \o b)[Len(h) + i] = b[i]
    BY Longer
<1>. QED
    BY <1>3, <1>4, <1>5, Zenon

(* The first bytes of a message are enough to tell its length. *)
LEMMA FrameLength ==
    ASSUME NEW b \in Bytes, fits(HdrLen + Len(b)), NEW w \in Bytes, NEW rest \in Bytes,
           w \o rest = frame(b), Len(w) >= HdrLen
    PROVE  ntohl(w) = HdrLen + Len(b)
<1>1. HdrLen + Len(b) \in Nat /\ HdrLen \in Nat /\ Len(w) \in Nat
    BY SizesAssumption DEF Bytes
<1>2. \A i \in 1..HdrLen : i \in 1..Len(w)
    BY <1>1
<1>3. \A i \in 1..HdrLen : w[i] = htonl(HdrLen + Len(b))[i]
  <2>1. \A i \in 1..Len(w) : (w \o rest)[i] = w[i]
      BY Longer, Zenon
  <2>2. \A i \in 1..HdrLen : frame(b)[i] = htonl(HdrLen + Len(b))[i]
      BY FrameType, Zenon
  <2>. QED
      BY <1>2, <2>1, <2>2, Zenon
<1>. QED
    BY <1>1, <1>3, NtohlHtonl

LEMMA ErrVerType == ErrVer \in Bytes /\ Len(ErrVer) = 2
BY DigitsAssumption, BodiesAssumption DEF ErrVer, Bytes

(* What a request of an admissible size is answered. *)
LEMMA AnswerType ==
    ASSUME NEW b \in Bytes, Len(b) \in 1..(MaxLen - HdrLen)
    PROVE  /\ answer(b) \in Bytes /\ Len(answer(b)) \in Nat
           /\ fits(HdrLen + Len(answer(b)))
           /\ b[1] = VER =>
                /\ Len(answer(b)) = HdrLen + Len(b)
                /\ answer(b)[1] = REP_OK
                /\ \A i \in 1..HdrLen : answer(b)[1 + i] = htonl(Len(b) - 1)[i]
<1>1. /\ HdrLen \in Nat \ {0} /\ MaxLen \in Nat /\ HdrLen < MaxLen
      /\ Base \in Nat /\ Len(b) \in Nat
    BY SizesAssumption, BodiesAssumption
<1>2. CASE b[1] = VER
  <2>1. Len(b) - 1 \in Nat
      BY <1>1
  <2>2. PICK h \in Bytes : h = htonl(Len(b) - 1) /\ Len(h) = HdrLen
      BY <2>1, HtonlType
  <2>3. PICK c \in Bytes : c = <<REP_OK>> /\ Len(c) = 1 /\ c[1] = REP_OK
    <3>1. /\ <<REP_OK>> \in Bytes /\ Len(<<REP_OK>>) = 1
          /\ <<REP_OK>>[1] = REP_OK
        BY BodiesAssumption DEF REP_OK, Bytes
    <3>. QED
        BY <3>1, Zenon
  <2>4. PICK t \in Bytes : t = Tail(b) /\ Len(t) = Len(b) - 1
    <3>1. Tail(b) \in Bytes /\ Len(Tail(b)) = Len(b) - 1
        BY DEF Bytes
    <3>. QED
        BY <3>1, Zenon
  <2>5. PICK ch \in Bytes : /\ ch = c \o h /\ Len(ch) = 1 + HdrLen
                            /\ ch[1] = REP_OK
                            /\ \A i \in 1..HdrLen : ch[1 + i] = h[i]
    <3>1. /\ c \o h \in Bytes /\ Len(c \o h) = Len(c) + Len(h)
          /\ \A i \in 1..Len(c) : (c \o h)[i] = c[i]
          /\ \A i \in 1..Len(h) : (c \o h)[Len(c) + i] = h[i]
        BY Longer
    <3>2. 1 \in 1..1
        OBVIOUS
    <3>. QED
        BY <2>2, <2>3, <3>1, <3>2, Zenon
  <2>6. answer(b) = ch \o t
      BY <1>2, <2>2, <2>3, <2>4, <2>5, Zenon DEF answer
  <2>7. /\ ch \o t \in Bytes /\ Len(ch \o t) = (1 + HdrLen) + (Len(b) - 1)
        /\ \A i \in 1..(1 + HdrLen) : (ch \o t)[i] = ch[i]
    <3>1. /\ ch \o t \in Bytes /\ Len(ch \o t) = Len(ch) + Len(t)
          /\ \A i \in 1..Len(ch) : (ch \o t)[i] = ch[i]
        BY Longer
    <3>. QED
        BY <2>4, <2>5, <3>1, Zenon
  <2>8. 1 \in 1..(1 + HdrLen) /\ \A i \in 1..HdrLen : 1 + i \in 1..(1 + HdrLen)
      BY <1>1
  <2>9. /\ answer(b)[1] = REP_OK
        /\ \A i \in 1..HdrLen : answer(b)[1 + i] = htonl(Len(b) - 1)[i]
      BY <2>2, <2>5, <2>6, <2>7, <2>8, Zenon
  <2>10. (1 + HdrLen) + (Len(b) - 1) = HdrLen + Len(b)
      BY <1>1
  <2>11. answer(b) \in Bytes /\ Len(answer(b)) = HdrLen + Len(b)
      BY <2>6, <2>7, <2>10, Zenon
  <2>12. HdrLen + Len(b) \in Nat /\ HdrLen + (HdrLen + Len(b)) \in 0..(MaxLen + HdrLen)
      BY <1>1
  <2>. QED
      BY <2>9, <2>11, <2>12, DigitsAssumption, Zenon
<1>3. CASE b[1] # VER
  <2>1. answer(b) = ErrVer
      BY <1>3 DEF answer
  <2>2. HdrLen + 2 \in 0..(MaxLen + HdrLen)
      BY <1>1
  <2>. QED
      BY <1>3, <2>1, <2>2, ErrVerType, DigitsAssumption
<1>. QED
    BY <1>2, <1>3

-----------------------------------------------------------------------------
(* Types, for every client. *)

Sizes ==
    /\ \A i \in DOMAIN owed : Len(owed[i]) \in 1..(MaxLen - HdrLen)
    /\ cbuf # <<>> => Len(replies) < Len(sent)
    /\ replies \in Seq({replies[i] : i \in DOMAIN replies})

TypeInv == TypeOK /\ Sizes /\ ReadsMakeProgress

(* A whole message in process_buf. *)
LEMMA WholeMessage ==
    ASSUME TypeInv, work # <<>>, ~bad_length, totaltoget <= Len(work)
    PROVE  /\ Len(work) >= HdrLen /\ totaltoget = ntohl(work)
           /\ totaltoget \in (MinLen + 1)..MaxLen
           /\ body_of(work) \in Bytes
           /\ Len(body_of(work)) = totaltoget - HdrLen
           /\ Len(body_of(work)) \in 1..(MaxLen - HdrLen)
<1>1. work \in Bytes /\ Len(work) \in Nat /\ HdrLen \in Nat /\ MinLen \in Nat
      /\ MaxLen \in Nat /\ HdrLen <= MinLen
    BY SizesAssumption DEF TypeInv, TypeOK, Bytes
<1>2. Len(work) >= HdrLen /\ totaltoget = ntohl(work)
    BY <1>1 DEF totaltoget
<1>3. ntohl(work) \in Nat
    BY <1>1, <1>2, NtohlType
<1>4. totaltoget \in (MinLen + 1)..MaxLen
    BY <1>1, <1>2, <1>3 DEF bad_length
<1> DEFINE t == totaltoget
<1> HIDE DEF t
<1>5. t \in (MinLen + 1)..MaxLen /\ t <= Len(work)
    BY <1>4 DEF t
<1>6. /\ SubSeq(work, HdrLen + 1, t) \in Bytes
      /\ Len(SubSeq(work, HdrLen + 1, t)) = t - HdrLen
  <2>1. HdrLen + 1 \in 1..(Len(work) + 1) /\ t \in HdrLen..Len(work)
        /\ (HdrLen + 1) - 1 = HdrLen /\ t - (HdrLen + 1) + 1 = t - HdrLen
      BY <1>1, <1>5
  <2>2. \A i \in (HdrLen + 1)..t : work[i] \in 0..(Base - 1)
    <3>1. \A i \in (HdrLen + 1)..t : i \in 1..Len(work)
        BY <1>1, <1>5
    <3>2. \A i \in 1..Len(work) : work[i] \in 0..(Base - 1)
      <4>1. work \in Seq(0..(Base - 1))
          BY <1>1, Zenon DEF Bytes
      <4>. QED
          BY <4>1, ElementOfSeq, Zenon
    <3>. QED
        BY <3>1, <3>2, Zenon
  <2>3. /\ SubSeq(work, HdrLen + 1, t) \in Seq(0..(Base - 1))
        /\ Len(SubSeq(work, HdrLen + 1, t)) = t - (HdrLen + 1) + 1
    <3>1. HdrLen + 1 \in Int /\ t \in Int /\ HdrLen + 1 <= t
        BY <1>1, <1>5
    <3>. QED
        BY <2>2, <3>1, SubSeqProperties
  <2>. QED
      BY <2>1, <2>3 DEF Bytes
<1>7. t - HdrLen \in 1..(MaxLen - HdrLen)
    BY <1>1, <1>5
<1>. QED
    BY <1>2, <1>4, <1>6, <1>7 DEF t, body_of

(* The invariant, by what each part speaks of. *)
TypeServer ==
    /\ conn \in {"open", "closed", "dead"}
    /\ buf \in Bytes /\ Len(buf) < SBSIZE /\ pktsize \in 0..MaxLen
    /\ work \in Bytes /\ Len(work) <= SBSIZE
    /\ buf # <<>> => Len(buf) < pktsize /\ pktsize <= SBSIZE

TypeOwed ==
    /\ owed \in Seq(Bytes)
    /\ \A i \in DOMAIN owed : Len(owed[i]) \in 1..(MaxLen - HdrLen)

TypeClient ==
    /\ client \in {"open", "closed", "failed"} /\ cbuf \in Bytes
    /\ from \in Nat /\ cut \in Nat
    /\ cbuf # <<>> => Len(replies) < Len(sent)

TypeCalls ==
    /\ sent \in Seq(Bodies)
    /\ Len(replies) <= Len(sent)
    /\ replies \in Seq({replies[i] : i \in DOMAIN replies})

LEMMA TypeParts ==
    TypeInv <=> /\ up \in Bytes /\ down \in Bytes /\ parsed \in Seq(Bytes)
                /\ TypeServer /\ TypeOwed /\ TypeClient /\ TypeCalls
BY DEF TypeInv, TypeOK, Sizes, ReadsMakeProgress, TypeServer, TypeOwed, TypeClient,
       TypeCalls

LEMMA TypePartsNext ==
    TypeInv' <=> /\ up' \in Bytes /\ down' \in Bytes /\ parsed' \in Seq(Bytes)
                 /\ TypeServer' /\ TypeOwed' /\ TypeClient' /\ TypeCalls'
BY DEF TypeInv, TypeOK, Sizes, ReadsMakeProgress, TypeServer, TypeOwed, TypeClient,
       TypeCalls

LEMMA EmptyBytes == <<>> \in Bytes /\ Len(<<>>) = 0
BY DEF Bytes

LEMMA LenBytes ==
    ASSUME NEW s \in Bytes
    PROVE  Len(s) \in Nat /\ (s # <<>> <=> Len(s) > 0)
BY DEF Bytes

LEMMA TakeDropBytes ==
    ASSUME NEW s \in Bytes, NEW n \in 0..Len(s)
    PROVE  /\ take(s, n) \in Bytes /\ Len(take(s, n)) = n
           /\ drop(s, n) \in Bytes /\ Len(drop(s, n)) = Len(s) - n
           /\ take(s, n) \o drop(s, n) = s
BY TakeDrop, Zenon DEF Bytes

LEMMA LeastIs ==
    ASSUME NEW m \in Nat, NEW k \in Int, NEW n \in 1..least(m, k)
    PROVE  n \in 1..m /\ n \in 0..m /\ n <= k
BY DEF least

(* Parts that a step leaves alone. *)
LEMMA TypeFrame ==
    /\ TypeServer /\ UNCHANGED <<conn, buf, pktsize, work>> => TypeServer'
    /\ TypeOwed /\ UNCHANGED owed => TypeOwed'
    /\ TypeClient /\ UNCHANGED <<client, cbuf, from, cut, replies, sent>> => TypeClient'
    /\ TypeCalls /\ UNCHANGED <<sent, replies>> => TypeCalls'
BY DEF TypeServer, TypeOwed, TypeClient, TypeCalls

LEMMA ErrorExitTypes == error_exit => up' \in Bytes /\ TypeServer'
BY EmptyBytes, SizesAssumption DEF error_exit, TypeServer

LEMMA EmptyOwed == owed' = <<>> => TypeOwed'
BY DEF TypeOwed

LEMMA ReceiveTypes ==
    ASSUME TypeInv, receive
    PROVE  TypeInv'
<1> USE TypeParts
<1>1. /\ UNCHANGED <<down, conn, buf, pktsize, owed, sent, parsed>>
      /\ UNCHANGED <<client, cbuf, from, replies, cut>>
    BY DEF receive, tcp_recv, tcp_recv_more, cvars
<1>2. SBSIZE \in Nat /\ MaxLen \in Nat /\ MaxLen < SBSIZE
    BY SizesAssumption
<1>3. Len(up) \in Nat /\ Len(buf) \in Nat
    BY LenBytes DEF TypeServer
<1>4. ASSUME NEW n \in Nat, tcp_recv(n)
      PROVE  up' \in Bytes /\ work' \in Bytes /\ Len(work') <= SBSIZE
  <2>1. n \in 1..least(Len(up), SBSIZE)
      BY <1>4 DEF tcp_recv
  <2>2. n \in 0..Len(up) /\ n <= SBSIZE
    <3>1. Len(up) \in Nat /\ SBSIZE \in Int
        BY <1>2, <1>3
    <3>. QED
        BY <2>1, <3>1, LeastIs, Zenon
  <2>. QED
      BY <1>4, <2>2, TakeDropBytes DEF tcp_recv
<1>5. ASSUME NEW n \in Nat, tcp_recv_more(n)
      PROVE  up' \in Bytes /\ work' \in Bytes /\ Len(work') <= SBSIZE
  <2>1. n \in 1..least(Len(up), pktsize - Len(buf)) /\ pktsize - Len(buf) \in Int
      BY <1>2, <1>3, <1>5 DEF tcp_recv_more, TypeServer
  <2>2. n \in 0..Len(up) /\ n <= pktsize - Len(buf)
      BY <1>3, <2>1, LeastIs
  <2>3. /\ take(up, n) \in Bytes /\ Len(take(up, n)) = n /\ drop(up, n) \in Bytes
      BY <2>2, TakeDropBytes
  <2>4. buf \o take(up, n) \in Bytes /\ Len(buf \o take(up, n)) = Len(buf) + n
      BY <2>3, Longer, ZenonT(60) DEF TypeServer
  <2>5. Len(buf) + n <= SBSIZE
      BY <1>2, <1>3, <2>2 DEF TypeServer
  <2>. QED
      BY <1>5, <2>3, <2>4, <2>5 DEF tcp_recv_more
<1>6. up' \in Bytes /\ work' \in Bytes /\ Len(work') <= SBSIZE
    BY <1>2, <1>4, <1>5 DEF receive
<1>7. TypeServer'
    BY <1>1, <1>6 DEF TypeServer
<1>8. TypeOwed' /\ TypeClient' /\ TypeCalls' /\ down' \in Bytes /\ parsed' \in Seq(Bytes)
    BY <1>1, TypeFrame
<1>. QED
    BY <1>6, <1>7, <1>8, TypePartsNext

LEMMA LeftoversType ==
    ASSUME NEW b \in Bytes, NEW n \in 0..Len(b)
    PROVE  leftovers(b, n) \in Bytes /\ Len(leftovers(b, n)) = n
<1>1. \A i \in 1..n : leftovers(b, n)[i] \in 0..(Base - 1)
  <2> TAKE i \in 1..n
  <2>1. Len(b) \in Nat
      BY LenBytes
  <2>2. \A j \in 1..Len(b) : b[j] \in 0..(Base - 1)
    <3>1. b \in Seq(0..(Base - 1))
        BY Zenon DEF Bytes
    <3>. QED
        BY <3>1, ElementOfSeq, Zenon
  <2>3. i \in 1..Len(b) /\ (i <= Len(b) - n => n + i \in 1..Len(b))
      BY <2>1
  <2>4. leftovers(b, n)[i] = IF i <= Len(b) - n THEN b[n + i] ELSE b[i]
      BY DEF leftovers
  <2>. QED
      BY <2>2, <2>3, <2>4, Zenon
<1>2. leftovers(b, n) = [i \in 1..n |-> leftovers(b, n)[i]]
    BY DEF leftovers
<1> HIDE DEF leftovers
<1>3. leftovers(b, n) \in [1..n -> 0..(Base - 1)] /\ n \in Nat
    BY <1>1, <1>2, LenBytes
<1>4. \A S : \A f \in [1..n -> S] : f \in Seq(S) /\ Len(f) = n
    BY <1>3
<1>. QED
    BY <1>3, <1>4, Zenon DEF Bytes

LEMMA ProcessTypes ==
    ASSUME TypeInv, process_buf
    PROVE  TypeInv'
<1> USE TypeParts
<1>1. /\ UNCHANGED <<client, cbuf, from, replies, cut, sent>>
    BY DEF process_buf, process_buf_bad_length, process_buf_short,
           process_buf_no_memory, process_buf_message, process_buf_refused, cvars
<1>2. TypeClient' /\ TypeCalls'
    BY <1>1, TypeFrame
<1>3. CASE process_buf_bad_length \/ process_buf_no_memory
  <2>1. error_exit /\ UNCHANGED <<down, owed, parsed>>
      BY <1>3 DEF process_buf_bad_length, process_buf_no_memory
  <2>. QED
      BY <1>2, <2>1, ErrorExitTypes, TypeFrame, TypePartsNext
<1>4. CASE process_buf_short
  <2>1. /\ buf' = work /\ pktsize' = totaltoget /\ work' = <<>>
        /\ UNCHANGED <<up, down, conn, owed, parsed>>
        /\ ~bad_length /\ totaltoget > Len(work)
      BY <1>4 DEF process_buf_short
  <2>2. HdrLen \in Nat /\ MinLen \in Nat /\ MaxLen \in Nat /\ SBSIZE \in Nat
        /\ HdrLen <= MinLen /\ MinLen < MaxLen /\ MaxLen < SBSIZE
      BY SizesAssumption
  <2>3. work \in Bytes /\ Len(work) \in Nat
      BY LenBytes DEF TypeServer
  <2>4. totaltoget \in 0..MaxLen
    <3>1. CASE Len(work) >= HdrLen
      <4>1. ntohl(work) \in Nat
          BY <2>3, <3>1, NtohlType
      <4>. QED
          BY <2>1, <2>2, <3>1, <4>1 DEF totaltoget, bad_length
    <3>2. CASE ~(Len(work) >= HdrLen)
        BY <2>2, <3>2 DEF totaltoget
    <3>. QED
        BY <3>1, <3>2
  <2> DEFINE t == totaltoget
  <2> HIDE DEF t
  <2>5. t \in 0..MaxLen /\ t > Len(work) /\ pktsize' = t
      BY <2>1, <2>4 DEF t
  <2>6. TypeServer'
      BY <2>1, <2>2, <2>3, <2>5, EmptyBytes DEF TypeServer
  <2>. QED
      BY <1>2, <2>1, <2>6, TypeFrame, TypePartsNext
<1>5. CASE process_buf_message \/ process_buf_refused
  <2>1. /\ work # <<>> /\ ~bad_length /\ totaltoget <= Len(work)
        /\ parsed' = Append(parsed, body_of(work))
      BY <1>5 DEF process_buf_message, process_buf_refused
  <2>2. PICK b \in Bytes : b = body_of(work) /\ Len(b) \in 1..(MaxLen - HdrLen)
      BY <2>1, WholeMessage
  <2>3. parsed' \in Seq(Bytes)
      BY <2>1, <2>2
  <2>4. PICK t \in Nat : t = totaltoget /\ t <= Len(work) /\ t \in 0..Len(work)
    <3>1. totaltoget \in (MinLen + 1)..MaxLen /\ MinLen \in Nat
        BY <2>1, WholeMessage, SizesAssumption
    <3>2. work \in Bytes /\ Len(work) \in Nat
        BY LenBytes DEF TypeServer
    <3>. QED
        BY <2>1, <3>1, <3>2
  <2>5. CASE process_buf_message
    <3>1. /\ owed' = Append(owed, b)
          /\ \/ work' = leftovers(work, t) /\ UNCHANGED <<buf, pktsize>>
             \/ work' = <<>> /\ buf' = <<>> /\ pktsize' = 0
          /\ UNCHANGED <<up, down, conn>>
        BY <2>2, <2>4, <2>5 DEF process_buf_message
    <3>2. TypeOwed'
        BY <2>2, <3>1 DEF TypeOwed
    <3>3. leftovers(work, t) \in Bytes /\ Len(leftovers(work, t)) = t
        BY <2>4, LeftoversType DEF TypeServer
    <3>4. t <= SBSIZE
        BY <2>4, LenBytes, SizesAssumption DEF TypeServer
    <3>5. TypeServer'
        BY <3>1, <3>3, <3>4, EmptyBytes, SizesAssumption DEF TypeServer
    <3>. QED
        BY <1>2, <2>3, <3>1, <3>2, <3>5, TypePartsNext
  <2>6. CASE process_buf_refused
    <3>1. error_exit /\ down' = down \o frame(ErrVer) /\ UNCHANGED owed
        BY <2>6 DEF process_buf_refused
    <3>2. frame(ErrVer) \in Bytes
        BY ErrVerType, FrameType
    <3>3. down' \in Bytes
        BY <3>1, <3>2, Longer
    <3>. QED
        BY <1>2, <2>3, <3>1, <3>3, ErrorExitTypes, TypeFrame, TypePartsNext
  <2>. QED
      BY <1>5, <2>5, <2>6
<1>. QED
    BY <1>3, <1>4, <1>5 DEF process_buf

(* Leaving out one of the requests that are owed a reply. *)
LEMMA RemoveOwed ==
    ASSUME TypeOwed, NEW i \in 1..Len(owed), owed' = RemoveAt(owed, i)
    PROVE  TypeOwed'
<1> DEFINE T == {b \in Bytes : Len(b) \in 1..(MaxLen - HdrLen)}
<1>1. owed \in Seq(T)
  <2>1. owed = [j \in 1..Len(owed) |-> owed[j]] /\ Len(owed) \in Nat
      BY DEF TypeOwed
  <2>2. \A j \in 1..Len(owed) : owed[j] \in T
      BY DEF TypeOwed
  <2> HIDE DEF T
  <2>. QED
      BY <2>1, <2>2
<1> HIDE DEF T
<1>2. SubSeq(owed, 1, i - 1) \in Seq(T) /\ SubSeq(owed, i + 1, Len(owed)) \in Seq(T)
    BY <1>1
<1>3. owed' \in Seq(T)
    BY <1>2 DEF RemoveAt
<1>4. owed' = [j \in 1..Len(owed') |-> owed'[j]] /\ Len(owed') \in Nat
      /\ DOMAIN owed' = 1..Len(owed') /\ \A j \in 1..Len(owed') : owed'[j] \in T
    BY <1>3
<1>5. \A j \in 1..Len(owed') : owed'[j] \in Bytes /\ Len(owed'[j]) \in 1..(MaxLen - HdrLen)
    BY <1>4 DEF T
<1>6. owed' \in Seq(Bytes)
    BY <1>4, <1>5
<1>. QED
    BY <1>4, <1>5, <1>6 DEF TypeOwed

LEMMA OwedAnswer ==
    ASSUME TypeOwed, NEW i \in 1..Len(owed)
    PROVE  frame(answer(owed[i])) \in Bytes
<1>1. owed[i] \in Bytes /\ Len(owed[i]) \in 1..(MaxLen - HdrLen)
    BY DEF TypeOwed
<1>2. answer(owed[i]) \in Bytes
    BY <1>1, AnswerType, Zenon
<1>. QED
    BY <1>2, FrameType, Zenon

LEMMA ReplyTypes ==
    ASSUME TypeInv, reply
    PROVE  TypeInv'
<1> USE TypeParts
<1>1. PICK i \in Nat : rep_send(i)
    BY SizesAssumption DEF reply
<1>2. /\ i \in 1..Len(owed) /\ owed' = RemoveAt(owed, i)
      /\ down' = IF conn = "open" THEN down \o frame(answer(owed[i])) ELSE down
      /\ UNCHANGED <<up, conn, buf, pktsize, work, sent, parsed>>
      /\ UNCHANGED <<client, cbuf, from, replies, cut>>
    BY <1>1 DEF rep_send, cvars
<1>3. TypeOwed'
    BY <1>2, RemoveOwed
<1>4. frame(answer(owed[i])) \in Bytes
    BY <1>2, OwedAnswer
<1>5. down' \in Bytes
    BY <1>2, <1>4, Longer
<1>6. TypeServer' /\ TypeClient' /\ TypeCalls' /\ up' \in Bytes /\ parsed' \in Seq(Bytes)
    BY <1>2, TypeFrame
<1>. QED
    BY <1>3, <1>5, <1>6, TypePartsNext

LEMMA DiesTypes ==
    ASSUME TypeInv, NEW n \in Nat, server_dies(n)
    PROVE  TypeInv'
<1> USE TypeParts
<1>1. PICK rep : /\ rep = IF owed = <<>> THEN <<>> ELSE frame(answer(owed[1]))
                 /\ n \in 0..Len(down \o rep) /\ down' = take(down \o rep, n)
    BY DEF server_dies
<1>2. /\ conn' = "dead"
      /\ up' = <<>> /\ buf' = <<>> /\ pktsize' = 0 /\ work' = <<>> /\ owed' = <<>>
      /\ UNCHANGED <<sent, parsed, client, cbuf, from, replies, cut>>
    BY DEF server_dies, cvars
<1>3. rep \in Bytes
  <2>1. CASE owed = <<>>
      BY <1>1, <2>1, EmptyBytes
  <2>2. CASE owed # <<>>
    <3>1. 1 \in 1..Len(owed)
        BY <2>2 DEF TypeOwed
    <3>. QED
        BY <1>1, <2>2, <3>1, OwedAnswer, Zenon
  <2>. QED
      BY <2>1, <2>2
<1>4. down \o rep \in Bytes
    BY <1>3, Longer
<1>5. down' \in Bytes
    BY <1>1, <1>4, TakeDropBytes, Zenon
<1>6. TypeServer'
    BY <1>2, EmptyBytes, SizesAssumption DEF TypeServer
<1>7. up' \in Bytes /\ parsed' \in Seq(Bytes) /\ TypeOwed'
    BY <1>2, EmptyBytes, EmptyOwed, Zenon
<1>8. TypeClient' /\ TypeCalls'
    BY <1>2, TypeFrame
<1>. QED
    BY <1>5, <1>6, <1>7, <1>8, TypePartsNext

LEMMA SeqOfItsElements ==
    ASSUME NEW S, NEW s \in Seq(S)
    PROVE  s \in Seq({s[i] : i \in DOMAIN s})
<1> DEFINE T == {s[i] : i \in DOMAIN s}
<1>1. s = [i \in 1..Len(s) |-> s[i]] /\ Len(s) \in Nat /\ DOMAIN s = 1..Len(s)
    OBVIOUS
<1>2. \A i \in DOMAIN s : s[i] \in T
    OBVIOUS
<1> HIDE DEF T
<1>3. s \in Seq(T)
    BY <1>1, <1>2
<1>. QED
    BY <1>3 DEF T

(* One more call has returned. *)
LEMMA ReplyCounted ==
    ASSUME TypeCalls, NEW x, replies' = Append(replies, x), UNCHANGED sent,
           Len(replies) < Len(sent)
    PROVE  TypeCalls'
<1> DEFINE S == {replies[i] : i \in DOMAIN replies} \cup {x}
<1>0. \A i \in DOMAIN replies : replies[i] \in S
    OBVIOUS
<1>1. replies \in Seq(S) /\ x \in S
  <2>1. replies = [i \in 1..Len(replies) |-> replies[i]] /\ Len(replies) \in Nat
        /\ DOMAIN replies = 1..Len(replies)
      BY DEF TypeCalls
  <2>2. x \in S
      OBVIOUS
  <2> HIDE DEF S
  <2>. QED
      BY <1>0, <2>1, <2>2
<1> HIDE DEF S
<1>2. replies' \in Seq(S) /\ Len(replies') = Len(replies) + 1
    BY <1>1
<1>4. replies' \in Seq({replies'[i] : i \in DOMAIN replies'})
  <2>1. PICK r \in Seq(S) : r = replies'
      BY <1>2, Zenon
  <2>2. r \in Seq({r[i] : i \in DOMAIN r})
      BY SeqOfItsElements, Zenon
  <2>. QED
      BY <2>1, <2>2, Zenon
<1>5. Len(replies') <= Len(sent')
    BY <1>1, <1>2 DEF TypeCalls
<1>. QED
    BY <1>4, <1>5 DEF TypeCalls

LEMMA GetRepTypes ==
    ASSUME TypeInv, get_rep
    PROVE  TypeInv'
<1> USE TypeParts
<1>1. /\ UNCHANGED <<up, conn, buf, pktsize, work, owed, sent, parsed, client>>
    BY DEF get_rep, recv_msg_cut, recv_msg, svars
<1>2. /\ TypeServer' /\ TypeOwed' /\ up' \in Bytes /\ parsed' \in Seq(Bytes)
    BY <1>1, TypeFrame
<1>3. CASE recv_msg_cut
  <2>1. /\ from > 0 /\ Len(cbuf) > from /\ down' = down
        /\ replies' = Append(replies, do_get(cbuf, req_now))
        /\ cut' = Len(cbuf) /\ cbuf' = <<>> /\ from' = 0
      BY <1>3 DEF recv_msg_cut
  <2>2. Len(cbuf) \in Nat /\ Len(replies) < Len(sent)
      BY <2>1, LenBytes DEF TypeClient
  <2>3. TypeCalls'
      BY <1>1, <2>1, <2>2, ReplyCounted
  <2>4. TypeClient'
      BY <1>1, <2>1, <2>2, EmptyBytes DEF TypeClient
  <2>. QED
      BY <1>2, <2>1, <2>3, <2>4, TypePartsNext
<1>4. ASSUME NEW n \in 1..Len(down), recv_msg(n)
      PROVE  TypeInv'
  <2>1. PICK got : /\ got = cbuf \o take(down, n)
                   /\ \/ /\ replies' = Append(replies, do_get(got, req_now))
                         /\ cbuf' = <<>> /\ from' = 0
                      \/ /\ cbuf' = got /\ UNCHANGED replies
                         /\ from' = IF from = 0 /\ Len(got) >= HdrLen THEN Len(got) ELSE from
      BY <1>4 DEF recv_msg
  <2>2. Len(replies) < Len(sent) /\ down' = drop(down, n) /\ cut' = cut
      BY <1>4 DEF recv_msg
  <2>3. n \in 0..Len(down)
      BY LenBytes
  <2>4. take(down, n) \in Bytes /\ drop(down, n) \in Bytes
      BY <2>3, TakeDropBytes
  <2>5. got \in Bytes /\ Len(got) \in Nat
      BY <2>1, <2>4, Longer, LenBytes DEF TypeClient
  <2>6. TypeCalls'
      BY <1>1, <2>1, <2>2, ReplyCounted, TypeFrame
  <2>7. TypeClient'
    <3>1. cbuf' \in Bytes /\ (cbuf' # <<>> => replies' = replies)
        BY <2>1, <2>5, EmptyBytes
    <3>2. from' \in Nat
        BY <2>1, <2>5 DEF TypeClient
    <3>. QED
        BY <1>1, <2>2, <3>1, <3>2, Zenon DEF TypeClient
  <2>. QED
      BY <1>2, <2>2, <2>4, <2>6, <2>7, TypePartsNext
<1>. QED
    BY <1>3, <1>4 DEF get_rep

LEMMA SendTypes ==
    ASSUME TypeInv, NEW b \in Bodies, tcp_srv_send(b)
    PROVE  TypeInv'
<1> USE TypeParts
<1>1. /\ up' = up \o frame(b) /\ sent' = Append(sent, b)
      /\ UNCHANGED <<down, conn, buf, pktsize, work, owed, parsed>>
      /\ UNCHANGED <<client, cbuf, from, replies, cut>>
    BY DEF tcp_srv_send, svars, cvars
<1>2. b \in Bytes
    BY BodiesAssumption DEF Bytes
<1>3. up' \in Bytes
    BY <1>1, <1>2, FrameType, Longer
<1>4. sent' \in Seq(Bodies) /\ Len(sent') = Len(sent) + 1 /\ Len(sent) \in Nat
      /\ Len(replies) \in Nat
    BY <1>1 DEF TypeCalls
<1>5. TypeClient' /\ TypeCalls'
    BY <1>1, <1>4 DEF TypeClient, TypeCalls
<1>6. TypeServer' /\ TypeOwed'
    BY <1>1, TypeFrame
<1>. QED
    BY <1>1, <1>3, <1>5, <1>6, TypePartsNext

LEMMA InitTypes == Init => TypeInv
<1> SUFFICES ASSUME Init PROVE TypeInv
    OBVIOUS
<1>1. TypeServer /\ TypeOwed
    BY EmptyBytes, SizesAssumption DEF Init, TypeServer, TypeOwed
<1>2. TypeClient /\ TypeCalls
    BY EmptyBytes DEF Init, TypeClient, TypeCalls
<1>3. up \in Bytes /\ down \in Bytes /\ parsed \in Seq(Bytes)
    BY EmptyBytes DEF Init
<1>. QED
    BY <1>1, <1>2, <1>3, TypeParts

LEMMA NextTypes == TypeInv /\ [Next]_vars => TypeInv'
<1> SUFFICES ASSUME TypeInv, [Next]_vars PROVE TypeInv'
    OBVIOUS
<1>1. CASE tcp_recv_eof
  <2>1. error_exit /\ UNCHANGED <<down, owed, sent, parsed>>
        /\ UNCHANGED <<client, cbuf, from, replies, cut>>
      BY <1>1 DEF tcp_recv_eof, cvars
  <2>2. TypeOwed' /\ TypeClient' /\ TypeCalls' /\ down' \in Bytes /\ parsed' \in Seq(Bytes)
      BY <2>1, TypeFrame, TypeParts
  <2>. QED
      BY <2>1, <2>2, ErrorExitTypes, TypePartsNext
<1>2. CASE get_rep_fails \/ nmdb_free
  <2>1. /\ client' \in {"closed", "failed"}
        /\ UNCHANGED <<up, down, conn, buf, pktsize, work, owed>>
        /\ UNCHANGED <<cbuf, from, replies, cut, sent, parsed>>
      BY <1>2 DEF get_rep_fails, nmdb_free, svars
  <2>2. TypeServer' /\ TypeOwed' /\ TypeCalls'
        /\ up' \in Bytes /\ down' \in Bytes /\ parsed' \in Seq(Bytes)
      BY <2>1, TypeFrame, TypeParts
  <2>3. TypeClient'
      BY <2>1, TypeParts DEF TypeClient
  <2>. QED
      BY <2>2, <2>3, TypePartsNext
<1>3. CASE UNCHANGED vars
  <2>1. UNCHANGED <<up, down, conn, buf, pktsize, work, owed, sent, parsed>>
        /\ UNCHANGED <<client, cbuf, from, replies, cut>>
      BY <1>3 DEF vars, svars, cvars
  <2>. QED
      BY <2>1, TypeFrame, TypeParts, TypePartsNext
<1>4. CASE \E n \in 0..(2 * SBSIZE) : server_dies(n)
  <2>1. PICK n \in Nat : server_dies(n)
      BY <1>4, SizesAssumption
  <2>. QED
      BY <2>1, DiesTypes
<1>. QED
    BY <1>1, <1>2, <1>3, <1>4, ReceiveTypes, ProcessTypes, ReplyTypes, GetRepTypes,
       SendTypes DEF Next, Over

LEMMA Types == Spec => []TypeInv
BY InitTypes, NextTypes, PTL DEF Spec

(* What tcp_recv keeps of an incomplete message fits the buffer allocated  *)
(* for it, and so does the size it waits for: for every client, also one   *)
(* that sends several requests at once, and for every cut TCP makes.       *)
THEOREM TypeCorrect == Spec => []TypeOK
<1>1. TypeInv => TypeOK
    BY DEF TypeInv
<1>. QED
    BY <1>1, Types, PTL

(* tcp_recv asks recv() for at least one byte and for no more than fit:    *)
(* tcpsock->len stays below the pktsize process_buf has noted, and pktsize *)
(* within the buffer.                                                      *)
THEOREM ReadsAskForBytes == Spec => []ReadsMakeProgress
<1>1. TypeInv => ReadsMakeProgress
    BY DEF TypeInv
<1>. QED
    BY <1>1, Types, PTL

-----------------------------------------------------------------------------
(* Order, for a client that sends no request before it has the reply to    *)
(* the last.  One request is under way at a time, and the system is in one *)
(* of six phases.                                                          *)

now == sent[Len(sent)]
Waiting == Len(sent) = Len(replies) + 1

(* What the server holds of the request that comes in. *)
held == IF work = <<>> THEN buf ELSE work
Quiet == up = <<>> /\ buf = <<>> /\ work = <<>>

Idle ==
    /\ Len(replies) = Len(sent) /\ Quiet /\ owed = <<>>
    /\ down = <<>> /\ cbuf = <<>> /\ parsed = sent

Coming ==
    /\ Waiting /\ conn = "open" /\ client = "open"
    /\ owed = <<>> /\ down = <<>> /\ cbuf = <<>> /\ parsed = Front(sent)
    /\ held \o up = frame(now)

Owing ==
    /\ Waiting /\ conn = "open" /\ client = "open" /\ Quiet /\ owed = <<now>>
    /\ down = <<>> /\ cbuf = <<>> /\ parsed = sent
    /\ now[1] = VER /\ Len(now) \in 1..(MaxLen - HdrLen)

Answered ==
    /\ Waiting /\ conn # "dead" /\ Quiet /\ owed = <<>> /\ parsed = sent
    /\ conn = "open" => client = "open" /\ now[1] = VER
    /\ Len(now) \in 1..(MaxLen - HdrLen)
    /\ cbuf \o down = frame(answer(now)) /\ down # <<>>

CutOff ==
    /\ Waiting /\ conn = "dead" /\ Quiet /\ owed = <<>> /\ parsed = sent
    /\ now[1] = VER /\ Len(now) \in 1..(MaxLen - HdrLen)
    /\ \E rest \in Bytes : (cbuf \o down) \o rest = frame(answer(now))
    /\ Len(cbuf) < Len(frame(answer(now)))

Gone ==
    /\ Waiting /\ conn # "open" /\ Quiet /\ owed = <<>>
    /\ down = <<>> /\ cbuf = <<>> /\ parsed = Front(sent)

Phase == Idle \/ Coming \/ Owing \/ Answered \/ CutOff \/ Gone

(* No call comes after one that a cut has ended. *)
LastCut == cut > 0 => conn = "dead" /\ Len(replies) = Len(sent)

OInv == TypeInv /\ Phase /\ RepliesMatch /\ LastCut

LEMMA NowType ==
    ASSUME TypeInv, Waiting
    PROVE  /\ now \in Bodies /\ now \in Bytes /\ now # <<>> /\ Len(now) \in Nat
           /\ fits(HdrLen + Len(now)) /\ Len(sent) \in Nat \ {0} /\ Len(replies) \in Nat
<1>1. sent \in Seq(Bodies) /\ Len(sent) \in Nat \ {0} /\ Len(replies) \in Nat
    BY TypeParts DEF TypeCalls, Waiting
<1>2. now \in Bodies
    BY <1>1 DEF now
<1>3. now \in Bytes /\ now # <<>> /\ fits(HdrLen + Len(now))
    BY <1>2, BodiesAssumption, DigitsAssumption, Zenon DEF Bytes
<1>. QED
    BY <1>1, <1>2, <1>3, LenBytes

(* Nothing is left over of a message that is complete. *)
LEMMA Complete ==
    ASSUME NEW s \in Bytes, NEW t \in Bytes, NEW f \in Bytes, s \o t = f, Len(s) >= Len(f)
    PROVE  s = f /\ t = <<>>
<1>1. Len(s) + Len(t) = Len(f) /\ Len(s) \in Nat /\ Len(t) \in Nat
    BY Longer, LenBytes
<1>2. Len(t) = 0
    BY <1>1
<1>3. t = <<>>
    BY <1>2, LenBytes
<1>4. s \o <<>> = s
    BY ConcatEmptySeq DEF Bytes
<1>. QED
    BY <1>3, <1>4

LEMMA EmptyConcat ==
    ASSUME NEW s \in Bytes
    PROVE  <<>> \o s = s /\ s \o <<>> = s
BY ConcatEmptySeq, Zenon DEF Bytes

LEMMA Regroup ==
    ASSUME NEW r \in Bytes, NEW s \in Bytes, NEW t \in Bytes
    PROVE  (r \o s) \o t = r \o (s \o t)
<1>1. PICK S : S = 0..(Base - 1)
    OBVIOUS
<1>2. r \in Seq(S) /\ s \in Seq(S) /\ t \in Seq(S)
    BY <1>1, Zenon DEF Bytes
<1>. QED
    BY <1>2, ConcatAssociative

LEMMA RegroupAll == \A r, s, t \in Bytes : (r \o s) \o t = r \o (s \o t)
<1> TAKE r, s, t \in Bytes
<1>. QED
    BY Regroup

(* Replies that matched still do. *)
LEMMA MatchFrame ==
    ASSUME RepliesMatch, LastCut, UNCHANGED <<replies, sent, cut>>,
           conn = "dead" => conn' = "dead"
    PROVE  RepliesMatch' /\ LastCut'
BY DEF RepliesMatch, LastCut

LEMMA ReceiveOrder ==
    ASSUME OInv, receive
    PROVE  OInv'
<1>1. TypeInv /\ TypeInv'
    BY ReceiveTypes DEF OInv
<1>2. up \in Bytes /\ buf \in Bytes /\ work \in Bytes /\ Len(up) \in Nat
    BY <1>1, TypeParts, LenBytes DEF TypeServer
<1>3. /\ UNCHANGED <<down, conn, buf, pktsize, owed, sent, parsed>>
      /\ UNCHANGED <<client, cbuf, from, replies, cut>>
      /\ conn = "open" /\ work = <<>>
    BY DEF receive, tcp_recv, tcp_recv_more, cvars
<1>4. PICK n \in 1..Len(up) : up' = drop(up, n) /\ work' = buf \o take(up, n)
  <2>1. SBSIZE \in Nat
      BY SizesAssumption
  <2>2. ASSUME NEW n \in 1..SBSIZE, tcp_recv(n)
        PROVE  n \in 1..Len(up) /\ up' = drop(up, n) /\ work' = buf \o take(up, n)
    <3>1. n \in 1..least(Len(up), SBSIZE) /\ SBSIZE \in Int
        BY <2>1, <2>2 DEF tcp_recv
    <3>2. n \in 1..Len(up) /\ n \in 0..Len(up)
        BY <1>2, <3>1, LeastIs, Zenon
    <3>3. take(up, n) \in Bytes
        BY <1>2, <3>2, TakeDropBytes
    <3>. QED
        BY <2>2, <3>2, <3>3, EmptyConcat DEF tcp_recv
  <2>3. ASSUME NEW n \in 1..SBSIZE, tcp_recv_more(n)
        PROVE  n \in 1..Len(up) /\ up' = drop(up, n) /\ work' = buf \o take(up, n)
    <3>1. n \in 1..least(Len(up), pktsize - Len(buf)) /\ pktsize - Len(buf) \in Int
        BY <1>1, <1>2, <2>3, TypeParts, LenBytes DEF tcp_recv_more, TypeServer
    <3>2. n \in 1..Len(up)
        BY <1>2, <3>1, LeastIs, Zenon
    <3>. QED
        BY <2>3, <3>2 DEF tcp_recv_more
  <2>. QED
      BY <2>2, <2>3 DEF receive
<1>5. up # <<>>
    BY <1>2, <1>4, LenBytes
<1>6. Coming
    BY <1>3, <1>5 DEF OInv, Phase, Idle, Owing, Answered, CutOff, Gone, Quiet
<1>7. n \in 0..Len(up)
    BY <1>2, <1>4
<1>8. /\ take(up, n) \in Bytes /\ Len(take(up, n)) = n
      /\ drop(up, n) \in Bytes /\ take(up, n) \o drop(up, n) = up
    BY <1>2, <1>7, TakeDropBytes
<1>9. work' # <<>>
  <2>1. Len(work') = Len(buf) + n /\ work' \in Bytes
      BY <1>2, <1>4, <1>8, Longer
  <2>2. Len(work') > 0
      BY <1>2, <1>4, <2>1, LenBytes
  <2>. QED
      BY <2>1, <2>2, LenBytes
<1>10. held = buf /\ held' = work'
    BY <1>3, <1>9 DEF held
<1>11. work' \o up' = buf \o up
  <2>1. PICK t \in Bytes : t = take(up, n)
      BY <1>8, Zenon
  <2>2. PICK d \in Bytes : d = drop(up, n)
      BY <1>8, Zenon
  <2>3. (buf \o t) \o d = buf \o (t \o d)
      BY <1>2, Regroup, ZenonT(60)
  <2>. QED
      BY <1>4, <1>8, <2>1, <2>2, <2>3, Zenon
<1>12. Coming'
    BY <1>3, <1>6, <1>10, <1>11 DEF Coming, Waiting, now
<1>13. RepliesMatch' /\ LastCut'
    BY <1>3, MatchFrame DEF OInv
<1>. QED
    BY <1>1, <1>12, <1>13 DEF OInv, Phase

(* A request is handed to parse_message when all of it is there, and is    *)
(* the one that was sent.                                                  *)
LEMMA MessageIsNow ==
    ASSUME TypeInv, Coming, work # <<>>, ~bad_length, totaltoget <= Len(work)
    PROVE  /\ body_of(work) = now /\ totaltoget = Len(work) /\ up = <<>>
           /\ Len(now) \in 1..(MaxLen - HdrLen) /\ Append(parsed, now) = sent
<1>1. Waiting /\ work \o up = frame(now) /\ parsed = Front(sent)
    BY DEF Coming, held
<1>2. work \in Bytes /\ up \in Bytes /\ Len(work) \in Nat
    BY TypeParts, LenBytes DEF TypeServer
<1>3. now \in Bytes /\ fits(HdrLen + Len(now)) /\ Len(now) \in Nat /\ Len(sent) \in Nat \ {0}
    BY <1>1, NowType
<1>4. Len(work) >= HdrLen /\ totaltoget = ntohl(work)
      /\ Len(body_of(work)) = totaltoget - HdrLen
      /\ Len(body_of(work)) \in 1..(MaxLen - HdrLen)
    BY WholeMessage
<1>5. ntohl(work) = HdrLen + Len(now)
    BY <1>1, <1>2, <1>3, <1>4, FrameLength
<1>6. frame(now) \in Bytes /\ Len(frame(now)) = HdrLen + Len(now)
      /\ \A i \in 1..Len(now) : frame(now)[HdrLen + i] = now[i]
    BY <1>3, FrameType
<1>7. Len(work) >= Len(frame(now))
    BY <1>4, <1>5, <1>6, Zenon
<1>8. work = frame(now) /\ up = <<>>
    BY <1>1, <1>2, <1>6, <1>7, Complete
<1>9. HdrLen \in Nat
    BY SizesAssumption
<1>10. body_of(work) = now
  <2>1. body_of(work) = SubSeq(work, HdrLen + 1, HdrLen + Len(now))
      BY <1>4, <1>5, Zenon DEF body_of
  <2>2. SubSeq(work, HdrLen + 1, HdrLen + Len(now)) \in Seq(0..(Base - 1))
        /\ Len(SubSeq(work, HdrLen + 1, HdrLen + Len(now))) = Len(now)
        /\ \A i \in 1..Len(now) :
              SubSeq(work, HdrLen + 1, HdrLen + Len(now))[i] = work[HdrLen + i]
    <3>1. Len(work) = HdrLen + Len(now)
        BY <1>6, <1>8
    <3>2. work \in Seq(0..(Base - 1))
        BY <1>2, Zenon DEF Bytes
    <3>3. PICK k \in Nat : k = HdrLen + Len(now) /\ k - HdrLen = Len(now)
        BY <1>3, <1>9
    <3>4. \A i \in (HdrLen + 1)..k : work[i] \in 0..(Base - 1)
      <4>1. \A i \in (HdrLen + 1)..k : i \in 1..Len(work)
          BY <1>9, <3>1, <3>3
      <4>. QED
          BY <3>2, <4>1, ElementOfSeq, Zenon
    <3>5. HdrLen + 1 \in Int /\ k \in Int /\ k - (HdrLen + 1) + 1 = Len(now)
          /\ (~(HdrLen + 1 <= k) => Len(now) = 0)
        BY <1>3, <1>9, <3>3
    <3>6. /\ SubSeq(work, HdrLen + 1, k) \in Seq(0..(Base - 1))
          /\ Len(SubSeq(work, HdrLen + 1, k))
                = IF HdrLen + 1 <= k THEN k - (HdrLen + 1) + 1 ELSE 0
          /\ \A i \in 1..(k - (HdrLen + 1) + 1) :
                SubSeq(work, HdrLen + 1, k)[i] = work[(HdrLen + 1) + i - 1]
        BY <3>4, <3>5, SubSeqProperties
    <3>7. \A i \in 1..Len(now) : (HdrLen + 1) + i - 1 = HdrLen + i
        BY <1>3, <1>9
    <3>8. Len(SubSeq(work, HdrLen + 1, k)) = Len(now)
        BY <3>5, <3>6, Zenon
    <3>9. \A i \in 1..Len(now) : SubSeq(work, HdrLen + 1, k)[i] = work[HdrLen + i]
        BY <3>5, <3>6, <3>7, Zenon
    <3>. QED
        BY <3>3, <3>6, <3>8, <3>9, Zenon
  <2>3. now \in Seq(0..(Base - 1))
      BY <1>3, Zenon DEF Bytes
  <2>4. PICK u \in Seq(0..(Base - 1)) : u = body_of(work)
      BY <2>1, <2>2, Zenon
  <2>5. Len(u) = Len(now) /\ \A i \in 1..Len(now) : u[i] = now[i]
      BY <1>6, <1>8, <2>1, <2>2, <2>4, Zenon
  <2>6. u = now
      BY <2>3, <2>5, SeqEqual
  <2>. QED
      BY <2>4, <2>6
<1>11. totaltoget = Len(work)
    BY <1>4, <1>5, <1>6, <1>8, Zenon
<1>12. Append(parsed, now) = sent
  <2>1. sent \in Seq(Bodies)
      BY TypeParts DEF TypeCalls
  <2>2. Append(SubSeq(sent, 1, Len(sent) - 1), sent[Len(sent)]) = sent
      BY <1>3, <2>1
  <2>. QED
      BY <1>1, <2>2 DEF Front, now
<1>. QED
    BY <1>4, <1>8, <1>10, <1>11, <1>12

LEMMA ProcessIsComing ==
    ASSUME OInv, process_buf
    PROVE  Coming /\ TypeInv /\ TypeInv' /\ work # <<>>
           /\ UNCHANGED <<client, cbuf, from, replies, cut, sent>>
<1>1. work # <<>> /\ UNCHANGED <<client, cbuf, from, replies, cut, sent>>
    BY DEF process_buf, process_buf_bad_length, process_buf_short,
           process_buf_no_memory, process_buf_message, process_buf_refused, cvars
<1>2. Coming
    BY <1>1 DEF OInv, Phase, Idle, Owing, Answered, CutOff, Gone, Quiet
<1>. QED
    BY <1>1, <1>2, ProcessTypes DEF OInv

LEMMA ProcessOrder ==
    ASSUME OInv, process_buf
    PROVE  OInv'
<1>1. Coming /\ TypeInv /\ TypeInv' /\ work # <<>>
      /\ UNCHANGED <<client, cbuf, from, replies, cut, sent>>
    BY ProcessIsComing
<1>2. Waiting' /\ now' = now /\ conn = "open"
    BY <1>1 DEF Coming, Waiting, now
<1>3. RepliesMatch' /\ LastCut'
    BY <1>1, <1>2, MatchFrame DEF OInv
<1>4. CASE process_buf_bad_length \/ process_buf_no_memory
  <2>1. error_exit /\ UNCHANGED <<down, owed, parsed>>
      BY <1>4 DEF process_buf_bad_length, process_buf_no_memory
  <2>2. Gone'
      BY <1>1, <1>2, <2>1 DEF error_exit, Coming, Gone, Quiet
  <2>. QED
      BY <1>1, <1>3, <2>2 DEF OInv, Phase
<1>5. CASE process_buf_short
  <2>1. buf' = work /\ work' = <<>> /\ UNCHANGED <<up, down, conn, owed, parsed>>
      BY <1>5 DEF process_buf_short
  <2>2. held = work /\ held' = work
      BY <1>1, <2>1 DEF held
  <2>3. Coming'
      BY <1>1, <1>2, <2>1, <2>2 DEF Coming
  <2>. QED
      BY <1>1, <1>3, <2>3 DEF OInv, Phase
<1>6. CASE process_buf_message
  <2>1. /\ ~bad_length /\ totaltoget <= Len(work)
        /\ body_of(work)[1] = VER
        /\ parsed' = Append(parsed, body_of(work))
        /\ owed' = Append(owed, body_of(work))
        /\ totaltoget = Len(work) => work' = <<>> /\ buf' = <<>>
        /\ UNCHANGED <<up, down, conn>>
    <3>1. work \in Bytes /\ Len(work) \in Nat
        BY <1>1, TypeParts, LenBytes DEF TypeServer
    <3>2. ~(Len(work) < Len(work))
        BY <3>1
    <3>. QED
        BY <1>6, <3>2 DEF process_buf_message
  <2>2. /\ body_of(work) = now /\ totaltoget = Len(work) /\ up = <<>>
        /\ Len(now) \in 1..(MaxLen - HdrLen) /\ Append(parsed, now) = sent
      BY <1>1, <2>1, MessageIsNow
  <2>3. owed' = <<now>>
      BY <1>1, <2>1, <2>2 DEF Coming
  <2>4. Owing'
    <3>1. Quiet' /\ parsed' = sent' /\ now[1] = VER
        BY <1>1, <2>1, <2>2 DEF Quiet
    <3>. QED
        BY <1>1, <1>2, <2>1, <2>2, <2>3, <3>1 DEF Owing, Coming
  <2>. QED
      BY <1>1, <1>3, <2>4 DEF OInv, Phase
<1>7. CASE process_buf_refused
  <2>1. /\ ~bad_length /\ totaltoget <= Len(work)
        /\ body_of(work)[1] # VER
        /\ parsed' = Append(parsed, body_of(work))
        /\ down' = down \o frame(ErrVer) /\ error_exit /\ UNCHANGED owed
      BY <1>7 DEF process_buf_refused
  <2>2. /\ body_of(work) = now /\ totaltoget = Len(work) /\ up = <<>>
        /\ Len(now) \in 1..(MaxLen - HdrLen) /\ Append(parsed, now) = sent
      BY <1>1, <2>1, MessageIsNow
  <2>3. answer(now) = ErrVer
      BY <2>1, <2>2 DEF answer
  <2>4. frame(ErrVer) \in Bytes /\ Len(frame(ErrVer)) = HdrLen + 2
      BY ErrVerType, FrameType
  <2>5. frame(ErrVer) # <<>>
      BY <2>4, SizesAssumption, LenBytes
  <2>6. down' = frame(ErrVer)
      BY <1>1, <2>1, <2>4, EmptyConcat DEF Coming
  <2>7. cbuf' \o down' = frame(answer(now)) /\ down' # <<>>
      BY <1>1, <2>3, <2>4, <2>5, <2>6, EmptyConcat DEF Coming
  <2>8. Quiet' /\ parsed' = sent' /\ conn' = "closed" /\ owed' = <<>>
      BY <1>1, <2>1, <2>2 DEF Quiet, error_exit, Coming
  <2>9. Answered'
      BY <1>2, <2>2, <2>7, <2>8 DEF Answered
  <2>. QED
      BY <1>1, <1>3, <2>9 DEF OInv, Phase
<1>. QED
    BY <1>4, <1>5, <1>6, <1>7 DEF process_buf

LEMMA RemoveOnly ==
    ASSUME NEW x
    PROVE  RemoveAt(<<x>>, 1) = <<>>
<1>1. SubSeq(<<x>>, 1, 0) = <<>> /\ SubSeq(<<x>>, 2, 1) = <<>>
    BY SubSeqEmpty
<1>. QED
    BY <1>1 DEF RemoveAt

LEMMA AnswerFrame ==
    ASSUME NEW b \in Bytes, Len(b) \in 1..(MaxLen - HdrLen)
    PROVE  /\ frame(answer(b)) \in Bytes /\ frame(answer(b)) # <<>>
           /\ Len(frame(answer(b))) = HdrLen + Len(answer(b))
           /\ Len(answer(b)) \in Nat
<1>1. answer(b) \in Bytes /\ Len(answer(b)) \in Nat
    BY AnswerType
<1>2. frame(answer(b)) \in Bytes /\ Len(frame(answer(b))) = HdrLen + Len(answer(b))
    BY <1>1, FrameType
<1>3. Len(frame(answer(b))) > 0
    BY <1>1, <1>2, SizesAssumption
<1>. QED
    BY <1>1, <1>2, <1>3, LenBytes

LEMMA ReplyOrder ==
    ASSUME OInv, reply
    PROVE  OInv'
<1>1. TypeInv /\ TypeInv'
    BY ReplyTypes DEF OInv
<1>2. PICK i : rep_send(i)
    BY DEF reply
<1>3. /\ i \in 1..Len(owed) /\ owed' = RemoveAt(owed, i)
      /\ down' = IF conn = "open" THEN down \o frame(answer(owed[i])) ELSE down
      /\ UNCHANGED <<up, conn, buf, pktsize, work, sent, parsed>>
      /\ UNCHANGED <<client, cbuf, from, replies, cut>>
    BY <1>2 DEF rep_send, cvars
<1>4. Owing
  <2>1. owed # <<>>
      BY <1>3
  <2>. QED
      BY <2>1 DEF OInv, Phase, Idle, Coming, Answered, CutOff, Gone
<1>5. owed = <<now>> /\ i = 1
    BY <1>3, <1>4 DEF Owing
<1>6. owed' = <<>> /\ owed[i] = now
    BY <1>3, <1>5, RemoveOnly
<1>7. now \in Bytes
    BY <1>1, <1>4, NowType DEF Owing
<1>8. frame(answer(now)) \in Bytes /\ frame(answer(now)) # <<>>
    BY <1>4, <1>7, AnswerFrame DEF Owing
<1>9. down' = frame(answer(now))
    BY <1>3, <1>4, <1>6, <1>8, EmptyConcat DEF Owing
<1>10. cbuf' \o down' = frame(answer(now)) /\ down' # <<>>
    BY <1>3, <1>4, <1>8, <1>9, EmptyConcat DEF Owing
<1>11. Answered'
    BY <1>3, <1>4, <1>6, <1>10 DEF Owing, Answered, Waiting, Quiet, now
<1>12. RepliesMatch' /\ LastCut'
    BY <1>3, MatchFrame DEF OInv
<1>. QED
    BY <1>1, <1>11, <1>12 DEF OInv, Phase

LEMMA DiesOrder ==
    ASSUME OInv, NEW n \in Nat, server_dies(n)
    PROVE  OInv'
<1>1. TypeInv /\ TypeInv'
    BY DiesTypes DEF OInv
<1>2. PICK rep : /\ rep = IF owed = <<>> THEN <<>> ELSE frame(answer(owed[1]))
                 /\ n \in 0..Len(down \o rep) /\ down' = take(down \o rep, n)
    BY DEF server_dies
<1>3. /\ conn = "open" /\ conn' = "dead"
      /\ up' = <<>> /\ buf' = <<>> /\ pktsize' = 0 /\ work' = <<>> /\ owed' = <<>>
      /\ UNCHANGED <<sent, parsed, client, cbuf, from, replies, cut>>
    BY DEF server_dies, cvars
<1>4. Quiet' /\ now' = now /\ (Waiting => Waiting')
    BY <1>3 DEF Quiet, now, Waiting
<1>5. RepliesMatch' /\ LastCut'
    BY <1>3, MatchFrame DEF OInv
<1>6. down \in Bytes /\ cbuf \in Bytes /\ down' \in Bytes
    BY <1>1, TypeParts, TypePartsNext DEF TypeClient
<1>7. CASE Idle \/ Coming
  <2>1. down \o rep = <<>>
      BY <1>2, <1>7, EmptyBytes, EmptyConcat DEF Idle, Coming
  <2>2. down' \in Bytes /\ Len(down') = 0
    <3>1. PICK e \in Bytes : e = down \o rep /\ Len(e) = 0
        BY <2>1, EmptyBytes
    <3>2. n \in 0..Len(e) /\ down' = take(e, n)
        BY <1>2, <3>1, Zenon
    <3>3. n = 0
        BY <3>1, <3>2
    <3>. QED
        BY <3>2, <3>3, TakeDropBytes
  <2>3. down' = <<>>
      BY <2>2, LenBytes
  <2>4. Idle' \/ Gone'
      BY <1>3, <1>4, <1>7, <2>3 DEF Idle, Coming, Gone
  <2>. QED
      BY <1>1, <1>5, <2>4 DEF OInv, Phase
<1>8. CASE Owing \/ Answered
  <2>1. Waiting /\ Len(now) \in 1..(MaxLen - HdrLen) /\ now[1] = VER /\ parsed = sent
      BY <1>3, <1>8 DEF Owing, Answered
  <2>2. now \in Bytes
      BY <1>1, <2>1, NowType
  <2>3. PICK f \in Bytes : f = frame(answer(now)) /\ f # <<>>
      BY <2>1, <2>2, AnswerFrame
  <2>4. rep \in Bytes /\ cbuf \o (down \o rep) = f
    <3>1. CASE Owing
      <4>1. owed # <<>> /\ owed[1] = now /\ cbuf = <<>> /\ down = <<>>
          BY <3>1 DEF Owing
      <4>. QED
          BY <1>2, <2>3, <4>1, EmptyConcat
    <3>2. CASE Answered
      <4>1. rep = <<>>
          BY <1>2, <3>2 DEF Answered
      <4>. QED
          BY <1>6, <2>3, <3>2, <4>1, EmptyBytes, EmptyConcat DEF Answered
    <3>. QED
        BY <1>8, <3>1, <3>2
  <2>5. PICK d \in Bytes : d = down \o rep
      BY <1>6, <2>4, Longer, Zenon
  <2>6. PICK r \in Bytes : r = drop(d, n) /\ down' \o r = d
    <3>1. n \in 0..Len(d) /\ down' = take(d, n)
        BY <1>2, <2>5, Zenon
    <3>. QED
        BY <3>1, TakeDropBytes
  <2>7. (cbuf \o down') \o r = f
    <3>1. (cbuf \o down') \o r = cbuf \o (down' \o r)
        BY <1>6, RegroupAll, ZenonT(60)
    <3>. QED
        BY <2>4, <2>5, <2>6, <3>1, Zenon
  <2>8. Len(cbuf) < Len(f)
    <3>1. Len(cbuf) + Len(d) = Len(f)
        BY <1>6, <2>4, <2>5, Longer, Zenon
    <3>2. d # <<>>
      <4>1. CASE Owing
        <5>1. d = f
            BY <1>6, <2>4, <2>5, <4>1, EmptyConcat DEF Owing
        <5>. QED
            BY <2>3, <5>1
      <4>2. CASE Answered
        <5>1. down # <<>> /\ rep = <<>>
            BY <1>2, <4>2 DEF Answered
        <5>. QED
            BY <1>6, <2>5, <5>1, EmptyConcat
      <4>. QED
          BY <1>8, <4>1, <4>2
    <3>. QED
        BY <1>6, <3>1, <3>2, LenBytes
  <2>9. CutOff'
    <3>1. cbuf' = cbuf /\ parsed' = sent' /\ Waiting'
        BY <1>3, <1>4, <2>1
    <3>2. \E rest \in Bytes : (cbuf' \o down') \o rest = frame(answer(now))
        BY <2>3, <2>7, <3>1, Zenon
    <3>. QED
        BY <1>3, <1>4, <2>1, <2>3, <2>8, <3>1, <3>2, Zenon DEF CutOff
  <2>. QED
      BY <1>1, <1>5, <2>9 DEF OInv, Phase
<1>. QED
    BY <1>3, <1>7, <1>8 DEF OInv, Phase, CutOff, Gone

LEMMA SendOrder ==
    ASSUME OInv, ~Pipelined, NEW b \in Bodies, tcp_srv_send(b)
    PROVE  OInv'
<1>1. TypeInv /\ TypeInv'
    BY SendTypes DEF OInv
<1>2. /\ client = "open" /\ conn = "open" /\ Len(replies) = Len(sent)
      /\ up' = up \o frame(b) /\ sent' = Append(sent, b)
      /\ UNCHANGED <<down, conn, buf, pktsize, work, owed, parsed>>
      /\ UNCHANGED <<client, cbuf, from, replies, cut>>
    BY DEF tcp_srv_send, svars, cvars
<1>3. sent \in Seq(Bodies) /\ Len(sent) \in Nat /\ Len(replies) \in Nat
      /\ DOMAIN replies = 1..Len(replies)
    BY <1>1, TypeParts DEF TypeCalls
<1>4. /\ Len(sent') = Len(sent) + 1 /\ sent'[Len(sent) + 1] = b
      /\ \A i \in 1..Len(sent) : sent'[i] = sent[i]
      /\ Front(sent') = sent
  <2>1. /\ Len(Append(sent, b)) = Len(sent) + 1 /\ Append(sent, b)[Len(sent) + 1] = b
        /\ \A i \in 1..Len(sent) : Append(sent, b)[i] = sent[i]
        /\ (Len(sent) + 1) - 1 = Len(sent)
      BY <1>3
  <2>2. SubSeq(Append(sent, b), 1, Len(sent)) = sent
      BY <1>3
  <2>. QED
      BY <1>2, <2>1, <2>2, Zenon DEF Front
<1>5. Idle
  <2>1. ~Waiting
    <3>1. \A k \in Nat : k # k + 1
        OBVIOUS
    <3>. QED
        BY <1>2, <1>3, <3>1, Zenon DEF Waiting
  <2>. QED
      BY <2>1 DEF OInv, Phase, Coming, Owing, Answered, CutOff, Gone
<1>6. now' = b /\ Waiting'
    BY <1>2, <1>4 DEF now, Waiting
<1>7. frame(b) \in Bytes
    BY BodiesAssumption, FrameType DEF Bytes
<1>8. up' = frame(b) /\ held' = <<>>
    BY <1>2, <1>5, <1>7, EmptyConcat DEF Idle, Quiet, held
<1>9. held' \o up' = frame(now')
    BY <1>6, <1>7, <1>8, EmptyConcat
<1>10. Coming'
    BY <1>2, <1>4, <1>5, <1>6, <1>9 DEF Coming, Idle
<1>11. RepliesMatch'
    BY <1>2, <1>3, <1>4 DEF OInv, RepliesMatch
<1>12. LastCut'
    BY <1>2 DEF OInv, LastCut
<1>. QED
    BY <1>1, <1>10, <1>11, <1>12 DEF OInv, Phase

(* The first part of d is read on to c. *)
LEMMA MoveOn ==
    ASSUME NEW c \in Bytes, NEW d \in Bytes, NEW rest \in Bytes, NEW n \in 1..Len(d)
    PROVE  \E t, e \in Bytes :
              /\ t = take(d, n) /\ e = drop(d, n)
              /\ c \o t \in Bytes
              /\ ((c \o t) \o e) \o rest = (c \o d) \o rest
              /\ (c \o t) \o (e \o rest) = (c \o d) \o rest
<1>1. n \in 0..Len(d)
    BY LenBytes
<1>2. PICK t \in Bytes : t = take(d, n)
    BY <1>1, TakeDropBytes, Zenon
<1>3. PICK e \in Bytes : e = drop(d, n) /\ t \o e = d
    BY <1>1, <1>2, TakeDropBytes, Zenon
<1>4. PICK g \in Bytes : g = c \o t
    BY Longer, Zenon
<1>5. (c \o t) \o e = c \o (t \o e)
  <2>1. \A x, y \in Bytes : (c \o x) \o y = c \o (x \o y)
      BY RegroupAll, Zenon
  <2>2. \A y \in Bytes : (c \o t) \o y = c \o (t \o y)
      BY <2>1, Zenon
  <2>. QED
      BY <2>2, Zenon
<1>6. (g \o e) \o rest = g \o (e \o rest)
    BY RegroupAll, Zenon
<1>7. g \o e = c \o d
    BY <1>3, <1>4, <1>5, Zenon
<1>. QED
    BY <1>2, <1>3, <1>4, <1>6, <1>7, Zenon

LEMMA MoveOnAll ==
    \A c, d, rest \in Bytes : \A n \in 1..Len(d) :
        \E t, e \in Bytes :
              /\ t = take(d, n) /\ e = drop(d, n)
              /\ c \o t \in Bytes
              /\ ((c \o t) \o e) \o rest = (c \o d) \o rest
              /\ (c \o t) \o (e \o rest) = (c \o d) \o rest
<1> TAKE c, d, rest \in Bytes
<1> TAKE n \in 1..Len(d)
<1>. QED
    BY MoveOn, ZenonT(60)

(* recv_msg stops at the end of the reply and not before. *)
LEMMA ReadOn ==
    ASSUME NEW a \in Bytes, fits(HdrLen + Len(a)), NEW g \in Bytes, NEW e \in Bytes,
           NEW rest \in Bytes, g \o (e \o rest) = frame(a)
    PROVE  /\ is_whole(g) => g = frame(a) /\ e = <<>>
           /\ ~is_whole(g) => Len(g) < Len(frame(a))
<1>7. e \o rest \in Bytes /\ Len(e \o rest) = Len(e) + Len(rest)
    BY Longer
<1>8. frame(a) \in Bytes /\ Len(frame(a)) = HdrLen + Len(a)
    BY FrameType
<1>9. HdrLen \in Nat /\ Len(a) \in Nat /\ Len(g) \in Nat
    BY LenBytes, SizesAssumption
<1>10. Len(g) >= HdrLen => ntohl(g) = HdrLen + Len(a)
    BY <1>7, FrameLength
<1>11. ASSUME is_whole(g) PROVE g = frame(a) /\ e = <<>>
  <2>1. Len(g) >= Len(frame(a))
      BY <1>8, <1>10, <1>11, Zenon DEF is_whole
  <2>2. g = frame(a) /\ e \o rest = <<>>
      BY <1>7, <1>8, <2>1, Complete
  <2>3. Len(e) + Len(rest) = 0
      BY <1>7, <2>2, EmptyBytes, Zenon
  <2>4. Len(e) = 0
      BY <2>3, LenBytes
  <2>. QED
      BY <2>2, <2>4, LenBytes
<1>12. ASSUME ~is_whole(g) PROVE Len(g) < Len(frame(a))
  <2>1. CASE Len(g) >= HdrLen
    <3>1. ntohl(g) = HdrLen + Len(a) /\ ~(Len(g) >= ntohl(g))
        BY <1>10, <1>12, <2>1 DEF is_whole
    <3>2. ~(Len(g) >= HdrLen + Len(a))
        BY <3>1, Zenon
    <3>. QED
        BY <1>8, <1>9, <3>2
  <2>2. CASE ~(Len(g) >= HdrLen)
      BY <1>8, <1>9, <2>2
  <2>. QED
      BY <2>1, <2>2
<1>. QED
    BY <1>11, <1>12, Zenon

(* do_get finds the value longer than what came of it. *)
LEMMA CutIsNoticed ==
    ASSUME NEW b \in Bytes, Len(b) \in 1..(MaxLen - HdrLen), b[1] = VER,
           NEW w \in Bytes, NEW rest \in Bytes, w \o rest = frame(answer(b)),
           value_at <= Len(w), Len(w) < Len(frame(answer(b)))
    PROVE  do_get(w, b) = Error
<1>1. /\ HdrLen \in Nat \ {0} /\ Len(w) \in Nat /\ Len(b) \in Nat \ {0} /\ MaxLen \in Nat
      /\ Len(b) \in 0..(MaxLen + HdrLen)
    BY LenBytes, SizesAssumption
<1>2. /\ answer(b) \in Bytes /\ Len(answer(b)) = HdrLen + Len(b)
      /\ answer(b)[1] = REP_OK
      /\ \A i \in 1..HdrLen : answer(b)[1 + i] = htonl(Len(b) - 1)[i]
    BY AnswerType
<1>3. /\ Len(frame(answer(b))) = HdrLen + Len(answer(b))
      /\ \A i \in 1..Len(answer(b)) : frame(answer(b))[HdrLen + i] = answer(b)[i]
    BY <1>2, FrameType
<1>4. /\ HdrLen + 1 \in 1..Len(w) /\ 1 \in 1..(HdrLen + Len(b))
      /\ \A i \in 1..HdrLen : /\ HdrLen + 1 + i \in 1..Len(w)
                              /\ HdrLen + 1 + i <= Len(w)
                              /\ HdrLen + (1 + i) = HdrLen + 1 + i
                              /\ 1 + i \in 1..(HdrLen + Len(b))
    BY <1>1 DEF value_at
<1>5. \A i \in 1..Len(w) : w[i] = frame(answer(b))[i]
    BY Longer
<1>6. w[HdrLen + 1] = REP_OK
    BY <1>2, <1>3, <1>4, <1>5, Zenon
<1>7. \A i \in 1..HdrLen : w[HdrLen + 1 + i] = htonl(Len(b) - 1)[i]
    BY <1>2, <1>3, <1>4, <1>5, Zenon
<1>8. PICK digits : digits = [i \in 1..HdrLen |->
                                IF HdrLen + 1 + i <= Len(w) THEN w[HdrLen + 1 + i]
                                ELSE frame(b)[HdrLen + 1 + i]]
    OBVIOUS
<1>9. ntohl(digits) = Len(b) - 1
  <2>1. \A i \in 1..HdrLen : digits[i] = htonl(Len(b) - 1)[i]
      BY <1>4, <1>7, <1>8, Zenon
  <2>2. Len(b) - 1 \in Nat /\ Len(b) - 1 \in 0..(MaxLen + HdrLen)
      BY <1>1
  <2>3. fits(Len(b) - 1)
      BY <2>2, DigitsAssumption, Zenon
  <2>. QED
      BY <2>1, <2>2, <2>3, NtohlHtonl, Zenon
<1>10. /\ HdrLen + 1 <= Len(w)
       /\ Len(w) - (HdrLen + 1) >= HdrLen
       /\ Len(b) - 1 > (Len(w) - (HdrLen + 1)) - HdrLen
    BY <1>1, <1>2, <1>3 DEF value_at
<1>. QED
    BY <1>6, <1>8, <1>9, <1>10, Zenon DEF do_get

(* The last call returns. *)
LEMMA Returns ==
    ASSUME TypeInv, RepliesMatch, cut = 0, Waiting, NEW x, replies' = Append(replies, x),
           UNCHANGED <<sent, conn>>,
           \/ x = do_get(frame(answer(now)), now)
           \/ conn = "dead" /\ cut' > 0 /\ (x = Error \/ cut' < value_at)
    PROVE  RepliesMatch' /\ Len(replies') = Len(sent')
<1>1. Len(replies) \in Nat /\ DOMAIN replies = 1..Len(replies)
      /\ \E S : replies \in Seq(S)
    BY TypeParts DEF TypeCalls
<1>2. /\ Len(replies') = Len(replies) + 1
      /\ \A i \in 1..Len(replies) : replies'[i] = replies[i]
      /\ replies'[Len(replies) + 1] = x
      /\ DOMAIN replies' = 1..(Len(replies) + 1)
  <2>1. PICK S : replies \in Seq(S)
      BY <1>1
  <2>2. PICK T : replies \in Seq(T) /\ x \in T
    <3>1. replies = [i \in 1..Len(replies) |-> replies[i]] /\ Len(replies) \in Nat
          /\ \A i \in 1..Len(replies) : replies[i] \in S \cup {x}
        BY <2>1
    <3>2. PICK U : U = S \cup {x}
        OBVIOUS
    <3>3. replies \in Seq(U)
        BY <3>1, <3>2
    <3>. QED
        BY <3>2, <3>3
  <2>3. PICK r : r = Append(replies, x)
      OBVIOUS
  <2>4. /\ Len(r) = Len(replies) + 1
        /\ \A i \in 1..Len(replies) : r[i] = replies[i]
        /\ r[Len(replies) + 1] = x
        /\ DOMAIN r = 1..(Len(replies) + 1)
      BY <2>2, <2>3
  <2>. QED
      BY <2>3, <2>4, Zenon
<1>3. Len(replies) + 1 = Len(sent) /\ now = sent[Len(replies) + 1] /\ sent' = sent
    BY DEF Waiting, now
<1>4. \A i \in 1..Len(replies) : replies[i] = do_get(frame(answer(sent[i])), sent[i])
    BY <1>1 DEF RepliesMatch
<1>5. \A i \in 1..(Len(replies) + 1) : i \in 1..Len(replies) \/ i = Len(replies) + 1
    BY <1>1
<1>6. ASSUME NEW i \in DOMAIN replies'
      PROVE  \/ replies'[i] = do_get(frame(answer(sent[i])), sent[i])
             \/ /\ conn' = "dead" /\ cut' > 0
                /\ replies'[i] = Error \/ cut' < value_at
    BY <1>2, <1>3, <1>4, <1>5, Zenon
<1>. QED
    BY <1>2, <1>3, <1>6, Zenon DEF RepliesMatch

LEMMA GetRepOrder ==
    ASSUME OInv, get_rep
    PROVE  OInv'
<1>1. TypeInv /\ TypeInv'
    BY GetRepTypes DEF OInv
<1>2. UNCHANGED <<up, conn, buf, pktsize, work, owed, sent, parsed, client>>
    BY DEF get_rep, recv_msg_cut, recv_msg, svars
<1>3. down \in Bytes /\ cbuf \in Bytes /\ Len(down) \in Nat /\ Len(cbuf) \in Nat
      /\ cut \in Nat /\ from \in Nat
    BY <1>1, TypeParts, LenBytes DEF TypeClient
<1>4. Answered \/ CutOff
  <2>1. down # <<>> \/ cbuf # <<>>
    <3>1. CASE recv_msg_cut
      <4>1. from > 0 /\ Len(cbuf) > from
          BY <3>1 DEF recv_msg_cut
      <4>2. Len(cbuf) > 0
          BY <1>3, <4>1
      <4>. QED
          BY <1>3, <4>2, LenBytes
    <3>2. CASE \E n \in 1..Len(down) : recv_msg(n)
      <4>1. Len(down) > 0
          BY <1>3, <3>2
      <4>. QED
          BY <1>3, <4>1, LenBytes
    <3>. QED
        BY <3>1, <3>2 DEF get_rep
  <2>. QED
      BY <2>1 DEF OInv, Phase, Idle, Coming, Owing, Gone
<1>5. /\ Waiting /\ Quiet /\ owed = <<>> /\ parsed = sent
      /\ Len(now) \in 1..(MaxLen - HdrLen)
    BY <1>4 DEF Answered, CutOff
<1>6. cut = 0
  <2>1. \A k \in Nat : k # k + 1
      OBVIOUS
  <2>2. Len(replies) # Len(sent)
      BY <1>1, <1>5, <2>1, NowType, Zenon DEF Waiting
  <2>3. ~(cut > 0)
      BY <2>2 DEF OInv, LastCut
  <2>. QED
      BY <1>3, <2>3
<1>7. now \in Bytes
    BY <1>1, <1>5, NowType
<1>8. PICK a \in Bytes : a = answer(now) /\ fits(HdrLen + Len(a))
    BY <1>5, <1>7, AnswerType
<1>9. PICK rest \in Bytes : /\ (cbuf \o down) \o rest = frame(a)
                            /\ Answered => rest = <<>>
  <2>1. CASE Answered
    <3>1. cbuf \o down = frame(a)
        BY <1>8, <2>1 DEF Answered
    <3>2. frame(a) \in Bytes
        BY FrameType
    <3>3. (cbuf \o down) \o <<>> = frame(a)
        BY <3>1, <3>2, EmptyConcat
    <3>. QED
        BY <3>3, EmptyBytes
  <2>2. CASE CutOff
    <3>1. ~Answered
        BY <2>2 DEF CutOff, Answered
    <3>. QED
        BY <1>8, <2>2, <3>1 DEF CutOff
  <2>. QED
      BY <1>4, <2>1, <2>2
<1>10. req_now = now
    BY <1>5 DEF req_now, now, Waiting
<1>11. Quiet' /\ owed' = <<>> /\ parsed' = sent'
    BY <1>2, <1>5 DEF Quiet
<1>12. CASE recv_msg_cut
  <2>1. /\ conn # "open" /\ down = <<>> /\ from > 0 /\ Len(cbuf) > from
        /\ replies' = Append(replies, do_get(cbuf, now))
        /\ cut' = Len(cbuf) /\ cbuf' = <<>> /\ down' = down
      BY <1>10, <1>12 DEF recv_msg_cut
  <2>2. CutOff
      BY <1>4, <2>1 DEF Answered
  <2>3. now[1] = VER /\ conn = "dead" /\ Len(cbuf) < Len(frame(answer(now)))
      BY <2>2 DEF CutOff
  <2>4. cbuf \o rest = frame(answer(now))
      BY <1>3, <1>8, <1>9, <2>1, EmptyConcat
  <2>5. cut' > 0 /\ (do_get(cbuf, now) = Error \/ cut' < value_at)
    <3>1. cut' > 0 /\ (value_at <= Len(cbuf) \/ cut' < value_at)
        BY <1>3, <2>1, SizesAssumption DEF value_at
    <3>2. value_at <= Len(cbuf) => do_get(cbuf, now) = Error
        BY <1>3, <1>5, <1>7, <2>3, <2>4, CutIsNoticed
    <3>. QED
        BY <3>1, <3>2
  <2>6. RepliesMatch' /\ Len(replies') = Len(sent')
      BY <1>1, <1>2, <1>5, <1>6, <2>1, <2>3, <2>5, Returns DEF OInv
  <2>7. LastCut'
      BY <1>2, <2>3, <2>6 DEF LastCut
  <2>8. Idle'
      BY <1>11, <2>1, <2>6 DEF Idle
  <2>. QED
      BY <1>1, <2>6, <2>7, <2>8 DEF OInv, Phase
<1>13. ASSUME NEW n \in 1..Len(down), recv_msg(n)
       PROVE  OInv'
  <2>1. PICK got : /\ got = cbuf \o take(down, n)
                   /\ is_whole(got) => /\ replies' = Append(replies, do_get(got, now))
                                       /\ cbuf' = <<>>
                   /\ ~is_whole(got) => cbuf' = got /\ replies' = replies
      BY <1>10, <1>13 DEF recv_msg
  <2>2. down' = drop(down, n) /\ cut' = cut
      BY <1>13 DEF recv_msg
  <2>3. /\ got \in Bytes /\ drop(down, n) \in Bytes
        /\ (got \o drop(down, n)) \o rest = frame(a)
        /\ is_whole(got) => got = frame(a) /\ drop(down, n) = <<>>
        /\ ~is_whole(got) => Len(got) < Len(frame(a))
    <3>1. PICK t, e \in Bytes :
              /\ t = take(down, n) /\ e = drop(down, n)
              /\ cbuf \o t \in Bytes
              /\ ((cbuf \o t) \o e) \o rest = (cbuf \o down) \o rest
              /\ (cbuf \o t) \o (e \o rest) = (cbuf \o down) \o rest
      <4>1. \A d, r \in Bytes : \A m \in 1..Len(d) :
               \E t, e \in Bytes :
                  /\ t = take(d, m) /\ e = drop(d, m)
                  /\ cbuf \o t \in Bytes
                  /\ ((cbuf \o t) \o e) \o r = (cbuf \o d) \o r
                  /\ (cbuf \o t) \o (e \o r) = (cbuf \o d) \o r
          BY <1>3, MoveOnAll, Zenon
      <4>2. \A r \in Bytes : \A m \in 1..Len(down) :
               \E t, e \in Bytes :
                  /\ t = take(down, m) /\ e = drop(down, m)
                  /\ cbuf \o t \in Bytes
                  /\ ((cbuf \o t) \o e) \o r = (cbuf \o down) \o r
                  /\ (cbuf \o t) \o (e \o r) = (cbuf \o down) \o r
          BY <1>3, <4>1, Zenon
      <4>. QED
          BY <4>2, Zenon
    <3>2. PICK g \in Bytes : g = cbuf \o t /\ g = got
        BY <2>1, <3>1, Zenon
    <3>3. (g \o e) \o rest = frame(a) /\ g \o (e \o rest) = frame(a)
        BY <1>9, <3>1, <3>2, Zenon
    <3>4. /\ is_whole(g) => g = frame(a) /\ e = <<>>
          /\ ~is_whole(g) => Len(g) < Len(frame(a))
      <4>1. fits(HdrLen + Len(a))
          BY <1>8, Zenon
      <4>. QED
          BY <3>3, <4>1, ReadOn, Zenon
    <3>. QED
        BY <3>1, <3>2, <3>3, <3>4, Zenon
  <2>4. CASE is_whole(got)
    <3>1. replies' = Append(replies, do_get(frame(answer(now)), now))
          /\ cbuf' = <<>> /\ down' = <<>>
        BY <1>8, <2>1, <2>2, <2>3, <2>4
    <3>2. RepliesMatch' /\ Len(replies') = Len(sent')
        BY <1>1, <1>2, <1>5, <1>6, <3>1, Returns DEF OInv
    <3>3. LastCut'
        BY <1>6, <2>2 DEF LastCut
    <3>4. Idle'
        BY <1>11, <3>1, <3>2 DEF Idle
    <3>. QED
        BY <1>1, <3>2, <3>3, <3>4 DEF OInv, Phase
  <2>5. CASE ~is_whole(got)
    <3>1. cbuf' = got /\ replies' = replies /\ Waiting' /\ now' = now
        BY <1>2, <1>5, <2>1, <2>5 DEF Waiting, now
    <3>2. RepliesMatch' /\ LastCut'
        BY <1>2, <2>2, <3>1, MatchFrame DEF OInv
    <3>3. Len(cbuf') < Len(frame(answer(now))) /\ cbuf' \in Bytes /\ down' \in Bytes
          /\ (cbuf' \o down') \o rest = frame(answer(now))
        BY <1>8, <2>2, <2>3, <2>5, <3>1
    <3>4. CASE CutOff
      <4>1. CutOff'
          BY <1>2, <1>5, <1>11, <3>1, <3>3, <3>4 DEF CutOff
      <4>. QED
          BY <1>1, <3>2, <4>1 DEF OInv, Phase
    <3>5. CASE Answered
      <4>1. cbuf' \o down' \in Bytes /\ rest = <<>>
          BY <1>9, <3>3, <3>5, Longer
      <4>2. cbuf' \o down' = frame(answer(now))
          BY <3>3, <4>1, EmptyConcat
      <4>3. down' # <<>>
        <5>1. ASSUME down' = <<>> PROVE FALSE
          <6>1. cbuf' = frame(answer(now))
              BY <3>3, <4>2, <5>1, EmptyConcat
          <6>2. Len(cbuf') \in Nat /\ Len(cbuf') < Len(cbuf')
              BY <3>3, <6>1, LenBytes, Zenon
          <6>. QED
              BY <6>2
        <5>. QED
            BY <5>1
      <4>4. Answered'
          BY <1>2, <1>5, <1>11, <3>1, <3>5, <4>2, <4>3 DEF Answered
      <4>. QED
          BY <1>1, <3>2, <4>4 DEF OInv, Phase
    <3>. QED
        BY <1>4, <3>4, <3>5
  <2>. QED
      BY <2>4, <2>5
<1>. QED
    BY <1>12, <1>13 DEF get_rep

LEMMA InitOrder == Init => OInv
<1> SUFFICES ASSUME Init PROVE OInv
    OBVIOUS
<1>1. TypeInv
    BY InitTypes
<1>2. Idle /\ LastCut
    BY DEF Init, Idle, Quiet, LastCut
<1>3. RepliesMatch
    BY DEF Init, RepliesMatch
<1>. QED
    BY <1>1, <1>2, <1>3 DEF OInv, Phase

LEMMA NextOrder ==
    ASSUME ~Pipelined
    PROVE  OInv /\ [Next]_vars => OInv'
<1> SUFFICES ASSUME OInv, [Next]_vars PROVE OInv'
    OBVIOUS
<1>0. TypeInv'
    BY NextTypes DEF OInv
<1>1. CASE tcp_recv_eof
  <2>1. /\ error_exit /\ conn = "open" /\ client # "open"
        /\ UNCHANGED <<down, owed, sent, parsed, client, cbuf, from, replies, cut>>
      BY <1>1 DEF tcp_recv_eof, cvars
  <2>2. Idle
      BY <2>1 DEF OInv, Phase, Coming, Owing, Answered, CutOff, Gone
  <2>3. Idle'
      BY <2>1, <2>2 DEF Idle, Quiet, error_exit
  <2>4. RepliesMatch' /\ LastCut'
      BY <2>1, MatchFrame DEF OInv
  <2>. QED
      BY <1>0, <2>3, <2>4 DEF OInv, Phase
<1>2. CASE get_rep_fails \/ nmdb_free
  <2>1. /\ conn # "open" \/ Len(replies) = Len(sent)
        /\ UNCHANGED <<up, down, conn, buf, pktsize, work, owed>>
        /\ UNCHANGED <<cbuf, from, replies, cut, sent, parsed>>
      BY <1>2 DEF get_rep_fails, nmdb_free, svars
  <2>2. ~Coming /\ ~Owing /\ (Answered => conn # "open")
    <3>1. \A k \in Nat : k # k + 1
        OBVIOUS
    <3>2. Waiting => Len(replies) # Len(sent)
        BY <3>1, NowType, Zenon DEF OInv, Waiting
    <3>. QED
        BY <2>1, <3>2 DEF Coming, Owing, Answered
  <2>3. now' = now /\ (Waiting => Waiting') /\ (Quiet => Quiet')
      BY <2>1 DEF now, Waiting, Quiet
  <2>4. Phase'
    <3>1. CASE Idle
        BY <2>1, <2>3, <3>1 DEF Phase, Idle
    <3>2. CASE Answered
        BY <2>1, <2>2, <2>3, <3>2 DEF Phase, Answered
    <3>3. CASE CutOff
        BY <2>1, <2>3, <3>3 DEF Phase, CutOff
    <3>4. CASE Gone
        BY <2>1, <2>3, <3>4 DEF Phase, Gone
    <3>. QED
        BY <2>2, <3>1, <3>2, <3>3, <3>4 DEF OInv, Phase
  <2>5. RepliesMatch' /\ LastCut'
      BY <2>1, MatchFrame DEF OInv
  <2>. QED
      BY <1>0, <2>4, <2>5 DEF OInv
<1>3. CASE UNCHANGED vars
  <2>1. /\ UNCHANGED <<up, down, conn, buf, pktsize, work, owed, sent, parsed>>
        /\ UNCHANGED <<client, cbuf, from, replies, cut>>
      BY <1>3 DEF vars, svars, cvars
  <2>2. now' = now /\ (Waiting <=> Waiting') /\ (Quiet <=> Quiet') /\ held' = held
      BY <2>1 DEF now, Waiting, Quiet, held
  <2>3. Phase'
      BY <2>1, <2>2 DEF OInv, Phase, Idle, Coming, Owing, Answered, CutOff, Gone
  <2>4. RepliesMatch' /\ LastCut'
      BY <2>1, MatchFrame DEF OInv
  <2>. QED
      BY <1>0, <2>3, <2>4 DEF OInv
<1>4. CASE \E n \in 0..(2 * SBSIZE) : server_dies(n)
  <2>1. PICK n \in Nat : server_dies(n)
      BY <1>4, SizesAssumption
  <2>. QED
      BY <2>1, DiesOrder
<1>. QED
    BY <1>1, <1>2, <1>3, <1>4, ReceiveOrder, ProcessOrder, ReplyOrder, GetRepOrder,
       SendOrder DEF Next, Over

LEMMA Order ==
    ASSUME ~Pipelined
    PROVE  Spec => []OInv
<1>1. OInv /\ [Next]_vars => OInv'
    BY NextOrder
<1>. QED
    BY <1>1, InitOrder, PTL DEF Spec

(* A client that waits for each reply has its requests parsed as it sent   *)
(* them, in their order, wherever TCP cuts them and whatever dies: the     *)
(* excess that process_buf moves to the front is then always empty.        *)
THEOREM RequestsInOrder ==
    ASSUME ~Pipelined
    PROVE  Spec => []ParsedInOrder
<1>1. OInv => ParsedInOrder
  <2> SUFFICES ASSUME OInv PROVE ParsedInOrder
      OBVIOUS
  <2>1. sent \in Seq(Bodies) /\ Len(sent) \in Nat
      BY TypeParts DEF OInv, TypeCalls
  <2>2. parsed = sent \/ (Waiting /\ parsed = Front(sent))
      BY DEF OInv, Phase, Idle, Coming, Owing, Answered, CutOff, Gone
  <2>3. CASE parsed = sent
      BY <2>1, <2>3 DEF ParsedInOrder, IsPrefix
  <2>4. CASE Waiting /\ parsed = Front(sent)
    <3>1. Len(sent) \in Nat \ {0}
        BY <2>4, NowType DEF OInv
    <3>2. Len(Front(sent)) = Len(sent) - 1 /\ Front(sent) \in Seq(Bodies)
      <4>0. \A m \in Nat \ {0} : m - 1 \in Nat /\ m - 1 <= m
          OBVIOUS
      <4>1. PICK k \in Nat : k = Len(sent) - 1
          BY <3>1, <4>0, Zenon
      <4>2. k <= Len(sent)
          BY <3>1, <4>0, <4>1, Zenon
      <4>3. SubSeq(sent, 1, k) \in Seq(Bodies) /\ Len(SubSeq(sent, 1, k)) = k
          BY <2>1, <4>2
      <4>. QED
          BY <4>1, <4>3, Zenon DEF Front
    <3>3. SubSeq(Front(sent), 1, Len(Front(sent))) = Front(sent)
        BY <3>2, SubSeqFull
    <3>4. Len(Front(sent)) <= Len(sent)
        BY <2>1, <3>2
    <3>. QED
      <4>1. \A k : k = Len(sent) - 1 => SubSeq(sent, 1, k) = Front(sent)
          BY Zenon DEF Front
      <4>2. SubSeq(sent, 1, Len(Front(sent))) = Front(sent)
          BY <3>2, <4>1, Zenon
      <4>. QED
          BY <2>4, <3>3, <3>4, <4>2, Zenon DEF ParsedInOrder, IsPrefix
  <2>. QED
      BY <2>2, <2>3, <2>4
<1>2. Spec => []OInv
    BY Order
<1>. QED
    BY <1>1, <1>2, PTL

(* Every call returns what do_get makes of the whole reply to its own      *)
(* request, or an error after the server's death has cut that reply        *)
(* short; only a cut before the end of the value's size goes unnoticed.    *)
THEOREM CallsGetTheirReply ==
    ASSUME ~Pipelined
    PROVE  Spec => []RepliesMatch
<1>1. OInv => RepliesMatch
    BY DEF OInv
<1>2. Spec => []OInv
    BY Order
<1>. QED
    BY <1>1, <1>2, PTL

(* The server never hangs up, for whatever cuts, on a client that is there *)
(* and has sent a request of a size and version it takes, unless it has no *)
(* memory for the part of it that has come.                                *)
THEOREM HangsUpForCause ==
    ASSUME ~Pipelined
    PROVE  Spec => ClosedForCause
<1> DEFINE Cause == \/ client # "open"
                    \/ ~acceptable(Last(sent))
                    \/ MemFaults /\ buf = <<>> /\ Len(work) < HdrLen + Len(Last(sent))
<1>1. ASSUME OInv, Next, conn = "open", conn' = "closed"
      PROVE  Cause
  <2>1. CASE tcp_recv_eof
      BY <2>1 DEF tcp_recv_eof
  <2>2. CASE process_buf
    <3>1. Coming /\ TypeInv /\ work # <<>>
        BY <1>1, <2>2, ProcessIsComing
    <3>2. Waiting /\ work \o up = frame(now) /\ Last(sent) = now
        BY <3>1 DEF Coming, held, Last, now
    <3>3. work \in Bytes /\ up \in Bytes /\ Len(work) \in Nat
        BY <3>1, TypeParts, LenBytes DEF TypeServer
    <3>4. now \in Bytes /\ fits(HdrLen + Len(now)) /\ Len(now) \in Nat
        BY <3>1, <3>2, NowType
    <3>5. Len(work) >= HdrLen => ntohl(work) = HdrLen + Len(now)
        BY <3>2, <3>3, <3>4, FrameLength
    <3>6. HdrLen \in Nat /\ MinLen \in Nat /\ MaxLen \in Nat
        BY SizesAssumption
    <3>7. CASE process_buf_bad_length
      <4>1. Len(work) >= HdrLen /\ (ntohl(work) > MaxLen \/ ntohl(work) <= MinLen)
          BY <3>7 DEF process_buf_bad_length, bad_length
      <4>2. HdrLen + Len(now) > MaxLen \/ HdrLen + Len(now) <= MinLen
          BY <3>5, <4>1, Zenon
      <4>3. ~acceptable(now)
          BY <3>4, <3>6, <4>2 DEF acceptable
      <4>. QED
          BY <3>2, <4>3
    <3>8. CASE process_buf_no_memory
      <4>1. MemFaults /\ buf = <<>> /\ totaltoget > Len(work)
          BY <3>8 DEF process_buf_no_memory
      <4>2. Len(work) < HdrLen + Len(now)
        <5>1. CASE Len(work) >= HdrLen
          <6>1. HdrLen + Len(now) > Len(work)
              BY <3>5, <4>1, <5>1, Zenon DEF totaltoget
          <6>. QED
              BY <3>3, <3>4, <3>6, <6>1
        <5>2. CASE ~(Len(work) >= HdrLen)
            BY <3>3, <3>4, <3>6, <5>2
        <5>. QED
            BY <5>1, <5>2
      <4>. QED
          BY <3>2, <4>1, <4>2
    <3>9. CASE process_buf_refused
      <4>1. ~bad_length /\ totaltoget <= Len(work) /\ body_of(work)[1] # VER
          BY <3>9 DEF process_buf_refused
      <4>2. body_of(work) = now
          BY <3>1, <4>1, MessageIsNow
      <4>. QED
          BY <3>2, <4>1, <4>2 DEF acceptable
    <3>10. CASE process_buf_short \/ process_buf_message
        BY <1>1, <3>10 DEF process_buf_short, process_buf_message
    <3>. QED
        BY <2>2, <3>7, <3>8, <3>9, <3>10 DEF process_buf
  <2>3. CASE receive \/ reply
      BY <1>1, <2>3 DEF receive, reply, tcp_recv, tcp_recv_more, rep_send
  <2>4. CASE \E n \in 0..(2 * SBSIZE) : server_dies(n)
      BY <1>1, <2>4 DEF server_dies
  <2>5. CASE get_rep \/ get_rep_fails \/ nmdb_free \/ \E b \in Bodies : tcp_srv_send(b)
      BY <1>1, <2>5 DEF get_rep, recv_msg, recv_msg_cut, get_rep_fails, nmdb_free,
                        tcp_srv_send, svars
  <2>6. CASE Over
      BY <1>1, <2>6 DEF Over, vars, svars
  <2>. QED
      BY <1>1, <2>1, <2>2, <2>3, <2>4, <2>5, <2>6 DEF Next
<1>2. OInv /\ [Next]_vars => [conn = "open" /\ conn' = "closed" => Cause]_vars
    BY <1>1
<1> HIDE DEF Cause
<1>3. Spec => []OInv
    BY Order
<1>4. Spec => [][conn = "open" /\ conn' = "closed" => Cause]_vars
    BY <1>2, <1>3, PTL DEF Spec
<1>. QED
    BY <1>4 DEF ClosedForCause, Cause

=============================================================================
