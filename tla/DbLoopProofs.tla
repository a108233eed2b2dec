---------------------------- MODULE DbLoopProofs ----------------------------
(***************************************************************************)
(* Theorems about DbLoop, for any set of entries: what the two threads do  *)
(* to the queue, at every interleaving, with failing waits and without.    *)
(***************************************************************************)
EXTENDS DbLoop, TLAPS

(* size follows the list, a step behind while a thread is at it. *)
SizeInStep ==
    size + (IF epc = "size" THEN 1 ELSE 0)
        = Len(puts) - Len(gets) + (IF dpc = "size" THEN 1 ELSE 0)

(* The list, without its size. *)
ListIntact ==
    /\ Len(gets) <= Len(puts)
    /\ \A i \in 1..Len(gets) : gets[i] = puts[i]
    /\ Len(gets) = Len(puts) => top = Null /\ bottom = Null
    /\ Len(gets) < Len(puts) =>
          /\ bottom = puts[Len(gets) + 1] /\ top = puts[Len(puts)]
          /\ \A i \in (Len(gets) + 1)..(Len(puts) - 1) :
                prev[puts[i]] = puts[i + 1]
          /\ prev[puts[Len(puts)]] = Null

(* No entry is put twice, and the prev of one that was never put is what   *)
(* queue_entry_create made it, NULL.                                       *)
EntriesFresh ==
    /\ \A i, j \in 1..Len(puts) : puts[i] = puts[j] => i = j
    /\ epc \in {"lock", "put"} =>
          new \in Entries /\ \A i \in 1..Len(puts) : puts[i] # new
    /\ \A x \in Entries : (\A i \in 1..Len(puts) : puts[i] # x) => prev[x] = Null

(* The entry the DB thread has in hand is the one it took last. *)
InHand ==
    /\ dpc \in {"size", "process"} => e # Null
    /\ (dpc \in {"size", "process"} \/ (dpc = "unlock" /\ e # Null))
          => Len(gets) > 0 /\ e = gets[Len(gets)]

(* A wait fails only with the queue empty, and the mutex is then stuck. *)
FailedWait == rv = "error" => dpc \in {"test", "top"} /\ Len(gets) = Len(puts)

(* What the threads' control keeps, and what the list keeps. *)
Control == TypeOK /\ MutexHeld /\ SizeInStep /\ InHand /\ FailedWait
Lists == ListIntact /\ EntriesFresh /\ ProcessedInOrder

IInv == Control /\ Lists

-----------------------------------------------------------------------------
USE EntriesAssumption, WaitAssumption

LEMMA InitIInv == Init => IInv
<1>. SUFFICES ASSUME Init PROVE IInv
    OBVIOUS
<1>1. /\ puts = <<>> /\ gets = <<>> /\ done = <<>>
      /\ Len(puts) = 0 /\ Len(gets) = 0 /\ Len(done) = 0
    BY DEF Init
<1>2. TypeOK
  <2>1. <<>> \in Seq(Entries)
    OBVIOUS
  <2>2. prev \in [Entries -> Ptr]
    BY DEF Init, Ptr
  <2>. QED
    BY <1>1, <2>1, <2>2 DEF Init, TypeOK, Ptr, EventPCs, DbPCs
<1>3. MutexHeld /\ InHand /\ FailedWait
    BY DEF Init, MutexHeld, e_critical, d_critical, InHand, FailedWait
<1>4. ProcessedInOrder /\ SizeInStep /\ ListIntact
    BY <1>1 DEF Init, ProcessedInOrder, SizeInStep, ListIntact
<1>5. EntriesFresh
    BY <1>1 DEF Init, EntriesFresh
<1>. QED
    BY <1>2, <1>3, <1>4, <1>5 DEF IInv, Control, Lists

(* A step of the threads' control that keeps the list and the history     *)
(* keeps what is said of them, if it neither starts a put nor takes or    *)
(* hands over an entry.                                                   *)
LEMMA ListFrame ==
    ASSUME IInv,
           UNCHANGED <<top, bottom, prev, hvars>>,
           new' = new \/ epc' \notin {"lock", "put"},
           epc' \in {"lock", "put"} => epc \in {"lock", "put"},
           (dpc' \in {"size", "process"} \/ (dpc' = "unlock" /\ e' # Null))
             <=> (dpc \in {"size", "process"} \/ (dpc = "unlock" /\ e # Null))
    PROVE  Lists'
BY DEF IInv, Lists, ListIntact, EntriesFresh, ProcessedInOrder, hvars

(* The three steps that work on the list, and the one that processes. *)
LEMMA PutStep == ASSUME IInv, queue_put PROVE IInv'
<1>. DEFINE n == Len(puts)
            g == Len(gets)
<1>. USE DEF queue_put, dvars
<1>1. /\ epc = "put" /\ lock = "event" /\ ~d_critical
      /\ new \in Entries /\ \A i \in 1..n : puts[i] # new
      /\ puts \in Seq(Entries) /\ gets \in Seq(Entries)
      /\ n \in Nat /\ g \in Nat
    BY DEF IInv, Control, Lists, TypeOK, MutexHeld, e_critical, EntriesFresh
<1>2. /\ puts' \in Seq(Entries) /\ Len(puts') = n + 1
      /\ \A i \in 1..n : puts'[i] = puts[i]
      /\ puts'[n + 1] = new
    BY <1>1
<1>3. top = Null <=> g = n
    BY <1>1 DEF IInv, Lists, ListIntact
<1>4. Control'
  <2>1. TypeOK'
    <3>1. CASE top = Null
        BY <1>2, <3>1 DEF IInv, Control, TypeOK, Ptr, EventPCs
    <3>2. CASE top # Null
      <4>1. prev' \in [Entries -> Ptr]
        BY <1>1, <3>2 DEF IInv, Control, TypeOK, Ptr
      <4>. QED
        BY <1>1, <1>2, <3>2, <4>1 DEF IInv, Control, TypeOK, Ptr, EventPCs
    <3>. QED
        BY <3>1, <3>2
  <2>2. MutexHeld' /\ InHand'
    BY <1>1 DEF IInv, Control, MutexHeld, InHand, e_critical, d_critical
  <2>3. FailedWait'
    <3>1. rv # "error"
        BY <1>1 DEF IInv, Control, MutexHeld, FailedWait, d_critical
    <3>. QED
        BY <3>1 DEF FailedWait
  <2>4. SizeInStep'
    <3>1. dpc # "size" /\ size \in Nat
        BY <1>1 DEF d_critical, IInv, Control, TypeOK
    <3>. QED
        BY <1>1, <1>2, <3>1 DEF IInv, Control, SizeInStep
  <2>. QED
    BY <2>1, <2>2, <2>3, <2>4 DEF Control
<1>5. Lists'
  <2>1. EntriesFresh'
    <3>1. \A i, j \in 1..(n + 1) : puts'[i] = puts'[j] => i = j
        BY <1>1, <1>2 DEF IInv, Lists, EntriesFresh
    <3>2. ASSUME NEW x \in Entries, \A i \in 1..(n + 1) : puts'[i] # x
          PROVE  prev'[x] = Null
      <4>1. x # new /\ prev[x] = Null
        BY <1>1, <1>2, <3>2 DEF IInv, Lists, EntriesFresh
      <4>2. x # top
        BY <1>1, <1>2, <1>3, <3>2 DEF IInv, Lists, ListIntact
      <4>. QED
        BY <4>1, <4>2 DEF IInv, Control, TypeOK
    <3>. QED
        BY <1>2, <3>1, <3>2 DEF EntriesFresh
  <2>2. ListIntact'
    <3>1. prev[new] = Null
        BY <1>1 DEF IInv, Lists, EntriesFresh
    <3>2. CASE top = Null
        BY <1>1, <1>2, <1>3, <3>1, <3>2 DEF IInv, Lists, ListIntact
    <3>3. CASE top # Null
      <4>1. g < n /\ top = puts[n] /\ bottom = puts[g + 1] /\ bottom' = bottom
        BY <1>1, <1>3, <3>3 DEF IInv, Lists, ListIntact
      <4>2. prev' = [prev EXCEPT ![puts[n]] = new] /\ puts[n] \in Entries
        BY <1>1, <3>3, <4>1
      <4>3. \A i \in (g + 1)..n : prev'[puts'[i]] = puts'[i + 1]
        <5>1. \A i \in (g + 1)..n : i \in (g + 1)..(n - 1) \/ i = n
            BY <1>1
        <5>2. ASSUME NEW i \in (g + 1)..(n - 1)
              PROVE  prev'[puts'[i]] = puts'[i + 1]
          <6>1. i \in 1..n /\ i + 1 \in 1..n /\ i # n /\ n \in 1..n
            BY <1>1, <4>1
          <6>2. puts[i] # puts[n] /\ puts[i] \in Entries
            BY <1>1, <6>1 DEF IInv, Lists, EntriesFresh
          <6>3. prev[puts[i]] = puts[i + 1]
            BY <4>1 DEF IInv, Lists, ListIntact
          <6>. QED
            BY <1>2, <4>2, <6>1, <6>2, <6>3 DEF IInv, Control, TypeOK
        <5>3. prev'[puts'[n]] = puts'[n + 1]
            BY <1>1, <1>2, <4>1, <4>2 DEF IInv, Control, TypeOK
        <5>. QED
            BY <5>1, <5>2, <5>3
      <4>4. prev'[puts'[n + 1]] = Null
        BY <1>1, <1>2, <3>1, <4>1, <4>2 DEF IInv, Control, TypeOK
      <4>5. \A i \in 1..g : gets[i] = puts'[i]
        BY <1>1, <1>2, <4>1 DEF IInv, Lists, ListIntact
      <4>. QED
        BY <1>1, <1>2, <4>1, <4>3, <4>4, <4>5 DEF ListIntact
    <3>. QED
        BY <3>2, <3>3
  <2>3. ProcessedInOrder'
    BY <1>1, <1>2 DEF IInv, Lists, ProcessedInOrder, Control, TypeOK
  <2>. QED
    BY <2>1, <2>2, <2>3 DEF Lists
<1>. QED
    BY <1>4, <1>5 DEF IInv

LEMMA GetStep == ASSUME IInv, queue_get PROVE IInv'
<1>. DEFINE n == Len(puts)
            g == Len(gets)
<1>. USE DEF queue_get, evars
<1>1. /\ dpc = "get" /\ lock = "db" /\ ~e_critical /\ rv # "error"
      /\ puts \in Seq(Entries) /\ gets \in Seq(Entries)
      /\ n \in Nat /\ g \in Nat
    BY DEF IInv, Control, TypeOK, MutexHeld, d_critical, FailedWait
<1>2. /\ g < n /\ bottom = puts[g + 1] /\ bottom \in Entries
    BY <1>1 DEF IInv, Lists, ListIntact
<1>3. /\ gets' \in Seq(Entries) /\ Len(gets') = g + 1
      /\ \A i \in 1..g : gets'[i] = gets[i]
      /\ gets'[g + 1] = bottom
    BY <1>1, <1>2
<1>4. Control'
  <2>1. TypeOK'
    BY <1>2, <1>3 DEF IInv, Control, TypeOK, Ptr, DbPCs
  <2>2. MutexHeld' /\ InHand' /\ FailedWait'
    BY <1>1, <1>2, <1>3
       DEF IInv, Control, MutexHeld, InHand, FailedWait, e_critical, d_critical
  <2>3. SizeInStep'
    BY <1>1, <1>3 DEF IInv, Control, SizeInStep, TypeOK
  <2>. QED
    BY <2>1, <2>2, <2>3 DEF Control
<1>5. Lists'
  <2>1. EntriesFresh'
    BY DEF IInv, Lists, EntriesFresh
  <2>2. prev[bottom] = Null <=> g + 1 = n
    BY <1>1, <1>2 DEF IInv, Lists, ListIntact
  <2>3. ListIntact'
    <3>1. CASE g + 1 = n
        BY <1>1, <1>2, <1>3, <2>2, <3>1 DEF IInv, Lists, ListIntact
    <3>2. CASE g + 1 < n
      <4>1. /\ top = puts[n] /\ prev[puts[n]] = Null
            /\ \A i \in (g + 1)..(n - 1) : prev[puts[i]] = puts[i + 1]
        BY <1>2 DEF IInv, Lists, ListIntact
      <4>2. top' = puts[n] /\ bottom' = puts[g + 2]
        BY <1>1, <1>2, <2>2, <3>2, <4>1, SMTT(30)
      <4>3. \A i \in 1..(g + 1) : gets'[i] = puts[i]
        BY <1>1, <1>2, <1>3 DEF IInv, Lists, ListIntact
      <4>. QED
        BY <1>1, <1>3, <3>2, <4>1, <4>2, <4>3 DEF ListIntact
    <3>. QED
        BY <1>1, <1>2, <3>1, <3>2
  <2>4. ProcessedInOrder'
    BY <1>1, <1>3 DEF IInv, Lists, ProcessedInOrder, Control, TypeOK
  <2>. QED
    BY <2>1, <2>3, <2>4 DEF Lists
<1>. QED
    BY <1>4, <1>5 DEF IInv

LEMMA GetSizeStep == ASSUME IInv, queue_get_size PROVE IInv'
<1>. USE DEF queue_get_size, evars, hvars
<1>1. /\ size \in Nat /\ Len(puts) \in Nat /\ Len(gets) \in Nat
      /\ Len(gets) <= Len(puts) /\ epc # "size"
    BY DEF IInv, Control, Lists, TypeOK, ListIntact, MutexHeld, e_critical,
           d_critical
<1>2. size >= 1
    BY <1>1 DEF IInv, Control, SizeInStep
<1>3. Control'
    BY <1>1, <1>2
       DEF IInv, Control, TypeOK, DbPCs, MutexHeld, e_critical, d_critical,
           SizeInStep, InHand, FailedWait
<1>4. Lists'
    BY ListFrame DEF IInv, Control, InHand
<1>. QED
    BY <1>3, <1>4 DEF IInv

LEMMA ProcessStep == ASSUME IInv, process_op PROVE IInv'
<1>. USE DEF process_op, qvars, evars
<1>1. /\ dpc = "process" /\ e \in Entries /\ e = gets[Len(gets)]
      /\ done \in Seq(Entries) /\ Len(done) \in Nat /\ Len(gets) = Len(done) + 1
    BY DEF IInv, Control, Lists, TypeOK, Ptr, InHand, ProcessedInOrder
<1>2. /\ done' \in Seq(Entries) /\ Len(done') = Len(done) + 1
      /\ \A i \in 1..Len(done) : done'[i] = done[i]
      /\ done'[Len(done) + 1] = e
    BY <1>1
<1>3. Control'
  <2>1. TypeOK'
    BY <1>2 DEF IInv, Control, TypeOK, DbPCs
  <2>2. MutexHeld' /\ InHand' /\ FailedWait' /\ SizeInStep'
    BY <1>1 DEF IInv, Control, MutexHeld, e_critical, d_critical, InHand,
                FailedWait, SizeInStep
  <2>. QED
    BY <2>1, <2>2 DEF Control
<1>4. Lists'
  <2>1. ListIntact' /\ EntriesFresh'
    BY DEF IInv, Lists, ListIntact, EntriesFresh
  <2>2. ProcessedInOrder'
    BY <1>1, <1>2 DEF IInv, Lists, ProcessedInOrder, ListIntact, Control, TypeOK
  <2>. QED
    BY <2>1, <2>2 DEF Lists
<1>. QED
    BY <1>3, <1>4 DEF IInv

LEMMA Steps ==
    ASSUME IInv, [Next]_vars PROVE IInv'
<1>. USE DEF qvars, evars, dvars, hvars
<1>1. CASE e_queue_lock
  <2>. USE <1>1 DEF e_queue_lock
  <2>1. Control'
    BY DEF IInv, Control, TypeOK, Ptr, EventPCs, DbPCs, MutexHeld, e_critical,
           d_critical, SizeInStep, InHand, FailedWait
  <2>2. Lists'
    BY ListFrame DEF IInv, Control, InHand
  <2>. QED
    BY <2>1, <2>2 DEF IInv
<1>2. CASE queue_put_size
  <2>. USE <1>2 DEF queue_put_size
  <2>1. Control'
    BY DEF IInv, Control, TypeOK, Ptr, EventPCs, DbPCs, MutexHeld, e_critical,
           d_critical, SizeInStep, InHand, FailedWait
  <2>2. Lists'
    BY ListFrame DEF IInv, Control, InHand
  <2>. QED
    BY <2>1, <2>2 DEF IInv
<1>3. CASE e_queue_unlock
  <2>. USE <1>3 DEF e_queue_unlock
  <2>1. Control'
    BY DEF IInv, Control, TypeOK, Ptr, EventPCs, DbPCs, MutexHeld, e_critical,
           d_critical, SizeInStep, InHand, FailedWait
  <2>2. Lists'
    BY ListFrame DEF IInv, Control, InHand
  <2>. QED
    BY <2>1, <2>2 DEF IInv
<1>4. CASE queue_signal
  <2>. USE <1>4 DEF queue_signal
  <2>1. Control'
    BY DEF IInv, Control, TypeOK, Ptr, EventPCs, DbPCs, MutexHeld, e_critical,
           d_critical, SizeInStep, InHand, FailedWait
  <2>2. Lists'
    BY ListFrame DEF IInv, Control, InHand
  <2>. QED
    BY <2>1, <2>2 DEF IInv
<1>5. CASE exit_sighandler
  <2>. USE <1>5 DEF exit_sighandler
  <2>1. Control'
    BY DEF IInv, Control, TypeOK, Ptr, EventPCs, DbPCs, MutexHeld, e_critical,
           d_critical, SizeInStep, InHand, FailedWait
  <2>2. Lists'
    BY ListFrame DEF IInv, Control, InHand
  <2>. QED
    BY <2>1, <2>2 DEF IInv
<1>6. CASE db_loop_stop
  <2>. USE <1>6 DEF db_loop_stop
  <2>1. Control'
    BY DEF IInv, Control, TypeOK, Ptr, EventPCs, DbPCs, MutexHeld, e_critical,
           d_critical, SizeInStep, InHand, FailedWait
  <2>2. Lists'
    BY ListFrame DEF IInv, Control, InHand
  <2>. QED
    BY <2>1, <2>2 DEF IInv
<1>7. CASE db_close
  <2>. USE <1>7 DEF db_close
  <2>1. Control'
    BY DEF IInv, Control, TypeOK, Ptr, EventPCs, DbPCs, MutexHeld, e_critical,
           d_critical, SizeInStep, InHand, FailedWait
  <2>2. Lists'
    BY ListFrame DEF IInv, Control, InHand
  <2>. QED
    BY <2>1, <2>2 DEF IInv
<1>8. CASE d_queue_lock
  <2>. USE <1>8 DEF d_queue_lock
  <2>1. Control'
    BY DEF IInv, Control, TypeOK, Ptr, EventPCs, DbPCs, MutexHeld, e_critical,
           d_critical, SizeInStep, InHand, FailedWait
  <2>2. Lists'
    BY ListFrame DEF IInv, Control, InHand
  <2>. QED
    BY <2>1, <2>2 DEF IInv
<1>9. CASE d_test
  <2>. USE <1>9 DEF d_test, queue_isempty
  <2>1. Control'
    BY DEF IInv, Control, TypeOK, Ptr, EventPCs, DbPCs, MutexHeld, e_critical,
           d_critical, SizeInStep, InHand, FailedWait
  <2>2. Lists'
    BY ListFrame DEF IInv, Control, InHand
  <2>. QED
    BY <2>1, <2>2 DEF IInv
<1>10. CASE d_relock
  <2>. USE <1>10 DEF d_relock
  <2>1. Control'
    BY DEF IInv, Control, TypeOK, Ptr, EventPCs, DbPCs, MutexHeld, e_critical,
           d_critical, SizeInStep, InHand, FailedWait
  <2>2. Lists'
    BY ListFrame DEF IInv, Control, InHand
  <2>. QED
    BY <2>1, <2>2 DEF IInv
<1>11. CASE queue_get_none
  <2>. USE <1>11 DEF queue_get_none
  <2>1. Control'
    BY DEF IInv, Control, TypeOK, Ptr, EventPCs, DbPCs, MutexHeld, e_critical,
           d_critical, SizeInStep, InHand, FailedWait
  <2>2. Lists'
    BY ListFrame DEF IInv, Control, InHand
  <2>. QED
    BY <2>1, <2>2 DEF IInv
<1>12. CASE d_queue_unlock
  <2>. USE <1>12 DEF d_queue_unlock
  <2>1. Control'
    BY DEF IInv, Control, TypeOK, Ptr, EventPCs, DbPCs, MutexHeld, e_critical,
           d_critical, SizeInStep, InHand, FailedWait
  <2>2. Lists'
    BY ListFrame DEF IInv, Control, InHand
  <2>. QED
    BY <2>1, <2>2 DEF IInv
<1>13. CASE d_check
  <2>. USE <1>13 DEF d_check
  <2>1. Control'
    BY DEF IInv, Control, TypeOK, Ptr, EventPCs, DbPCs, MutexHeld, e_critical,
           d_critical, SizeInStep, InHand, FailedWait
  <2>2. Lists'
    BY ListFrame DEF IInv, Control, InHand
  <2>. QED
    BY <2>1, <2>2 DEF IInv
<1>14. CASE wakeup
  <2>. USE <1>14 DEF wakeup
  <2>1. Control'
    BY DEF IInv, Control, TypeOK, Ptr, EventPCs, DbPCs, MutexHeld, e_critical,
           d_critical, SizeInStep, InHand, FailedWait
  <2>2. Lists'
    BY ListFrame DEF IInv, Control, InHand
  <2>. QED
    BY <2>1, <2>2 DEF IInv
<1>15. CASE timeout
  <2>. USE <1>15 DEF timeout
  <2>1. Control'
    BY DEF IInv, Control, TypeOK, Ptr, EventPCs, DbPCs, MutexHeld, e_critical,
           d_critical, SizeInStep, InHand, FailedWait
  <2>2. Lists'
    BY ListFrame DEF IInv, Control, InHand
  <2>. QED
    BY <2>1, <2>2 DEF IInv
<1>16. CASE queue_timedwait_fails
  <2>. USE <1>16 DEF queue_timedwait_fails, queue_isempty
  <2>1. Control'
    BY DEF IInv, Control, TypeOK, Ptr, EventPCs, DbPCs, MutexHeld, e_critical,
           d_critical, SizeInStep, InHand, FailedWait
  <2>2. Lists'
    BY ListFrame DEF IInv, Control, InHand
  <2>. QED
    BY <2>1, <2>2 DEF IInv
<1>17. ASSUME NEW x \in Entries, make_queue_long_entry(x) PROVE IInv'
  <2>. USE <1>17 DEF make_queue_long_entry
  <2>1. Control'
    BY DEF IInv, Control, TypeOK, Ptr, EventPCs, DbPCs, MutexHeld, e_critical,
           d_critical, SizeInStep, InHand, FailedWait
  <2>2. Lists'
    BY DEF IInv, Lists, ListIntact, EntriesFresh, ProcessedInOrder
  <2>. QED
    BY <2>1, <2>2 DEF IInv
<1>18. CASE UNCHANGED vars
    BY <1>18, ZenonT(40) DEF vars, IInv, Control, TypeOK, MutexHeld, e_critical, d_critical,
       SizeInStep, InHand, FailedWait, Lists, ListIntact, EntriesFresh,
       ProcessedInOrder
<1>. QED
    BY <1>1, <1>2, <1>3, <1>4, <1>5, <1>6, <1>7, <1>8, <1>9, <1>10,
       <1>11, <1>12, <1>13, <1>14, <1>15, <1>16, <1>17, <1>18,
       PutStep, GetStep, GetSizeStep, ProcessStep
       DEF Next, EventThread, DbThread, Gone, Hung

LEMMA Invariance == Spec => []IInv
BY InitIInv, Steps, PTL DEF Spec

(* Pointers point to entries and the program counters stay in their code. *)
THEOREM TypeCorrect == Spec => []TypeOK
<1>1. IInv => TypeOK
    BY DEF IInv, Control
<1>. QED
    BY <1>1, Invariance, PTL

(* queue_lock and queue_unlock bracket every access: the thread between    *)
(* them holds the mutex and the other one does not, and the only thread    *)
(* that holds it elsewhere is a DB thread whose timed wait failed.         *)
THEOREM MutualExclusion == Spec => []MutexHeld
<1>1. IInv => MutexHeld
    BY DEF IInv, Control
<1>. QED
    BY <1>1, Invariance, PTL

(* queue_put and queue_get keep the linked list: from the bottom, by prev, *)
(* to the top it is what was put and not yet taken, and size is its length *)
(* whenever the mutex is free.                                             *)
THEOREM ListStaysIntact == Spec => []QueueIntact
<1>1. IInv => QueueIntact
  <2>. SUFFICES ASSUME IInv PROVE QueueIntact
    OBVIOUS
  <2>1. lock = "free" => size = Len(puts) - Len(gets)
    <3>1. lock = "free" => epc # "size" /\ dpc # "size"
        BY DEF IInv, Control, MutexHeld, e_critical, d_critical
    <3>. QED
        BY <3>1 DEF IInv, Control, SizeInStep, TypeOK
  <2>. QED
    BY <2>1 DEF IInv, Lists, ListIntact, QueueIntact
<1>. QED
    BY <1>1, Invariance, PTL

(* The DB thread processes what was put, in that order, each entry once,   *)
(* and never more than the one it has taken is on its way.                 *)
THEOREM FirstInFirstOut == Spec => []ProcessedInOrder
<1>1. IInv => ProcessedInOrder
    BY DEF IInv, Lists
<1>. QED
    BY <1>1, Invariance, PTL

(* A DB thread blocked for ever on the mutex it kept after a failing wait  *)
(* has processed everything that was accepted before.                      *)
THEOREM StuckOwesNothing == Spec => []StuckLoopOwesNothing
<1>1. IInv => StuckLoopOwesNothing
  <2>. SUFFICES ASSUME IInv, dpc = "top", lock = "db" PROVE done = puts
    BY DEF StuckLoopOwesNothing, stuck
  <2>1. Len(gets) = Len(puts)
    BY DEF IInv, Control, MutexHeld, d_critical, FailedWait
  <2>2. /\ Len(done) = Len(puts) /\ \A i \in 1..Len(done) : done[i] = puts[i]
        /\ done \in Seq(Entries) /\ puts \in Seq(Entries)
    BY <2>1 DEF IInv, Control, Lists, ProcessedInOrder, TypeOK
  <2>. QED
    BY <2>2
<1>. QED
    BY <1>1, Invariance, PTL

=============================================================================
