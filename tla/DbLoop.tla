------------------------------- MODULE DbLoop -------------------------------
(***************************************************************************)
(* The queue between the two threads (queue.c), the event thread's way of  *)
(* filling it (put_in_queue_long), the DB thread's loop (db_loop) and the  *)
(* shutdown (main, db_loop_stop), at the grain at which the threads can    *)
(* interleave.  What an operation does is in Nmdb; here it is an entry     *)
(* that is put, taken and processed.                                       *)
(*                                                                         *)
(* The mutex is PTHREAD_MUTEX_NORMAL: its owner blocks on locking it       *)
(* again.  pthread_cond_timedwait releases it, waits for a signal, for the *)
(* timeout or for nothing at all, and takes it again.                      *)
(***************************************************************************)
EXTENDS Naturals, Sequences

CONSTANTS Entries,      \* the queue entries the event thread will malloc()
          SyncEntries,  \* those put with sync, followed by a signal
          Null,         \* the NULL pointer
          WaitFaults    \* may pthread_cond_timedwait fail otherwise?

ASSUME EntriesAssumption ==
    /\ SyncEntries \subseteq Entries
    /\ Null \notin Entries
ASSUME WaitAssumption == WaitFaults \in BOOLEAN

VARIABLES
    (* struct queue *)
    lock,               \* which thread holds the mutex
    top, bottom, size,
    prev,               \* entry -> its prev pointer
    (* the event thread *)
    epc, new,           \* where it is, the entry it is putting
    loop_should_stop,
    (* the DB thread *)
    dpc, rv, e,         \* where it is, its locals
    (* history *)
    puts, gets, done    \* entries in the order put, taken, processed

qvars == <<top, bottom, size, prev>>
evars == <<epc, new, loop_should_stop>>
dvars == <<dpc, rv, e>>
hvars == <<puts, gets, done>>
vars == <<lock, qvars, evars, dvars, hvars>>

Ptr == Entries \cup {Null}
EventPCs == {"idle", "lock", "put", "size", "unlock", "signal",
             "stop", "join", "closed"}
DbPCs == {"top", "test", "wait", "relock", "get", "size", "unlock",
          "check", "process", "exited"}

(* Every variable holds what its C type allows, pointers point to entries. *)
TypeOK ==
    /\ lock \in {"free", "event", "db"}
    /\ top \in Ptr /\ bottom \in Ptr /\ size \in Nat
    /\ prev \in [Entries -> Ptr]
    /\ epc \in EventPCs /\ new \in Ptr /\ loop_should_stop \in BOOLEAN
    /\ dpc \in DbPCs /\ rv \in {"0", "ETIMEDOUT", "error"} /\ e \in Ptr
    /\ puts \in Seq(Entries) /\ gets \in Seq(Entries) /\ done \in Seq(Entries)

Init ==
    /\ lock = "free"
    /\ top = Null /\ bottom = Null /\ size = 0
    /\ prev = [x \in Entries |-> Null]
    /\ epc = "idle" /\ new = Null /\ loop_should_stop = FALSE
    /\ dpc = "top" /\ rv = "0" /\ e = Null
    /\ puts = <<>> /\ gets = <<>> /\ done = <<>>

-----------------------------------------------------------------------------
(* The event thread: put_in_queue_long, once for each request. *)

make_queue_long_entry(x) ==
    /\ epc = "idle"
    /\ \A i \in 1..Len(puts) : puts[i] # x
    /\ new' = x
    /\ epc' = "lock"
    /\ UNCHANGED <<lock, qvars, loop_should_stop, dvars, hvars>>

(* Mutant: the entry is put without the mutex. *)
e_queue_lock_skipped ==
    /\ epc = "lock"
    /\ epc' = "put"
    /\ UNCHANGED <<lock, qvars, new, loop_should_stop, dvars, hvars>>

e_queue_lock ==
    /\ epc = "lock" /\ lock = "free"
    /\ lock' = "event"
    /\ epc' = "put"
    /\ UNCHANGED <<qvars, new, loop_should_stop, dvars, hvars>>

(* Mutant: the entry is put at the end queue_get takes from. *)
queue_put_bottom ==
    /\ epc = "put"
    /\ bottom' = new
    /\ prev' = [prev EXCEPT ![new] = bottom]
    /\ top' = IF top = Null THEN new ELSE top
    /\ puts' = Append(puts, new)
    /\ epc' = "size"
    /\ UNCHANGED <<lock, size, new, loop_should_stop, dvars, gets, done>>

queue_put ==
    /\ epc = "put"
    /\ top' = new
    /\ IF top = Null THEN bottom' = new /\ UNCHANGED prev
                     ELSE prev' = [prev EXCEPT ![top] = new] /\ UNCHANGED bottom
    /\ puts' = Append(puts, new)
    /\ epc' = "size"
    /\ UNCHANGED <<lock, size, new, loop_should_stop, dvars, gets, done>>

queue_put_size ==
    /\ epc = "size"
    /\ size' = size + 1
    /\ epc' = "unlock"
    /\ UNCHANGED <<lock, top, bottom, prev, new, loop_should_stop, dvars, hvars>>

(* Mutant: nobody is signalled. *)
e_queue_unlock_no_signal ==
    /\ epc = "unlock"
    /\ lock' = "free"
    /\ epc' = "idle"
    /\ UNCHANGED <<qvars, new, loop_should_stop, dvars, hvars>>

e_queue_unlock ==
    /\ epc = "unlock"
    /\ lock' = "free"
    /\ epc' = IF new \in SyncEntries THEN "signal" ELSE "idle"
    /\ UNCHANGED <<qvars, new, loop_should_stop, dvars, hvars>>

(* A signal nobody waits for is lost. *)
queue_signal ==
    /\ epc = "signal"
    /\ dpc' = IF dpc = "wait" THEN "relock" ELSE dpc
    /\ epc' = "idle"
    /\ UNCHANGED <<lock, qvars, new, loop_should_stop, rv, e, hvars>>

(* SIGTERM or SIGINT ends net_loop; no request is handled after it. *)
exit_sighandler ==
    /\ epc = "idle"
    /\ epc' = "stop"
    /\ UNCHANGED <<lock, qvars, new, loop_should_stop, dvars, hvars>>

(* Mutant: the thread is joined without being told. *)
db_loop_stop_untold ==
    /\ epc = "stop"
    /\ epc' = "join"
    /\ UNCHANGED <<lock, qvars, new, loop_should_stop, dvars, hvars>>

db_loop_stop ==
    /\ epc = "stop"
    /\ loop_should_stop' = TRUE
    /\ epc' = "join"
    /\ UNCHANGED <<lock, qvars, new, dvars, hvars>>

(* pthread_join, then db->close and queue_free. *)
db_close ==
    /\ epc = "join" /\ dpc = "exited"
    /\ epc' = "closed"
    /\ UNCHANGED <<lock, qvars, new, loop_should_stop, dvars, hvars>>

EventThread ==
    \/ \E x \in Entries : make_queue_long_entry(x)
    \/ e_queue_lock
    \/ queue_put
    \/ queue_put_size
    \/ e_queue_unlock
    \/ queue_signal
    \/ exit_sighandler
    \/ db_loop_stop
    \/ db_close

-----------------------------------------------------------------------------
(* The DB thread: db_loop. *)

d_queue_lock ==
    /\ dpc = "top" /\ lock = "free"
    /\ lock' = "db"
    /\ rv' = "0"
    /\ dpc' = "test"
    /\ UNCHANGED <<qvars, evars, e, hvars>>

(* Mutant: a single entry counts as none. *)
queue_isempty_one == size <= 1

queue_isempty == size = 0

(* The head of the while loop, and what follows it. *)
d_test ==
    /\ dpc = "test"
    /\ \/ /\ queue_isempty /\ rv = "0"
          /\ dpc' = "wait" /\ lock' = "free"
       \/ /\ ~(queue_isempty /\ rv = "0") /\ rv # "error"
          /\ dpc' = "get" /\ UNCHANGED lock
       \/ /\ rv = "error"           \* "continue", the mutex still held
          /\ dpc' = "top" /\ UNCHANGED lock
    /\ UNCHANGED <<qvars, evars, rv, e, hvars>>

(* The wait ends without a signal: spuriously, or after the second. *)
wakeup ==
    /\ dpc = "wait"
    /\ dpc' = "relock"
    /\ UNCHANGED <<lock, qvars, evars, rv, e, hvars>>

(* Mutant: pthread_cond_wait in place of pthread_cond_timedwait. *)
timeout_never == FALSE /\ UNCHANGED vars

timeout ==
    /\ dpc = "wait"
    /\ dpc' = "relock" /\ rv' = "ETIMEDOUT"
    /\ UNCHANGED <<lock, qvars, evars, e, hvars>>

d_relock ==
    /\ dpc = "relock" /\ lock = "free"
    /\ lock' = "db"
    /\ dpc' = "test"
    /\ UNCHANGED <<qvars, evars, rv, e, hvars>>

(* Any error but a timeout returns at once and leaves the mutex alone. *)
queue_timedwait_fails ==
    /\ WaitFaults
    /\ dpc = "test" /\ queue_isempty /\ rv = "0"
    /\ rv' = "error"
    /\ UNCHANGED <<lock, qvars, evars, dpc, e, hvars>>

(* Mutant: size goes down although nothing was taken. *)
queue_get_none_counted ==
    /\ dpc = "get" /\ bottom = Null
    /\ e' = Null
    /\ dpc' = "size"
    /\ UNCHANGED <<lock, qvars, evars, rv, hvars>>

queue_get_none ==
    /\ dpc = "get" /\ bottom = Null
    /\ e' = Null
    /\ dpc' = "unlock"
    /\ UNCHANGED <<lock, qvars, evars, rv, hvars>>

(* Mutant: top is left behind when the last entry is taken. *)
queue_get_keeps_top ==
    /\ dpc = "get" /\ bottom # Null
    /\ e' = bottom
    /\ bottom' = prev[bottom]
    /\ gets' = Append(gets, bottom)
    /\ dpc' = "size"
    /\ UNCHANGED <<lock, top, size, prev, evars, rv, puts, done>>

queue_get ==
    /\ dpc = "get" /\ bottom # Null
    /\ e' = bottom
    /\ bottom' = prev[bottom]
    /\ top' = IF prev[bottom] = Null THEN Null ELSE top
    /\ gets' = Append(gets, bottom)
    /\ dpc' = "size"
    /\ UNCHANGED <<lock, size, prev, evars, rv, puts, done>>

queue_get_size ==
    /\ dpc = "size"
    /\ size' = size - 1
    /\ dpc' = "unlock"
    /\ UNCHANGED <<lock, top, bottom, prev, evars, rv, e, hvars>>

d_queue_unlock ==
    /\ dpc = "unlock"
    /\ lock' = "free"
    /\ dpc' = IF e = Null THEN "check" ELSE "process"
    /\ UNCHANGED <<qvars, evars, rv, e, hvars>>

(* Nothing to do: leave if asked to, outside the mutex. *)
d_check ==
    /\ dpc = "check"
    /\ dpc' = IF loop_should_stop THEN "exited" ELSE "top"
    /\ UNCHANGED <<lock, qvars, evars, rv, e, hvars>>

process_op ==
    /\ dpc = "process"
    /\ done' = Append(done, e)
    /\ dpc' = "top"
    /\ UNCHANGED <<lock, qvars, evars, rv, e, puts, gets>>

DbThread ==
    \/ d_queue_lock
    \/ d_test
    \/ d_relock
    \/ queue_get_none
    \/ queue_get
    \/ queue_get_size
    \/ d_queue_unlock
    \/ d_check
    \/ process_op

(* main has returned, the process is gone. *)
Gone == epc = "closed" /\ UNCHANGED vars

(* The DB thread waits for the mutex it holds itself, and for ever. *)
stuck == dpc = "top" /\ lock = "db"

Hung == stuck /\ UNCHANGED vars

Next == EventThread \/ DbThread \/ wakeup \/ timeout \/ queue_timedwait_fails
        \/ Gone \/ Hung

Spec == Init /\ [][Next]_vars

(* Both threads run when they can; a request that was begun is finished,  *)
(* and no request or signal has to come.  The mutex is not fair, but it   *)
(* is released again and again while a thread wants it: strong fairness   *)
(* of taking it.                                                          *)
Fairness ==
    /\ WF_vars(queue_put) /\ WF_vars(queue_put_size) /\ WF_vars(e_queue_unlock)
    /\ WF_vars(queue_signal) /\ WF_vars(db_loop_stop) /\ WF_vars(db_close)
    /\ SF_vars(e_queue_lock)
    /\ WF_vars(d_test) /\ WF_vars(queue_get) /\ WF_vars(queue_get_none)
    /\ WF_vars(queue_get_size)
    /\ WF_vars(d_queue_unlock) /\ WF_vars(d_check) /\ WF_vars(process_op)
    /\ SF_vars(d_queue_lock) /\ SF_vars(d_relock)

(* The deadline of the wait is absolute and computed once for all the     *)
(* waits of a round, so spurious wakeups do not put it off.  It is kept   *)
(* apart from the rest: not every property needs it.                      *)
TimeoutsHappen == SF_vars(timeout)

LiveSpec == Spec /\ Fairness

-----------------------------------------------------------------------------
(* One thread at a time is between lock and unlock; only a DB thread whose *)
(* timed wait failed has gone round its loop without unlocking.            *)
e_critical == epc \in {"put", "size", "unlock"}
d_critical == dpc \in {"test", "get", "size", "unlock"}

MutexHeld ==
    /\ e_critical <=> lock = "event"
    /\ d_critical \/ (dpc = "top" /\ rv = "error") <=> lock = "db"

(* The linked list is what was put and not taken, oldest at the bottom,   *)
(* and size counts it whenever the mutex is free: queue_put and queue_get *)
(* keep top, bottom, prev and size in step from either end.               *)
QueueIntact ==
    LET n == Len(puts)
        g == Len(gets)
    IN  /\ g <= n
        /\ \A i \in 1..g : gets[i] = puts[i]
        /\ lock = "free" => size = n - g
        /\ g = n => top = Null /\ bottom = Null
        /\ g < n => /\ bottom = puts[g + 1] /\ top = puts[n]
                    /\ \A i \in (g + 1)..(n - 1) : prev[puts[i]] = puts[i + 1]
                    /\ prev[puts[n]] = Null

(* Operations reach the backend in the order they were accepted in, one   *)
(* at a time, each once.                                                  *)
ProcessedInOrder ==
    /\ Len(done) <= Len(puts)
    /\ \A i \in 1..Len(done) : done[i] = puts[i]
    /\ Len(gets) = Len(done) + (IF dpc \in {"size", "process"}
                                   \/ (dpc = "unlock" /\ e # Null) THEN 1 ELSE 0)

(* "Used to signal the loop that it should exit when the queue becomes    *)
(* empty" (loop_should_stop, dbloop.c): when main closes the database     *)
(* every accepted operation has reached it.                               *)
DrainedAtClose == epc = "closed" => done = puts

(* Every accepted operation, asynchronous ones too, reaches the backend   *)
(* of a server that is not told to stop: db_loop's timed wait sees to the *)
(* entries put without a signal.                                          *)
EveryEntryProcessed ==
    TimeoutsHappen =>
        \A x \in Entries :
            (\E i \in 1..Len(puts) : puts[i] = x)
                ~> (loop_should_stop \/ \E i \in 1..Len(done) : done[i] = x)

(* A synchronous operation does not wait for the timeout, which may never *)
(* happen here: its signal is not lost between db_loop's test for an      *)
(* empty queue and its wait.                                              *)
SyncEntryProcessed ==
    \A x \in SyncEntries :
        (\E i \in 1..Len(puts) : puts[i] = x)
            ~> (loop_should_stop \/ \E i \in 1..Len(done) : done[i] = x)

(* A server told to stop does stop, although nothing wakes its DB thread, *)
(* unless that thread has blocked on its own mutex.                       *)
ShutdownCompletes ==
    TimeoutsHappen => (epc = "stop" ~> (epc = "closed" \/ stuck))

(* A DB thread that has blocked on its own mutex, after a failing timed   *)
(* wait ("When the timedwait fails the lock is released", says db_loop,   *)
(* but pthread_cond_timedwait returns such errors with it held) has left  *)
(* no accepted operation behind: the wait is only entered with the queue  *)
(* empty, and nothing can be put once the mutex is stuck.                 *)
StuckLoopOwesNothing == stuck => done = puts

=============================================================================
