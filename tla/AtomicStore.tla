---------------------------- MODULE AtomicStore ----------------------------
(***************************************************************************)
(* What nmdb promises the users of its normal and synchronous operations:  *)
(* one store, on which every call takes effect at once, somewhere between  *)
(* the call and its return.  There is no cache, no queue, no backend and   *)
(* no second thread to be seen; "All operations are atomic, and            *)
(* synchronous and asynchronous operations are fully coherent" (the user   *)
(* guide).                                                                 *)
(*                                                                         *)
(* Of the calls that stop at the cache or walk the database it promises    *)
(* only that they leave the store alone; they may return anything.         *)
(***************************************************************************)
EXTENDS Store

CONSTANTS Clients, Requests, InitDbs

VARIABLES store,        \* the contents, as all clients see them
          pend,         \* client -> the result its pending call will return
          ret,          \* client -> what its last call returned, if idle
          read_only

avars == <<store, pend, ret, read_only>>

NoPend == [rc |-> -8, data |-> NoVal]
Anything == [rc |-> -7, data |-> NoVal]
NoResult == [rc |-> -9, data |-> NoVal]

Promised(r) == ~cache_only(r) /\ r.op \notin {"FIRSTKEY", "NEXTKEY"}

(* The store after request r took effect on m. *)
Effect(m, r) ==
    LET old == m[r.key]
        write(v) == [m EXCEPT ![r.key] = v]
    IN  IF ~Promised(r) THEN m
        ELSE CASE r.op = "SET" -> write(r.val)
               [] r.op = "DEL" -> write(NoVal)
               [] r.op = "CAS" /\ old = r.val -> write(r.new)
               [] r.op = "INCR" /\ old # NoVal /\ nul_terminated(old) ->
                     write(incremented(old, r.inc))
               [] OTHER -> m

(* What the caller of request r is told when it takes effect on m.  Only  *)
(* a synchronous delete says whether there was something to delete.       *)
Answer(m, r) ==
    LET old == m[r.key]
    IN  IF ~Promised(r) THEN Anything
        ELSE CASE r.op = "GET" -> IF old = NoVal THEN Result(-1, NoVal)
                                  ELSE Result(0, old)
               [] r.op = "SET" -> Result(1, NoVal)
               [] r.op = "DEL" -> Result(IF sync(r) /\ old = NoVal THEN 0 ELSE 1, NoVal)
               [] r.op = "CAS" -> Result(IF old = NoVal THEN 0
                                         ELSE IF old = r.val THEN 2 ELSE 1, NoVal)
               [] r.op = "INCR" ->
                     IF old = NoVal THEN Result(0, NoVal)
                     ELSE IF ~nul_terminated(old) THEN Result(1, NoVal)
                     ELSE Result(2, Number(incremented(old, r.inc).num))
               [] OTHER -> Result(-1, NoVal)

Refused(r) == read_only /\ r.op \in Writes

Init ==
    /\ store \in InitDbs
    /\ pend = [c \in Clients |-> NoPend]
    /\ ret = [c \in Clients |-> NoResult]
    /\ read_only \in BOOLEAN

Call(c, r) ==
    /\ pend[c] = NoPend
    /\ store' = IF Refused(r) THEN store ELSE Effect(store, r)
    /\ pend' = [pend EXCEPT ![c] = IF Refused(r) THEN Result(-1, NoVal)
                                   ELSE Answer(store, r)]
    /\ ret' = [ret EXCEPT ![c] = NoResult]
    /\ UNCHANGED read_only

Return(c) ==
    /\ pend[c] # NoPend
    /\ ret' = [ret EXCEPT ![c] = IF pend[c] = Anything THEN ret'[c] ELSE pend[c]]
    /\ pend' = [pend EXCEPT ![c] = NoPend]
    /\ UNCHANGED <<store, read_only>>

ForbidWrites ==
    /\ read_only' = TRUE
    /\ UNCHANGED <<store, pend, ret>>

Next ==
    \/ \E c \in Clients, r \in Requests : Call(c, r)
    \/ \E c \in Clients : Return(c)
    \/ ForbidWrites

Spec == Init /\ [][Next]_avars

=============================================================================
