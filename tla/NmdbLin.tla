------------------------------ MODULE NmdbLin ------------------------------
(***************************************************************************)
(* The server against its promise: Nmdb with three history variables, and  *)
(* the mapping to AtomicStore.                                             *)
(*                                                                         *)
(* A request takes effect when the event thread handles it.  "snap" holds  *)
(* the database as it is now and as each queue entry in turn will leave    *)
(* it, so that its last element is the store the clients see; "pend" holds *)
(* what the call of each blocked client ought to return; "spoilt" holds    *)
(* the keys whose users have been let down, openly or not, or have made    *)
(* the cache differ from the database themselves.                          *)
(***************************************************************************)
EXTENDS Nmdb

VARIABLES snap, pend, spoilt

lvars == <<vars, snap, pend, spoilt>>

A == INSTANCE AtomicStore WITH store <- Last(snap)

store == Last(snap)

LInit ==
    /\ Init
    /\ snap = <<db>>
    /\ pend = [c \in Clients |-> A!NoPend]
    /\ spoilt = {}

(* This step answers c, and not with the result p its call was promised. *)
told_otherwise(c, op, p) ==
    /\ inbox'[c] # inbox[c]
    /\ p # A!Anything
    /\ LibResult(op, Last(inbox'[c])) # p

(* The DB thread's step did not do what the head of the queue, which       *)
(* nobody waits for, had promised.                                         *)
fails_silently ==
    LET e == Head(queue)
    IN  ~owes_reply(e) /\ db'[e.req.key] # snap[2][e.req.key]

(* A request extends the future of the database exactly when it joins the *)
(* queue; one answered from the cache must change nothing.                *)
LCall(c, r) ==
    /\ parse_message(c, r)
    /\ snap' = IF queue' = queue THEN snap
               ELSE Append(snap, A!Effect(store, r))
    /\ pend' = [pend EXCEPT ![c] = IF A!Refused(r) THEN Result(-1, NoVal)
                                   ELSE A!Answer(store, r)]
    /\ spoilt' = spoilt \cup
          {k \in {r.key} : \/ cache_only(r) /\ r.op \in Writes
                           \/ told_otherwise(c, r.op, pend'[c])}

LProcess ==
    /\ process_op
    /\ snap' = Tail(snap)
    /\ LET e == Head(queue)
       IN  spoilt' = spoilt \cup
              {k \in {e.req.key} :
                  fails_silently \/ told_otherwise(e.cli, e.req.op, pend[e.cli])}
    /\ UNCHANGED pend

LReturn(c) ==
    /\ get_rep(c)
    /\ pend' = [pend EXCEPT ![c] = A!NoPend]
    /\ UNCHANGED <<snap, spoilt>>

(* What the queue still held is lost, and nothing promised any more. *)
LDies ==
    /\ Dies
    /\ snap' = <<db'>>
    /\ UNCHANGED <<pend, spoilt>>

LNext ==
    \/ \E c \in Clients, r \in Requests : LCall(c, r)
    \/ LProcess
    \/ \E c \in Clients : LReturn(c)
    \/ SIGUSR1 /\ UNCHANGED <<snap, pend, spoilt>>
    \/ LDies
    \/ Down /\ UNCHANGED <<snap, pend, spoilt>>

LSpec == LInit /\ [][LNext]_lvars

-----------------------------------------------------------------------------
(* Keys no cache-only request touches. *)
DbKeys == {k \in Keys : \A r \in Requests : r.key = k => ~cache_only(r)}

(* A cached value is the newest accepted one, although the database may   *)
(* be any number of queued writes behind: what parse_set, parse_del,      *)
(* parse_cas and parse_incr do to the cache before a request is queued is *)
(* what process_op will do to the database when it comes out.             *)
CacheCoherent ==
    \A k \in DbKeys : in_cache(k) => cache_get(k) = store[k]

(* Replaying the queue on the database yields the store: the entries'     *)
(* effects, carried out by the DB thread on what it then finds in the     *)
(* database, are those announced when they were accepted.                 *)
QueueReplaysToStore ==
    /\ Len(snap) = Len(queue) + 1
    /\ \A k \in DbKeys : snap[1][k] = db[k]

(* The cache is written before the operation is queued and carried out    *)
(* (parse_set, parse_cas, parse_incr), and nothing undoes it when either   *)
(* fails.  Even so, as long as nobody was given a wrong or failing answer  *)
(* about a key or wrote it in the cache only, and no asynchronous write of *)
(* it was refused by the backend, cache, queue and database agree on it:   *)
(* every failure but that last one is told to a client.  (A server that    *)
(* dies forgets the queue, asynchronous writes it has answered included.)  *)
OnlyAsyncFailsSilently ==
    \A k \in Keys \ spoilt :
        /\ in_cache(k) => cache_get(k) = store[k]
        /\ snap[1][k] = db[k]

(* The results of the calls and the contents they report are those of a   *)
(* store without cache, queue and second thread (cache.c, parse.c,        *)
(* dbloop.c and libnmdb.c together implement AtomicStore).                *)
ImplementsAtomicStore == A!Spec

=============================================================================
