-------------------------------- MODULE Nmdb --------------------------------
(***************************************************************************)
(* The nmdb server with its clients.                                       *)
(*                                                                         *)
(* Two threads share one queue.  The event thread (net_loop) owns the      *)
(* cache: it parses a request, works on the cache, and either answers at   *)
(* once or appends the request to the queue.  The DB thread (db_loop)      *)
(* owns the database: it takes the oldest entry, works on the backend and  *)
(* answers the client if the request asked for it.                         *)
(*                                                                         *)
(* A parse_* handler is one step: all it touches is private to the event   *)
(* thread but for one queue_put under the queue's lock.  Taking an entry   *)
(* out and processing it is one step as well: nothing but the DB thread    *)
(* removes entries or touches the backend.  DbLoop has the finer grain.    *)
(*                                                                         *)
(* A client of libnmdb has one request outstanding at a time: it sends it  *)
(* and blocks in get_rep.  Sending, transport and parsing are one step; a  *)
(* request in transit is one that is sent later.                           *)
(*                                                                         *)
(* With MemFaults any malloc() in the path of a request may fail.  The     *)
(* handlers below go on after the failures the code checks for; those it   *)
(* does not survive are parse_message_dies and process_op_dies.            *)
(***************************************************************************)
EXTENDS Store, Chain

CONSTANTS Clients,      \* processes using libnmdb
          Requests,     \* the requests they may make
          Chains,       \* the cache's hash buckets
          hash,         \* hash(key) % hashlen
          InitDbs,      \* what the database may hold at start
          Backend,      \* which be-*.c is in use
          MemFaults,    \* may malloc() fail?
          DbFaults,     \* may the backend fail?
          MaxQueue      \* bound on the queue, unbounded in the code

ASSUME RequestsAssumption ==
    /\ Requests \subseteq RequestType
    /\ \A r \in Requests : WellFormed(r)
ASSUME HashAssumption == hash \in [Keys -> Chains]
ASSUME InitDbsAssumption ==
    /\ InitDbs \subseteq [Keys -> MaybeValue]
    /\ Backend = "null" => InitDbs \subseteq [Keys -> {NoVal}]
ASSUME SettingsAssumption ==
    /\ Backend \in {"tdb", "tc", "qdbm", "bdb", "leveldb", "null"}
    /\ MemFaults \in BOOLEAN
    /\ DbFaults \in BOOLEAN
    /\ MaxQueue \in Nat

VARIABLES up,           \* the server process is alive
          cache,        \* chain -> its entries, c->first at the left
          cap,          \* chain -> the slots its list has in use
          queue,        \* op_queue, oldest entry at the left
          db,           \* the backend's contents
          wait,         \* client -> the request it is blocked on
          inbox,        \* client -> replies sent to it and not yet read
          ret,          \* client -> what its last call returned, if idle
          read_only     \* settings.read_only

vars == <<up, cache, cap, queue, db, wait, inbox, ret, read_only>>

NoReq == [op |-> "none"]
NoRet == [rc |-> -9, data |-> NoVal]

Entry == [key : Keys, val : Value]
QueueEntry == [cli : Clients, req : Requests]

(* Every variable holds what the code's types allow. *)
TypeOK ==
    /\ up \in BOOLEAN
    /\ cap \in [Chains -> 1..CHAINLEN]
    /\ cache \in [Chains -> Seq(Entry)]
    /\ queue \in Seq(QueueEntry)
    /\ db \in [Keys -> MaybeValue]
    /\ wait \in [Clients -> Requests \cup {NoReq}]
    /\ inbox \in [Clients -> Seq(ReplyType)]
    /\ ret \in [Clients -> ResultType]
    /\ read_only \in BOOLEAN

empty_cache == [h \in Chains |-> <<>>]
all_slots == [h \in Chains |-> CHAINLEN]

Init ==
    /\ up = TRUE
    /\ cache = empty_cache /\ cap = all_slots
    /\ queue = <<>>
    /\ db \in InitDbs
    /\ wait = [c \in Clients |-> NoReq]
    /\ inbox = [c \in Clients |-> <<>>]
    /\ ret = [c \in Clients |-> NoRet]
    /\ read_only \in BOOLEAN

-----------------------------------------------------------------------------
(* The cache (cache.c): a hash table of the chains of module Chain. *)

in_cache(k) == in_chain(cache[hash[k]], k)

cache_get(k) ==
    LET ch == cache[hash[k]]
    IN  IF in_chain(ch, k) THEN ch[find_in_chain(ch, k)].val ELSE NoVal

-----------------------------------------------------------------------------
(* Replies and the queue (parse.c). *)

reply(c, rep) == inbox' = [inbox EXCEPT ![c] = Append(@, rep)]

(* Mutant: the entry goes where the DB thread takes the next one from. *)
queue_put_bottom(c, r) == <<[cli |-> c, req |-> r]>> \o queue

queue_put(c, r) == Append(queue, [cli |-> c, req |-> r])

(* The reply is sent now, or the DB thread will send it.  A malloc() that  *)
(* fails is told to the client, unless it brings the server down.          *)
put_in_queue(c, r, answer) ==
    \/ /\ queue' = queue_put(c, r)
       /\ IF answer THEN reply(c, Mini("OK")) ELSE UNCHANGED inbox
    \/ /\ MemFaults
       /\ reply(c, Mini("ERR_MEM"))
       /\ UNCHANGED queue

answer_now(c, rep) == reply(c, rep) /\ UNCHANGED queue

parse_get(c, r) ==
    /\ UNCHANGED cache
    /\ \/ in_cache(r.key) /\ answer_now(c, Reply("CACHE_HIT", cache_get(r.key)))
       \/ /\ ~in_cache(r.key) /\ cache_only(r)
          /\ answer_now(c, Mini("CACHE_MISS"))
       \/ /\ ~in_cache(r.key) /\ ~cache_only(r)
          /\ put_in_queue(c, r, FALSE)

(* The four operations that write start with this test. *)
refuse_read_only(c) ==
    /\ read_only
    /\ answer_now(c, Mini("ERR_RO"))
    /\ UNCHANGED cache

cache_set(k, v) ==
    LET h == hash[k]
    IN  /\ in_cache(k) \/ ~chain_unusable(cache[h], cap[h])
        /\ cache' = [cache EXCEPT ![h] = chain_set(@, cap[h], k, v)]
        /\ UNCHANGED cap

(* No memory for the key or the value.  In a full chain the entry to be   *)
(* reused is gone by then, and its slot is never counted as free again.   *)
cache_set_fails(k) ==
    LET h == hash[k]
        full == Len(cache[h]) = cap[h]
    IN  /\ MemFaults
        /\ \/ (in_cache(k) \/ ~full) /\ UNCHANGED <<cache, cap>>
           \/ /\ ~in_cache(k) /\ full /\ ~chain_unusable(cache[h], cap[h])
              /\ cache' = [cache EXCEPT ![h] = Front(@)]
              /\ cap' = [cap EXCEPT ![h] = @ - 1]

parse_set(c, r) ==
    \/ refuse_read_only(c) /\ UNCHANGED cap
    \/ /\ ~read_only
       /\ cache_set(r.key, r.val)
       /\ \/ cache_only(r) /\ answer_now(c, Mini("OK"))
          \/ ~cache_only(r) /\ put_in_queue(c, r, ~sync(r))
    \/ /\ ~read_only
       /\ cache_set_fails(r.key)
       /\ answer_now(c, Mini("ERR_MEM"))

(* Mutant: the delete is queued and the cached entry forgotten about. *)
cache_del_forgotten(k) == UNCHANGED cache

cache_del(k) == cache' = [cache EXCEPT ![hash[k]] = chain_del(@, k)]

parse_del(c, r) ==
    \/ refuse_read_only(c)
    \/ /\ ~read_only
       /\ cache_del(r.key)
       /\ \/ /\ cache_only(r)
             /\ answer_now(c, Mini(IF in_cache(r.key) THEN "OK" ELSE "NOTIN"))
          \/ ~cache_only(r) /\ put_in_queue(c, r, ~sync(r))

(* cache_cas and cache_incr replace the cached value. *)
cache_update(k, v) == cache' = [cache EXCEPT ![hash[k]] = chain_update(@, k, v)]

parse_cas(c, r) ==
    \/ refuse_read_only(c)
    \/ /\ ~read_only
       /\ in_cache(r.key) /\ cache_get(r.key) # r.val
       /\ answer_now(c, Mini("NOMATCH"))
       /\ UNCHANGED cache
    \/ /\ ~read_only
       /\ in_cache(r.key) /\ cache_get(r.key) = r.val
       /\ \/ /\ cache_update(r.key, r.new)
             /\ \/ cache_only(r) /\ answer_now(c, Mini("OK"))
                \/ ~cache_only(r) /\ put_in_queue(c, r, FALSE)
          \/ /\ MemFaults
             /\ answer_now(c, Mini("ERR_MEM"))
             /\ UNCHANGED cache
    \/ /\ ~read_only
       /\ ~in_cache(r.key)
       /\ UNCHANGED cache
       /\ \/ cache_only(r) /\ answer_now(c, Mini("NOTIN"))
          \/ ~cache_only(r) /\ put_in_queue(c, r, FALSE)

parse_incr(c, r) ==
    LET old == cache_get(r.key)
        new == incremented(old, r.inc)
    IN  \/ refuse_read_only(c)
        \/ /\ ~read_only
           /\ in_cache(r.key) /\ ~nul_terminated(old)
           /\ answer_now(c, Mini("NOMATCH"))
           /\ UNCHANGED cache
        \/ /\ ~read_only
           /\ in_cache(r.key) /\ nul_terminated(old)
           /\ \/ /\ cache_update(r.key, new)
                 /\ \/ /\ cache_only(r)
                       /\ answer_now(c, Reply("OK", Number(new.num)))
                    \/ ~cache_only(r) /\ put_in_queue(c, r, FALSE)
              \/ /\ MemFaults /\ old.fmt # "pad"
                 /\ answer_now(c, Mini("ERR_MEM"))
                 /\ UNCHANGED cache
        \/ /\ ~read_only
           /\ ~in_cache(r.key)
           /\ UNCHANGED cache
           /\ \/ cache_only(r) /\ answer_now(c, Mini("NOTIN"))
              \/ ~cache_only(r) /\ put_in_queue(c, r, FALSE)

(* parse_firstkey and parse_nextkey never look at the cache. *)
parse_walk(c, r) == put_in_queue(c, r, FALSE) /\ UNCHANGED cache

reject(r) == CASE r.op = "OLDVERSION" -> "ERR_VER"
               [] r.op = "BROKEN" -> "ERR_BROKEN"
               [] OTHER -> "ERR_UNKREQ"

(* c's request r reaches the server and its handler runs to the end. *)
parse_message(c, r) ==
    /\ up
    /\ wait[c] = NoReq
    /\ Len(queue) < MaxQueue
    /\ wait' = [wait EXCEPT ![c] = r]
    /\ ret' = [ret EXCEPT ![c] = NoRet]
    /\ \/ r.op = "SET" /\ parse_set(c, r)
       \/ /\ UNCHANGED cap
          /\ \/ r.op = "GET" /\ parse_get(c, r)
             \/ r.op = "DEL" /\ parse_del(c, r)
             \/ r.op = "CAS" /\ parse_cas(c, r)
             \/ r.op = "INCR" /\ parse_incr(c, r)
             \/ r.op \in {"FIRSTKEY", "NEXTKEY"} /\ parse_walk(c, r)
             \/ /\ r.op \in {"UNKNOWN", "OLDVERSION", "BROKEN"}
                /\ answer_now(c, Mini(reject(r))) /\ UNCHANGED cache
    /\ UNCHANGED <<up, db, read_only>>

(* The request is one of those that are put in the queue. *)
reaches_queue(r) ==
    \/ r.op = "GET" /\ ~in_cache(r.key) /\ ~cache_only(r)
    \/ /\ r.op \in Writes /\ ~read_only /\ ~cache_only(r)
       /\ r.op = "CAS" /\ in_cache(r.key) => cache_get(r.key) = r.val
       /\ r.op = "INCR" /\ in_cache(r.key) => nul_terminated(cache_get(r.key))
    \/ r.op \in {"FIRSTKEY", "NEXTKEY"}

(* The cache has what *_reply_long copies into a buffer. *)
long_from_cache(r) ==
    /\ in_cache(r.key)
    /\ \/ r.op = "GET"
       \/ /\ r.op = "INCR" /\ ~read_only /\ cache_only(r)
          /\ nul_terminated(cache_get(r.key))

(* new_entry has a key to copy, or the chain no entry to go before. *)
enters_cache(r) ==
    LET h == hash[r.key]
    IN  /\ r.op = "SET" /\ ~read_only /\ ~in_cache(r.key)
        /\ chain_unusable(cache[h], cap[h]) \/ Len(cache[h]) < cap[h]

(* The process is gone, and its memory with it. *)
server_dies ==
    /\ up' = FALSE
    /\ cache' = empty_cache /\ cap' = all_slots
    /\ queue' = <<>>

(* The event thread is killed in the handler of c's request r:            *)
(*  - no memory for the queue entry's copy of the key (FIRSTKEY has none) *)
(*    or of a value: queue_entry_free frees e->req, which nobody has set; *)
(*  - none for the reply: *_reply_long writes to the NULL it gets;         *)
(*  - none for a new cache entry's key: new_entry frees a piece of the    *)
(*    table; or an earlier failure has left the chain without last->prev. *)
(* Where e->req happens to be NULL put_in_queue has the outcome; a heap   *)
(* that is corrupted is taken to be noticed at once.                      *)
parse_message_dies(c, r) ==
    /\ MemFaults /\ up
    /\ wait[c] = NoReq
    /\ \/ reaches_queue(r) /\ r.op # "FIRSTKEY"
       \/ long_from_cache(r)
       \/ enters_cache(r)
    /\ wait' = [wait EXCEPT ![c] = r]
    /\ ret' = [ret EXCEPT ![c] = NoRet]
    /\ server_dies
    /\ UNCHANGED <<db, inbox, read_only>>

-----------------------------------------------------------------------------
(* The backends (be-*.c).  A backend that fails reports what it reports   *)
(* for a missing key: the interface has no third answer.                  *)

db_set(k, v, rv) ==
    \/ /\ rv = 1
       /\ db' = IF Backend = "null" THEN db ELSE [db EXCEPT ![k] = v]
    \/ DbFaults /\ rv = 0 /\ UNCHANGED db

db_get(k, got) == got = db[k] \/ (DbFaults /\ got = NoVal)

(* leveldb_delete() succeeds whether or not the key was there. *)
deleted(k) == CASE Backend = "leveldb" -> 1
                [] OTHER -> IF db[k] # NoVal THEN 1 ELSE 0

db_del(k, rv) ==
    \/ rv = deleted(k) /\ db' = [db EXCEPT ![k] = NoVal]
    \/ DbFaults /\ rv = 0 /\ UNCHANGED db

has_walk == Backend \in {"tdb", "leveldb"}

(* The key the backend stops at, as a set that is empty if there is none. *)
stored == {k \in Keys : db[k] # NoVal}
first_of(S) == {k \in S : \A j \in S : k <= j}

db_firstkey == first_of(stored)

(* Mutant: the iterator is put at the key and not moved on. *)
db_nextkey_in_place(k) == first_of({j \in stored : j >= k})

(* tdb looks the key up and steps on.  leveldb seeks the first key not    *)
(* before it and steps on from there, wherever it landed.                 *)
db_nextkey(k) ==
    LET from == IF Backend = "leveldb" THEN first_of({j \in stored : j >= k})
                ELSE stored \cap {k}
    IN  first_of({j \in stored : \E i \in from : i < j})

-----------------------------------------------------------------------------
(* The DB thread (dbloop.c). *)

(* Mutant: the test of FLAGS_SYNC is missing. *)
process_set_always_replies(c, r) ==
    \E rv \in {0, 1} :
        /\ db_set(r.key, r.val, rv)
        /\ reply(c, Mini(IF rv = 1 THEN "OK" ELSE "ERR_DB"))

process_set(c, r) ==
    \E rv \in {0, 1} :
        /\ db_set(r.key, r.val, rv)
        /\ IF sync(r) THEN reply(c, Mini(IF rv = 1 THEN "OK" ELSE "ERR_DB"))
                      ELSE UNCHANGED inbox

process_del(c, r) ==
    \E rv \in {0, 1} :
        /\ db_del(r.key, rv)
        /\ IF sync(r) THEN reply(c, Mini(IF rv = 1 THEN "OK" ELSE "NOTIN"))
                      ELSE UNCHANGED inbox

(* malloc() of the 64k buffer every operation below reads into. *)
no_buffer(c) == MemFaults /\ reply(c, Mini("ERR_MEM")) /\ UNCHANGED db

process_get(c, r) ==
    \/ no_buffer(c)
    \/ \E got \in {db[r.key], NoVal} :
          /\ db_get(r.key, got)
          /\ reply(c, IF got = NoVal THEN Mini("NOTIN") ELSE Reply("OK", got))
          /\ UNCHANGED db

(* Mutant: the result is computed and returned but not stored. *)
write_back_lost(c, k, v, rep) == reply(c, rep) /\ UNCHANGED db

(* Mutant: what the backend says of the write is not looked at. *)
write_back_unchecked(c, k, v, rep) ==
    \E rv \in {0, 1} : db_set(k, v, rv) /\ reply(c, rep)

(* The second half of CAS and INCR. *)
write_back(c, k, v, rep) ==
    \E rv \in {0, 1} : /\ db_set(k, v, rv)
                       /\ reply(c, IF rv = 1 THEN rep ELSE Mini("ERR_DB"))

process_cas(c, r) ==
    \/ no_buffer(c)
    \/ \E got \in {db[r.key], NoVal} :
          /\ db_get(r.key, got)
          /\ \/ got = NoVal /\ reply(c, Mini("NOTIN")) /\ UNCHANGED db
             \/ got = r.val /\ write_back(c, r.key, r.new, Mini("OK"))
             \/ /\ got \notin {NoVal, r.val}
                /\ reply(c, Mini("NOMATCH")) /\ UNCHANGED db

process_incr(c, r) ==
    \/ no_buffer(c)
    \/ \E got \in {db[r.key], NoVal} :
          /\ db_get(r.key, got)
          /\ \/ got = NoVal /\ reply(c, Mini("NOTIN")) /\ UNCHANGED db
             \/ /\ got # NoVal /\ ~nul_terminated(got)
                /\ reply(c, Mini("NOMATCH")) /\ UNCHANGED db
             \/ /\ got # NoVal /\ nul_terminated(got)
                /\ LET new == incremented(got, r.inc)
                   IN  write_back(c, r.key, new, Reply("OK", Number(new.num)))

(* Mutant: the end of the walk is not told. *)
process_walk_silent(c, found) ==
    /\ UNCHANGED db
    /\ \/ ~has_walk /\ reply(c, Mini("ERR_DB"))
       \/ has_walk /\ found = {} /\ UNCHANGED inbox
       \/ has_walk /\ \E k \in found : reply(c, Reply("OK", KeyData(k)))

process_walk(c, found) ==
    /\ UNCHANGED db
    /\ \/ ~has_walk /\ reply(c, Mini("ERR_DB"))
       \/ has_walk /\ no_buffer(c)
       \/ has_walk /\ (found = {} \/ DbFaults) /\ reply(c, Mini("NOTIN"))
       \/ has_walk /\ \E k \in found : reply(c, Reply("OK", KeyData(k)))

process_op ==
    /\ up
    /\ queue # <<>>
    /\ queue' = Tail(queue)
    /\ LET c == Head(queue).cli
           r == Head(queue).req
       IN  \/ r.op = "SET" /\ process_set(c, r)
           \/ r.op = "DEL" /\ process_del(c, r)
           \/ r.op = "GET" /\ process_get(c, r)
           \/ r.op = "CAS" /\ process_cas(c, r)
           \/ r.op = "INCR" /\ process_incr(c, r)
           \/ r.op = "FIRSTKEY" /\ process_walk(c, db_firstkey)
           \/ r.op = "NEXTKEY" /\ process_walk(c, db_nextkey(r.key))
    /\ UNCHANGED <<up, cache, cap, wait, ret, read_only>>

(* The DB thread is killed by *_reply_long, which writes to the NULL that  *)
(* malloc() gave it, when it has a value, a number or a key to report; the *)
(* number has been stored by then.                                         *)
process_op_dies ==
    /\ MemFaults /\ up
    /\ queue # <<>>
    /\ LET r == Head(queue).req
       IN  \/ r.op = "GET" /\ db[r.key] # NoVal /\ UNCHANGED db
           \/ /\ r.op = "INCR" /\ db[r.key] # NoVal /\ nul_terminated(db[r.key])
              /\ db_set(r.key, incremented(db[r.key], r.inc), 1)
           \/ /\ has_walk /\ UNCHANGED db
              /\ \/ r.op = "FIRSTKEY" /\ db_firstkey # {}
                 \/ r.op = "NEXTKEY" /\ db_nextkey(r.key) # {}
    /\ server_dies
    /\ UNCHANGED <<wait, ret, inbox, read_only>>

-----------------------------------------------------------------------------
(* c reads the reply it is blocked on and its call returns.  A reply sent *)
(* before the server died is taken to be read before.                     *)
get_rep(c) ==
    /\ up
    /\ wait[c] # NoReq
    /\ inbox[c] # <<>>
    /\ ret' = [ret EXCEPT ![c] = LibResult(wait[c].op, Head(inbox[c]))]
    /\ wait' = [wait EXCEPT ![c] = NoReq]
    /\ inbox' = [inbox EXCEPT ![c] = Tail(@)]
    /\ UNCHANGED <<up, cache, cap, queue, db, read_only>>

(* Mutant: the signal toggles the mode, as SIGUSR2 does for passive. *)
SIGUSR1_toggles ==
    /\ up
    /\ read_only' = ~read_only
    /\ UNCHANGED <<up, cache, cap, queue, db, wait, inbox, ret>>

(* SIGUSR1 makes the server read-only, for good. *)
SIGUSR1 ==
    /\ up
    /\ ~read_only
    /\ read_only' = TRUE
    /\ UNCHANGED <<up, cache, cap, queue, db, wait, inbox, ret>>

Dies ==
    \/ \E c \in Clients, r \in Requests : parse_message_dies(c, r)
    \/ process_op_dies

(* Nobody starts the server again. *)
Down == ~up /\ UNCHANGED vars

Next ==
    \/ \E c \in Clients, r \in Requests : parse_message(c, r)
    \/ process_op
    \/ \E c \in Clients : get_rep(c)
    \/ SIGUSR1
    \/ Dies
    \/ Down

Spec == Init /\ [][Next]_vars

(* The DB thread takes the next entry within a second even when nobody    *)
(* signals it (db_loop's timed wait), and a blocked client reads its      *)
(* reply.  Nothing obliges a client to make a call.                       *)
Fairness == WF_vars(process_op) /\ \A c \in Clients : WF_vars(get_rep(c))

LiveSpec == Spec /\ Fairness

-----------------------------------------------------------------------------
(* An entry whose request is answered by the DB thread. *)
owes_reply(e) == e.req.op \in {"SET", "DEL"} => sync(e.req)

owed(c) == {i \in DOMAIN queue : queue[i].cli = c /\ owes_reply(queue[i])}

(* A blocked client has exactly one answer coming, either in its inbox or *)
(* from one queue entry that will produce it, and an idle client none:    *)
(* every path through parse.c and process_op that the server survives     *)
(* answers once.  A second answer would be taken for the next call's.     *)
(* A failing malloc() that kills the server takes answers with it and     *)
(* adds none.                                                             *)
OneReplyOwed ==
    \A c \in Clients :
        \/ wait[c] = NoReq /\ inbox[c] = <<>> /\ owed(c) = {}
        \/ wait[c] # NoReq /\ Len(inbox[c]) = 1 /\ owed(c) = {}
        \/ /\ up /\ wait[c] # NoReq /\ inbox[c] = <<>>
           /\ \E i \in owed(c) : owed(c) = {i} /\ queue[i].req = wait[c]
        \/ ~up /\ wait[c] # NoReq /\ inbox[c] = <<>> /\ owed(c) = {}

(* A chain never outgrows the slots it has in use and holds a key once:   *)
(* the slots are a fixed array, and find_in_chain stops at the first      *)
(* match.                                                                 *)
ChainsWellFormed ==
    \A h \in Chains :
        /\ Len(cache[h]) <= cap[h]
        /\ \A i, j \in DOMAIN cache[h] :
              cache[h][i].key = cache[h][j].key => i = j
        /\ \A i \in DOMAIN cache[h] : hash[cache[h][i].key] = h

(* A blocked client gets an answer, whichever of its clients' requests    *)
(* the server is given and whatever fails on the way (parse.c and         *)
(* process_op reply on every path they come back from), unless a malloc() *)
(* fails where that kills the server: then nobody is answered any more.   *)
EveryCallReturns ==
    \A c \in Clients : wait[c] # NoReq ~> (wait[c] = NoReq \/ ~up)

(* Once read-only, neither the cache nor the queue gets a new write, so   *)
(* that the database can only still receive the writes accepted before.   *)
ReadOnlyIsFinal ==
    [][read_only =>
          /\ read_only'
          /\ cache' = cache \/ ~up'
          /\ \A i \in DOMAIN queue' :
                queue'[i].req.op \in Writes =>
                    \E j \in DOMAIN queue : queue[j] = queue'[i]]_vars

=============================================================================
