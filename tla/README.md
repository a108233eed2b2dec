# A TLA+ model of nmdb

nmdb is a network database: a server with an in-memory cache in front of an
embedded key-value store, and a C library its clients link with. This
directory holds a model of it in TLA+, the TLC runs that check it on small
instances, and proofs that TLAPS checks for all instances.

Sources are named relative to the repository, which is `src/` in
`PROJECT.json`.

## The system

| part | state it keeps | operations | works with |
|---|---|---|---|
| event thread, `net.c`, `parse.c` | read-only flag | one handler per request | owns the cache, fills the queue, replies |
| cache, `cache.c` | hash table of chains of at most `CHAINLEN` entries | get, set, del, cas, incr | called by the handlers only |
| queue, `queue.c` | singly linked list, mutex, condition variable | put, get, timed wait, signal | the two threads |
| DB thread, `dbloop.c` | its locals, the stop flag | take an entry, process it, reply | owns the backend |
| backends, `be-*.c` | the database | set, get, del, firstkey, nextkey | called by the DB thread |
| transports, `tcp.c`, `udp.c`, `tipc.c`, `sctp.c` | TCP: a buffer per connection | receive, reply | both threads send |
| client library, `libnmdb/` | sorted array of servers, sockets | one function per operation, blocking | picks a server by checksum |
| statistics, log, bindings, utilities | counters | | nothing reads them back |

A request reaches the event thread, which works on the cache and either
answers or appends the request to the queue. A normal ("asynchronous") write
is answered as soon as it is queued, a synchronous one by the DB thread when
the database has it. CAS and INCR are worked out twice: on the cache if the
key is there, and again by the DB thread on the database, which then may be
any number of writes behind.

What is hard in it:

* **Coherence.** Nothing but the order of the queue makes the DB thread reach
  the verdicts the event thread reached on the cache. Gets that miss because of
  an eviction go through the same queue.
* **One answer per request.** Replies carry no usable request identity (the
  library always sends the same id), and there are some twenty places in two
  threads that answer or do not.
* **Allocations that fail** where the code looks, and where it does not: some leave
  the cache and the database apart, some end the server.
* **The queue and the wait.** Signals are sent for synchronous operations
  only and can find nobody waiting; the stop flag is read outside the mutex.
* **The cache's lists.** Doubly linked lists inside fixed arrays, slots and
  buffers reused, allocation failures half way.
* **Backends that differ**: on deleting a missing key, on walks.
* **The wire**: TCP messages cut and joined anywhere, a server that dies in the
  middle of a reply.
* **Who gets a reply**: clients that go away while their requests are queued,
  and whose descriptor or address is soon another's; TCP peers that do not read, or
  have gone, when the reply is sent.
* **Walks**, which span many requests while others write.
* **Several servers**: clients must pick the same one for a key, with no help
  from the servers; an active and a passive server get every request by multicast.

`PROJECT.json` lists these as hazards, each at its line.

## Modules

| module | models | remarks |
|---|---|---|
| `Store` | values, requests, replies, INCR's arithmetic, what the library returns for a reply | no variables; shared by all |
| `AtomicStore` | the promise: one store, each call atomic | abstract specification |
| `Chain` | a bucket as a sequence: set, del, update | no variables |
| `Nmdb` | server and clients: handlers, queue, `process_op`, backends, SIGUSR1, `get_rep` | one action per handler |
| `NmdbLin` | `Nmdb` with history variables, mapped to `AtomicStore` | |
| `ChainList` | a bucket with the operations of `Chain` as a state machine | abstract specification |
| `CacheChain` | a bucket as `cache.c` has it: array, pointers, `malloc` | mapped to `ChainList` |
| `DbLoop` | the queue, the mutex, the condition variable, `db_loop`, shutdown | one action per step the other thread can see |
| `NmdbWalk` | `Nmdb` with a client that walks with `nmdb_firstkey` and `nmdb_nextkey` | |
| `Tcp` | `tcp_recv`, `process_buf`, `rep_send`, and `recv_msg` and `do_get` on the client's side | bytes as digits of a small base; one connection |
| `Conns` | clients of all protocols that come and go; descriptors, addresses, the queue, `rep_send` of both threads | a request is its tag, a reply the tag of its request |
| `ServerPool` | `nmdb_add_*_server`, `nmdb_free`, `compare_servers`, `checksum`, `select_srv` | both byte orders, bytes of two bits |
| `Passive` | two servers on one TIPC name, `settings.passive`, SIGUSR2 | each server as `NmdbLin` shows it to be |
| `MC*` | the instances TLC checks | |
| `ChainProofs` | what `Chain`'s operations do to a chain | lemmas only |
| `NmdbProofs` | theorems about `Nmdb`, `NmdbLin` and `NmdbWalk` | |
| `CacheChainProofs`, `DbLoopProofs`, `ConnsProofs`, `PassiveProofs`, `TcpProofs`, `ServerPoolProofs` | theorems about the modules they are named after | |

### Data

A key is a number, its place in the backend's walk. A value is `[fmt, num]`:
the server looks into values only in INCR, and `fmt` says what INCR finds (no
final NUL, a text, a short number, the 24 bytes INCR itself writes). Two values
are equal if the bytes would be. `IntMod` stands for 2^64: `Wrap` is the
two's-complement addition. Values of length zero, and values longer than 24
bytes, in which INCR keeps the length, are left out. A request whose sizes do
not add up is one operation, `BROKEN`; a wrong version and an unknown command
are two more.

### Grain

In `Nmdb` a handler is one step, because all it touches belongs to the event
thread, but for one `queue_put` under the mutex; and taking an entry and
processing it is one step, because only the DB thread takes entries and only it
uses the backend. `DbLoop` splits both at every access to shared state, and
shows that entries come out once and in order (`QueueIntact`,
`ProcessedInOrder`), which is what lets `Nmdb` use a sequence. In the same way
`CacheChain` justifies the sequences `Nmdb`'s cache is made of.

In `Nmdb` a client sends, blocks and reads one reply; transport is reliable and
a request in transit is one that will be sent later. What is not reliable about
transport is in modules of its own, which in turn leave the store out: `Tcp` has
the bytes of one connection, `Conns` the connections and datagrams of many
clients, with UDP losing and repeating them. `Passive` composes two servers, each
of which is a store whose requests take effect when they are handled and are
answered then or later: what `ImplementsAtomicStore` shows of one.

### Failures

`MemFaults` lets each `malloc` in the request path fail, `DbFaults` each call
of the backend (the interface reports a failed get as "not there"). What becomes of a
failing `malloc` depends on where it is:

* Where the code looks and undoes what it did, the client gets `ERR_MEM`: the queue
  entry and its copy of `req`, the DB thread's buffers, new values in the cache.
* A `cache_set` that fails in a full chain has evicted an entry by then, and does
  not count its slot as free again (`cache_set_fails`). `cap` is the number of slots
  a chain has left. A chain that has lost slots and has not the entry that
  `c->first` or `c->last->prev` should name is followed into a null pointer
  (`chain_unusable`).
* Where the code does not look, or gives back what it should not, the process ends.
  `parse_message_dies` has the event thread's cases: the queue entry's copy of the
  key or of a value, after which `queue_entry_free` frees an `e->req` that
  `queue_entry_create` has not set; the buffer of `*_reply_long`; a new cache entry's
  key, after which `new_entry` frees a piece of the table; the unusable chain.
  `process_op_dies` has the DB thread's, the buffer of `*_reply_long`. Garbage in
  `e->req` may also be a null pointer, and then there is an `ERR_MEM`: the model has
  both. A heap that is corrupted is taken to be noticed at once; what a server might
  do before that cannot be said.

A server that has died (`~up`) has lost cache and queue, and does nothing more.
`WaitFaults` lets
`pthread_cond_timedwait` fail. `ServerPool`'s `MemFaults` lets the `realloc`
fail that is to make the array shorter. `server_dies` (`Tcp`), `leave` (`Conns`)
and `crash` (`Passive`) end a process at any point; a crashed server does not come
back, as nmdb keeps no log of its own to come back with.

In `Conns` a TCP peer can harm the thread that replies to it. While it does not
read, its window is full and `rep_send` tries again for ever (`rep_send_spins`;
`EAGAIN` and `EWOULDBLOCK` are the same number on Linux): the event thread then calls
no handler, the DB thread takes no entry. Once it has gone, a reply may vanish, as
long as its reset has not come; afterwards `send` fails, `rep_send_error` calls it
once more, and the SIGPIPE of that, which nothing handles, kills the process
(`rep_send_dies`). A datagram that cannot be sent harms nobody, nor does a descriptor
that is closed. `tcp_reply_err` sends once only and gives up when there is no room;
the client that waits for its 16 bytes has read everything before, so that there is.

## Runs

| run | question | bounds |
|---|---|---|
| `atomic` | is the server the atomic store it promises to be? | 2 clients, 3 keys on a chain of 2 entries, queue of 2, `IntMod` 4, tdb |
| `nmdb_faults` | one answer per request on every path, nothing acknowledged and lost, read-only for good? | 2 clients, 3 keys, all operations and flags, all failures, qdbm, which has no walk |
| `walk` | what does a walk miss, does every call return? | a walker and a writer, 3 keys, any database to start with, failing allocations, leveldb |
| `chain` | are the linked lists the sequences, also when allocations fail? LRU by set? | 4 keys, 3 slots |
| `tcp_stream` | are requests and replies put together again? | 3 requests of 5 kinds, lengths of 2 digits, every cut, a server that dies |
| `tcp_pipeline` | and those of a client that does not wait? (violated) | 2 requests |
| `conns` | who sees whose replies, which calls return, do descriptors come back, also when TCP peers stall a thread or kill the server? | any 2 of 2 TCP, 1 UDP and 1 TIPC or SCTP clients, 2 calls each, 2 descriptors, 2 addresses |
| `conn_reuse` | does a TCP client get replies to its own requests only? (violated) | 2 TCP clients |
| `pool` | do processes with the same servers choose alike? Is every socket accounted for? | 2 processes, 6 servers, 3 attempts each, 7 keys |
| `failover` | is the passive copy up to date, is a switch safe? | 2 servers, 2 clients, 1 key, 3 calls, 2 signals or crashes |
| `db_loop` | the queue and the two threads | 3 entries, 2 of them synchronous, failing waits |
| `db_shutdown` | is the queue drained at shutdown? (violated) | 2 entries |

Why the bounds are enough: three keys on a chain of two make every set a
possible eviction; a queue of two lets a read be queued behind a write, and a
write behind a write, of the same key; two clients are enough for a call to come
between another's call and its return. With `IntMod` 4 an increment overflows
after two steps. In `nmdb_faults` the third key, which is only cached, fills the
chain, so that a set that fails evicts and costs a slot, up to the last. A chain of three has a first, a middle and a last entry, and
four keys evict. In `walk` a key can be added or deleted behind the walk, under it
and ahead of it. The five kinds of request of `tcp_stream` are the shortest and
the longest the server takes, one too short, one too long and one of another
version. Three queue entries fill, empty and refill the list around each wait. In
`conns` one client can take over what another left; the safety properties were
also checked once with three clients in a behaviour (4.5 million states). The
six servers of `pool` differ in one respect from one another: protocol,
address, port, or only how the bytes of these compare on the two kinds of
machine; two of the keys make the fold of the checksum carry twice. In
`failover` a switch takes two events, both signals or a crash and a signal, and
three calls put a write before it and a read after it, or two writes in a race.

The queue is unbounded in the code; `MaxQueue` bounds it in the guard of
`parse_message`. `MaxSends`, `MaxCalls`, `MaxAdds` and `MaxEvents` bound what
clients and administrators do, `Parties` how many clients there are in one
behaviour of `Conns`. Symmetry is used in runs without liveness only.
`nmdb_faults` compares states without the results of calls that have returned, what
an answer under way says, and the promises about keys already spoilt (`VIEW
FaultsView`), on which neither later steps nor its properties depend.

### What they show

*Coherence.* `ImplementsAtomicStore`: for get, set, del, cas and incr that
reach the database, the results and the contents are those of one atomic store
in which a call takes effect when its handler runs. Cache-only calls and
walks may return anything but must not disturb it. `CacheCoherent` and
`QueueReplaysToStore` say why: what is cached is the newest accepted
value, and replaying the queue on the database gives the store. All this holds
without failures and while a key is used either in the database or only in the
cache; the user guide calls mixing the two "a recipe for disaster".

*Failures.* On every path the server survives each request gets one answer
(`OneReplyOwed`), and each call returns (`EveryCallReturns`). It does not survive
every failing `malloc`: then calls under way never return (over TCP they fail, see
`Conns`), asynchronous writes that were answered and not yet carried out are lost,
and no client has got more than the one answer. Short of that, what failures cost
is coherence: the cache is written first, and a write that could not be queued, or
that the backend then refuses, stays in it. `OnlyAsyncFailsSilently` says how far
that goes: a key departs from what its clients were told only if one of them was
told of a failure, or an asynchronous write failed after it was acknowledged; a
synchronous operation never says "done" and is not.

*The cache's lists.* `ImplementsList` includes failures of `malloc`: a set that
fails in a full chain evicts the last entry and leaves `c->len` as it was, so that
the chain goes on with one slot less (`cap` in `ChainList`), and a chain that has
lost all but one follows a null pointer at the next insertion (`SetKills`; in `Nmdb`
`cap`, `cache_set_fails` and `chain_unusable`).
`LinksAgree`: short of that the list is never broken.

*Walks.* A walk on leveldb sees every key that was stored, or accepted to be
stored, before it began and not deleted since, except that each time the key it
stands on is deleted under it one further key can be skipped
(`WalkMissesOnePerGap`; nmdb.h warns of skipped keys), and no key twice. Nothing
makes it end as long as others add keys ahead of it. On tdb a walk whose key is
deleted simply ends.

*Waiting.* If the timed wait ever failed, `db_loop` would lock the mutex it
holds, against its own comment; `db_loop` runs into that and shows that
nothing accepted is lost with it (`StuckLoopOwesNothing`).

*The wire.* For a client that waits for its reply, as the library does, every
way of cutting the stream gives the same requests and replies
(`ParsedInOrder`, `RepliesMatch`), `recv` is never asked for nothing
(`ReadsMakeProgress`), the server hangs up only for cause (`ClosedForCause`),
and every request is answered or its call fails. When the server dies within a
reply, `recv_msg` hands on what there is; `do_get`'s comparison of the value's
size with the payload's then makes the call fail. Only a reply cut before the end
of that size is not noticed, because `psize - 4` is unsigned: the request's
bytes, which lie in the same buffer, are taken for the size. `RepliesMatch` names
that case.

*Clients that go.* The server keeps of a request's origin a descriptor or an
address, and both can pass to another client before the DB thread answers.
`OnlyHeirsSeeStrangers` says that this is the only way to see another's reply,
and only the reply to a request of one that has gone; `CallsStayInStep` that
calls and replies of all others correspond, which rests on one reply per request
alone. What others do to a client's calls is in `CallsReturn`: no order of coming,
calling and leaving makes the server forget a request, but a peer that never reads
stops the thread that replies to it and with it every client's calls (`PeersRead` is
the premise that this does not last), and a peer that has gone can kill the server,
after which calls over TCP fail and datagram clients wait for ever. Without the
premise, or without that exception, TLC finds the behaviours. `DescriptorsComeBack`
is under the same conditions.
UDP is left out of `CallsStayInStep` and `CallsReturn`: a lost datagram blocks the
caller for ever and one delivered twice puts its calls out of step; the code does
nothing against either, and doc/network.rst asks for a reliable transport.

*Several servers.* `AgreeOnServers`: the array is sorted by everything that tells
two servers apart, so that processes that were given the same servers choose
alike. That holds on machines of one byte order: addresses, ports and the
pairs of bytes in `checksum` are compared and summed as the machine reads them, and
without the premise `order[p] = order[q]` TLC finds two processes that disagree.
`checksum` is the complement of the one's complement sum of what it reads
(`SelectsByOnesComplement`), but not RFC 1071's sum of the key: `buf++` moves by
one byte where the RFC moves by two, so that the pairs overlap and the second
half of a key has no influence. `NoDescriptorLost` allows for the one leak there
is, a failed `realloc` that makes `add_tcp_server_addr` forget all servers.

*Passive mode.* `CopiesAgree`: active and passive server hold the same values but
for keys that two clients wrote at the same time, as nothing orders the requests
of two senders at two receivers. `QuietSwitchIsSafe` and `CallsReturn`: a switch,
or a crash and a switch, while no request is under way is invisible to clients.
With requests under way it is not: `settings.passive` is looked at when a
reply is sent, so that there can be two replies or none; `disturbed` marks
those behaviours. What a get may return is judged by three history variables:
`returned` are the writes to a key whose calls have returned, `before` what had
returned, or had been replaced, when a call began, and `replaced` the writes that
some returned write came after. They are emptied once a behaviour is disturbed.

*Findings.* Three runs end in a violation and show where the code and what is
said of it part:

* `db_shutdown`: the loop reads the stop flag after it found the queue empty
  and unlocked it. An operation accepted in between is never written: in the
  trace a synchronous one, whose client waits in vain; of an asynchronous one the
  client has been told OK.
* `tcp_pipeline`: `process_buf` goes on with the length of the message it has
  parsed in place of that of the leftovers. A request that arrives with a part of
  the next one is carried out twice; behind a short one, longer leftovers are
  dropped.
* `conn_reuse`: the reply to a queued request goes to whoever has the descriptor
  by then, and since all requests of the library have the same ID, that client
  takes it for its own.

Differences that need no run: `doc/design.rst` has lookups promote an entry of
the cache; in `cache_get` they do not, and `KeepsRecentSets` states the order the
code keeps. On leveldb a synchronous delete of a missing key returns 1, where
libnmdb.3 has 0 for it. `nmdb_stats` steps through its buffer by the payload's
size with the four bytes of length, so that the counters of a second server are
not where `nstats` puts them.

### Fairness

`Nmdb`: weak fairness of `process_op` (the loop wakes at least once a second)
and of a blocked client reading its reply. Clients need not call. `DbLoop`: weak
fairness of each step of a thread that has nothing to wait for, strong fairness
of taking the mutex, which is released over and over while it is wanted. That a
wait times out is a premise of the properties that need it
(`TimeoutsHappen`), strong because the deadline is absolute and survives spurious
wakeups; `SyncEntryProcessed` does without it. `Tcp`: weak fairness of
the server's and the blocked client's steps; a client need not send.
`NmdbWalk`: as `Nmdb`; the walker need not go on. `Conns` and `Passive`: weak
fairness of the handlers libevent calls, of the DB thread, and of clients reading
what has come; nobody has to call, to leave, to crash or to send a signal. In `Conns`
nothing is assumed of a thread that spins in `rep_send` but `PeersRead`, where a
property says so.

## Proofs

The theorems hold for every value of the constants that the named `ASSUME`s of the
modules allow: any clients, keys, well-formed requests, hash function, chain length
above one, queue bound, entries, descriptors, addresses and servers; for TCP any
base, number of digits and limits on sizes, for the server pool any size of a byte.
The values of the code are among them; what stays shorter than in the code are fields
whose width nothing depends on (two bytes of address in `ServerPool`, one of code
and version in `Tcp`). Each theorem rests on an inductive invariant that says why
the property holds; the properties themselves rarely are inductive. A theorem
cites the assumptions of the module it is about: those of `NmdbWalk`, which
`NmdbProofs` extends too, are used for the walk only.

**The server** (`NmdbProofs`), with and without failures, on any backend:

* `TypeCorrect` (`TypeOK`) and `ChainsStayWellFormed` (`ChainsWellFormed`). Types
  alone are not inductive: that the chains stay within their slots needs each key
  to be there once, and where `find_in_chain` looks for it. So the invariant for
  both is `TypeInv`, the two together. `ChainProofs` says what set, del and update
  do to the entries of one chain in good order (`ChainOK`), and `CacheOKMeans`
  carries that to the table. Each handler then has a lemma of its own.
* `OneReplyPerRequest` (`OneReplyOwed`), inductive over `TypeInv`.
  `ParseAnswersOnce` and `ProcessAnswersOnce` say of the paths the server survives
  that a handler either answers or leaves one entry that owes the answer, and that the
  DB thread answers exactly for the entries that owe one; `DiesOneReply` that a
  failing allocation which kills it leaves each client with at most the answer it
  already has coming. `OwedAfterPut` and
  `OwedAfterTake` say how the positions of those entries move with the queue.
* `ReadOnlyForGood` (`ReadOnlyIsFinal`), an action property; the cache of a server
  that dies is gone, and with it what it had.

**The server against its promise** (`NmdbProofs`, over `NmdbLin`):

* `FailuresAreTold` (`OnlyAsyncFailsSilently`), for every backend but null, which
  keeps nothing, and with every failure, as long as the server lives. Its invariant `LInv` says what the
  snapshots of `NmdbLin` are: one per queue entry, each the effect of the entry on
  the one before (`Snapshots`), that cache-only requests are not queued
  (`QueuedReachDb`), that what an entry will answer was promised when it was queued
  (`Promises`), and that an answer differs from the promise only where the key is
  marked (`AnswersKept`).
* `CacheStaysCoherent` (`CacheCoherent`) and `QueueReplays` (`QueueReplaysToStore`),
  for allocations and a backend that work (`Reliable`). `CInv` adds to `LInv` that
  on keys used in the database the cache agrees with the store and the first
  snapshot with the database: neither property is inductive without the other, as
  what is in the database decides what an entry will do.
* `ServerIsAtomic` (`ImplementsAtomicStore`), the refinement of `AtomicStore`, where
  moreover no key is used both in the database and in the cache only, and the
  backend is not leveldb, whose deletions do not report a missing key (`Atomic`).
  `RInv` is `CInv` with the answers under way. A handler maps to `AtomicStore`'s
  effect, reading the reply to its return, and what the DB thread does to a
  stutter: everything it will find was settled when the request was queued.

**Walks** (`NmdbProofs`, over `NmdbWalk`): `WalkMissesFew` (`WalkMissesOnePerGap`),
on leveldb and while the backend works, allocations failing or not. The property
looks at where the walk is; what makes it so is decided earlier, when the DB thread
looks for the next key, and reaches the walker through a reply. `WInv` therefore
says of the reply on its way that the key in it lies ahead, and that taking it
leaves out no more keys than `gaps` allows (`ToldRight`); that the only walk in the
queue is the walker's, from the key it stands on (`OneWalks`, `AsksFromHere`); that
keys were given in rising order (`GoesUp`), from which no key comes twice; and that
a steady key is in the database or has a set in the queue, ahead of the walk's
request and with no deletion behind it (`SteadyKept`). A server that dies only stops the
walk: the walk's invariant `WInv` is asked for while it lives, and what the walk has
missed by then stays as it is (`VInv`). It stands on `OneReplyOwed`:
with two replies under way the walk could go on from the wrong one.
`WalkerAssumption` has finitely many keys, numbered from one, and the walk's
requests among the well-formed ones.

**The cache's lists** (`CacheChainProofs`), for any number of slots and any failing
allocation: `LinksStayRight` (`LinksAgree`), `NewestAreKept` (`KeepsRecentSets`),
`TypeCorrect`, and `ListIsImplemented`, the refinement of `ChainList`. The
invariant names what the array holds: `Good(w)`, where `w` is a path of slots that
is linked both ways from `first` to `last` (`Linked`), has each key once (`Keyed`),
has all used slots (`Complete`), is counted by `c->len` up to slots lost (`Counted`)
and is in the order of the last sets (`ByAge`). Each action is shown to lead from
one good path to the next: unlinking a slot and pushing one to the front are
lemmas about arrays (`UnlinkKeepsLinks`, `PushKeepsLinks`), of which deletion,
eviction, promotion and insertion are made. `WalkIsPath` says that a loop along
`next` finds the path; it is proved by taking the least number of steps for which
it would not, and `FromEquation`, that the recursive function is what its definition
says, in the same way. `TypeOK` is no invariant by itself here: that `last->prev` is
a slot, say, depends on the list being one.

**The queue** (`DbLoopProofs`), for any entries, with and without failing waits:
`MutualExclusion` (`MutexHeld`), `ListStaysIntact` (`QueueIntact`),
`FirstInFirstOut` (`ProcessedInOrder`), `StuckOwesNothing` (`StuckLoopOwesNothing`)
and `TypeCorrect`. The invariant has two parts. `Control` relates program counters,
mutex, the entry in hand and `size`, which runs a step behind the list while a
thread is at it; `Lists` the pointers to what was put and taken. That a thread finds
the list as it left it is what the first gives the second.

**Clients that come and go** (`ConnsProofs`): `NoStrangersReplies`
(`OnlyHeirsSeeStrangers`), `RepliesInStep` (`CallsStayInStep`) and `TypeCorrect`.
`HInv` says who an end leads to (`Held`): to the client that believes in it, or
to an heir once that client has gone. `Spins` says of a thread in `rep_send` that
it has the request. `SInv` adds that the request of a client
that inherited nothing is in one place: under way, in the queue, or answered.

**Passive mode** (`PassiveProofs`), for any finite set of servers: `CopiesStayEqual`
(`CopiesAgree`) and `QuietSwitchesAreSafe` (`QuietSwitchIsSafe`). Between two
deliveries the copies differ; what agrees is what a server will hold when it has
all requests on their way to it, `Final`, a relation because for a raced key there
may be several such values. The second theorem needs, besides, where at the active
server each call is (`Place`) and that neither the store nor an answer on its way
is older than what its call must come after (`Fresh`, `Kept`, `Good`).

**The wire** (`TcpProofs`). For any client, waiting or not: `TypeCorrect` (`TypeOK`),
which is where it is seen that nothing is written behind a buffer, and
`ReadsAskForBytes` (`ReadsMakeProgress`). For one that waits for its replies
(`~Pipelined`; for others the first is false, see `tcp_pipeline`):
`RequestsInOrder` (`ParsedInOrder`), `CallsGetTheirReply` (`RepliesMatch`) and
`HangsUpForCause` (`ClosedForCause`). Everything rests on `NtohlHtonl`: a length
that fits its digits is read back as it was written, from the first bytes of a
message however they came in. The two functions go through the digits by recursion,
and what they compute is shown by looking at the first digit at which they would
differ. `OInv` then says that a call is in one of six phases, and in each where all
bytes of its message are: `Coming` (what is in `buf` or `work` and what is in `up`
make up the request), `Owing`, `Answered` (the same for `cbuf`, `down` and the
reply), `CutOff`, `Gone` and `Idle`. `DigitsAssumption` says that lengths fit the
digits, which the code's limit of 64 KB in four bytes gives.

**The server pool** (`ServerPoolProofs`): `ProcessesAgree` (`AgreeOnServers`),
`DescriptorsKept` (`NoDescriptorLost`) and `SelectionIsOnesComplement`
(`SelectsByOnesComplement`). `PInv` has for each process that its array is sorted,
each server has a socket of its own, that the open sockets are these (unless the
array was lost), and that descriptors are below the number of calls, so that there
is always a free one. That sorted arrays agree takes two facts about the code: that
of two different servers `compare_servers` puts one first (`OneIsBelow`), in which
each field it compares is needed, and that it never depends on the descriptor, which
differs between processes. `SortedIsUnique` is then shown at the first place where
two arrays with the same servers would differ. For the checksum, a fold keeps the
sum modulo `Word - 1` and does not make it zero (`FoldKeeps`); that two are enough
follows from the sum's bound, for which keys must be shorter than 64 KB
(`PoolAssumption`), as the protocol has it.

Model-checked only: the liveness properties (`EveryCallReturns`,
`EveryRequestAnswered`, `CallsReturn`, `DescriptorsComeBack`, `EveryEntryProcessed`,
`SyncEntryProcessed`, `ShutdownCompletes`), which depend on fairness and are out of
the prover's reach. Every invariant, action property and refinement that a passing
run checks is proved. The library's induction theorems cannot be used with these
provers; where a recursive function or a sequence asks for induction, the proofs take
a least counterexample instead, from the well-foundedness of the natural numbers.

## Not modelled

Statistics (`parse_stats`, `nmdb_stats`, nmdb-stats: counters nothing reads back),
logging and log reopening, option parsing and daemon mode, setting up sockets,
`netutils.c`. The language bindings, which convert arguments and keep no state but
the `nmdb_t`. The byte layout of messages and the size checks on it, except for
TCP's length and the value's in a get reply; values of length zero, for which
`cache_incr` reads the byte before the buffer. Opening and closing of the
backends, and what of a database survives a crash, which is up to the backend's
library. Calls on one `nmdb_t` from several threads, which the guide forbids.

## Status

Modelled, checked and proved: the core (`Store`, `AtomicStore`, `Chain`, `Nmdb`,
`NmdbLin`) with failures and walks (`NmdbWalk`), the cache's lists (`CacheChain`),
the queue and the threads (`DbLoop`), the framing (`Tcp`), connections (`Conns`), the
server pool (`ServerPool`) and passive mode (`Passive`). Worth adding next:

1. `Tcp` with several connections, so that `Conns` need not take framing for granted.
2. Opening and closing of the backends, and what of the queue is lost when the
   process dies.
