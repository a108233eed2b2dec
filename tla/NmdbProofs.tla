----------------------------- MODULE NmdbProofs -----------------------------
(***************************************************************************)
(* Theorems about Nmdb, about what its callers see (NmdbLin) and about     *)
(* walks (NmdbWalk), for any clients, keys, requests, hash function and    *)
(* chain length, with and without failures.                                *)
(***************************************************************************)
EXTENDS NmdbLin, NmdbWalk, ChainProofs, FiniteSetTheorems, WellFoundedInduction

(* Two's complement addition stays an integer. *)
LEMMA IncrementedType ==
    ASSUME NEW v \in Value, NEW i \in Int
    PROVE  incremented(v, i) \in Value /\ incremented(v, i) \in Data
<1>1. strtoll(v) \in Int
    BY DEF strtoll, Value
<1>2. \A n \in Int : Wrap(n) \in Int
    BY IntModAssumption DEF Wrap
<1>. QED
    BY <1>1, <1>2 DEF incremented, Value, Data, Formats

(* A library function returns an integer and, at most, the reply's data. *)
LEMMA LibResultType ==
    ASSUME NEW op, NEW rep \in ReplyType
    PROVE  LibResult(op, rep) \in ResultType
<1>1. rep.data \in Data /\ NoVal \in Data
    BY DEF ReplyType, NoVal, Data
<1>2. \A n \in Int, d \in Data : Result(n, d) \in ResultType
    BY DEF Result, ResultType
<1>. QED
    BY <1>1, <1>2
       DEF LibResult, do_get, do_set, do_del, do_cas, do_incr, nmdb_walk

LEMMA ReplyTypes ==
    /\ \A code \in Codes : Mini(code) \in ReplyType
    /\ \A code \in Codes, d \in Data : Reply(code, d) \in ReplyType
    /\ Value \subseteq Data /\ MaybeValue \subseteq Data
    /\ \A n \in Int : Number(n) \in Data /\ KeyData(n) \in Data
    /\ Value \subseteq MaybeValue /\ NoVal \in MaybeValue /\ NoVal \notin Value
BY DEF Mini, Reply, ReplyType, Codes, Data, Value, MaybeValue, NoVal, Formats,
       Number, KeyData

-----------------------------------------------------------------------------
(* The cache: a table of chains in good order, each with the keys that    *)
(* hash to it.                                                            *)

Home(h) == {k \in Keys : hash[k] = h}

CacheOK == /\ cache = [h \in Chains |-> cache[h]]
           /\ cap \in [Chains -> 1..CHAINLEN]
           /\ \A h \in Chains : /\ ChainOK(cache[h], Home(h), Value)
                                /\ Len(cache[h]) <= cap[h]

(* It is the cache's share of the inductive invariant, said per chain. *)
LEMMA CacheOKMeans ==
    CacheOK <=> /\ cache \in [Chains -> Seq(Entry)]
                /\ cap \in [Chains -> 1..CHAINLEN]
                /\ ChainsWellFormed
<1>1. ASSUME NEW h \in Chains, NEW ch
      PROVE  ChainOK(ch, Home(h), Value) <=>
                 /\ ch \in Seq(Entry)
                 /\ Len(ch) <= CHAINLEN
                 /\ \A i, j \in DOMAIN ch : ch[i].key = ch[j].key => i = j
                 /\ \A i \in DOMAIN ch : hash[ch[i].key] = h
  <2>1. ASSUME ChainOK(ch, Home(h), Value)
        PROVE  /\ ch \in Seq(Entry)
               /\ \A i \in DOMAIN ch : hash[ch[i].key] = h
    <3>1. ch \in Seq([key : Home(h), val : Value])
        BY <2>1 DEF ChainOK
    <3>2. Len(ch) \in Nat /\ DOMAIN ch = 1..Len(ch)
        BY <3>1
    <3>3. \A i \in 1..Len(ch) : ch[i] \in [key : Home(h), val : Value]
        BY <3>1, SeqElements
    <3>4. \A i \in 1..Len(ch) : ch[i] \in Entry /\ hash[ch[i].key] = h
        BY <3>3 DEF Entry, Home
    <3>5. ch \in Seq(Entry)
        BY <3>1, <3>4, SeqOfElements
    <3>. QED
        BY <3>2, <3>4, <3>5
  <2>2. ASSUME ch \in Seq(Entry), \A i \in DOMAIN ch : hash[ch[i].key] = h
        PROVE  ch \in Seq([key : Home(h), val : Value])
    <3>1. Len(ch) \in Nat /\ DOMAIN ch = 1..Len(ch)
        BY <2>2
    <3>2. \A i \in 1..Len(ch) : ch[i] \in Entry
        BY <2>2
    <3>3. \A i \in 1..Len(ch) : ch[i] \in [key : Home(h), val : Value]
        BY <2>2, <3>1, <3>2 DEF Entry, Home
    <3>. QED
        BY <2>2, <3>3, SeqOfElements
  <2>3. ch \in Seq(Entry) => DOMAIN ch = 1..Len(ch)
      OBVIOUS
  <2>. QED
      BY <2>1, <2>2, <2>3 DEF ChainOK
<1>2. \A h \in Chains, n \in Nat :
         cap \in [Chains -> 1..CHAINLEN] /\ n <= cap[h] => n <= CHAINLEN
    BY ChainLenAssumption
<1>3. \A ch : ch \in Seq(Entry) => Len(ch) \in Nat
    OBVIOUS
<1>. QED
    BY <1>1, <1>2, <1>3 DEF CacheOK, ChainsWellFormed

(* Replacing one chain by one in good order. *)
LEMMA OneChainReplaced ==
    ASSUME CacheOK, NEW h \in Chains, NEW n, ChainOK(n, Home(h), Value),
           Len(n) <= cap[h], UNCHANGED cap,
           cache' = [cache EXCEPT ![h] = n]
    PROVE  CacheOK'
BY DEF CacheOK, Home

LEMMA CacheSetOK ==
    ASSUME CacheOK, NEW k \in Keys, NEW v \in Value, cache_set(k, v)
    PROVE  CacheOK'
<1>1. hash[k] \in Chains /\ k \in Home(hash[k])
    BY HashAssumption DEF Home
<1> DEFINE ch == cache[hash[k]]
           n == cap[hash[k]]
<1>2. /\ ChainOK(ch, Home(hash[k]), Value)
      /\ n \in 1..CHAINLEN /\ Len(ch) <= n
    BY <1>1 DEF CacheOK
<1>3. cache' = [cache EXCEPT ![hash[k]] = chain_set(ch, n, k, v)] /\ UNCHANGED cap
    BY DEF cache_set
<1> HIDE DEF ch, n
<1>4. /\ ChainOK(chain_set(ch, n, k, v), Home(hash[k]), Value)
      /\ Len(chain_set(ch, n, k, v)) <= n
    BY <1>1, <1>2, ChainSetElements
<1>5. PICK t : /\ ChainOK(t, Home(hash[k]), Value) /\ Len(t) <= n
               /\ cache' = [cache EXCEPT ![hash[k]] = t]
    BY <1>3, <1>4
<1>. QED
    BY <1>1, <1>3, <1>5, OneChainReplaced DEF n

(* Even a failing cache_set leaves chains in good order behind: the slot  *)
(* it loses is taken from a chain that has more than one.                  *)
LEMMA CacheSetFailsOK ==
    ASSUME CacheOK, NEW k \in Keys, cache_set_fails(k)
    PROVE  CacheOK'
<1>1. CASE UNCHANGED <<cache, cap>>
    BY <1>1 DEF CacheOK, Home
<1>2. CASE ~UNCHANGED <<cache, cap>>
  <2> DEFINE h == hash[k]
             ch == cache[h]
             n == cap[h]
  <2>1. h \in Chains
      BY HashAssumption
  <2>2. /\ ChainOK(ch, Home(h), Value)
        /\ n \in 1..CHAINLEN /\ Len(ch) <= n
      BY <2>1 DEF CacheOK
  <2>3. /\ Len(ch) = n /\ ~chain_unusable(ch, n)
        /\ cache' = [cache EXCEPT ![h] = Front(ch)]
        /\ cap' = [cap EXCEPT ![h] = n - 1]
      BY <1>2 DEF cache_set_fails
  <2> HIDE DEF ch
  <2>4. n - 1 \in 1..CHAINLEN /\ Len(ch) # 0
      BY <2>2, <2>3, ChainLenAssumption DEF chain_unusable
  <2> HIDE DEF h, n
  <2>5. ChainOK(Front(ch), Home(h), Value) /\ Len(Front(ch)) = n - 1
      BY <2>2, <2>3, <2>4, ChainFrontElements
  <2>6. PICK f, m : /\ ChainOK(f, Home(h), Value) /\ Len(f) = m
                    /\ m \in 1..CHAINLEN
                    /\ cache' = [cache EXCEPT ![h] = f]
                    /\ cap' = [cap EXCEPT ![h] = m]
      BY <2>3, <2>4, <2>5
  <2>7. Len(f) <= m
      BY <2>6, ChainLenAssumption
  <2>. QED
      BY <2>1, <2>6, <2>7 DEF CacheOK, Home
<1>. QED
    BY <1>1, <1>2

LEMMA CacheDelOK ==
    ASSUME CacheOK, NEW k \in Keys, cache_del(k), UNCHANGED cap
    PROVE  CacheOK'
<1>1. hash[k] \in Chains /\ k \in Home(hash[k])
    BY HashAssumption DEF Home
<1>2. PICK ch, n : /\ ch = cache[hash[k]] /\ n = cap[hash[k]]
                   /\ ChainOK(ch, Home(hash[k]), Value)
                   /\ n \in 1..CHAINLEN /\ Len(ch) <= n
    BY <1>1 DEF CacheOK
<1>3. PICK t : /\ t = chain_del(ch, k) /\ ChainOK(t, Home(hash[k]), Value)
               /\ Len(t) <= Len(ch)
    BY <1>1, <1>2, ChainDelElements
<1>4. Len(t) \in Nat /\ Len(ch) \in Nat
    BY <1>2, <1>3 DEF ChainOK
<1>5. Len(t) <= n
    BY <1>2, <1>3, <1>4, ChainLenAssumption
<1>6. cache' = [cache EXCEPT ![hash[k]] = t]
    BY <1>2, <1>3 DEF cache_del
<1>. QED
    BY <1>1, <1>2, <1>3, <1>5, <1>6, OneChainReplaced

LEMMA CacheUpdateOK ==
    ASSUME CacheOK, NEW k \in Keys, NEW v \in Value, in_cache(k),
           cache_update(k, v), UNCHANGED cap
    PROVE  CacheOK'
<1>1. hash[k] \in Chains /\ k \in Home(hash[k])
    BY HashAssumption DEF Home
<1>2. PICK ch : /\ ch = cache[hash[k]]
                /\ ChainOK(ch, Home(hash[k]), Value) /\ in_chain(ch, k)
                /\ Len(ch) <= cap[hash[k]]
    BY <1>1 DEF CacheOK, in_cache
<1> DEFINE t == chain_update(ch, k, v)
<1>3. /\ ChainOK(t, Home(hash[k]), Value) /\ Len(t) = Len(ch)
      /\ \A i \in 1..Len(t) :
            t[i] = IF ch[i].key = k THEN [key |-> k, val |-> v] ELSE ch[i]
    BY <1>1, <1>2, ChainUpdateElements
<1>4. cache' = [cache EXCEPT ![hash[k]] = t]
    BY <1>2 DEF cache_update
<1> HIDE DEF t
<1>. QED
    BY <1>1, <1>2, <1>3, <1>4, OneChainReplaced

LEMMA CacheGetType ==
    ASSUME CacheOK, NEW k \in Keys
    PROVE  /\ in_cache(k) => cache_get(k) \in Value
           /\ ~in_cache(k) => cache_get(k) = NoVal
<1> DEFINE ch == cache[hash[k]]
<1>1. ch \in Seq([key : Home(hash[k]), val : Value])
    BY HashAssumption DEF CacheOK, ChainOK
<1> HIDE DEF ch
<1>2. ASSUME in_chain(ch, k)
      PROVE  ch[find_in_chain(ch, k)].val \in Value
  <2>1. \A p \in 1..Len(ch) : ch[p] \in [key : Home(hash[k]), val : Value]
      BY <1>1, SeqElements
  <2>2. find_in_chain(ch, k) \in 1..Len(ch)
      BY <1>1, <1>2, FindInChain
  <2>. QED
      BY <2>1, <2>2
<1>. QED
    BY <1>2 DEF cache_get, in_cache, ch

-----------------------------------------------------------------------------
(* Replies and queue entries. *)

MailOK == queue \in Seq(QueueEntry) /\ inbox \in [Clients -> Seq(ReplyType)]

LEMMA ReplyOK ==
    ASSUME inbox \in [Clients -> Seq(ReplyType)], NEW c \in Clients,
           NEW rep \in ReplyType, reply(c, rep)
    PROVE  inbox' \in [Clients -> Seq(ReplyType)]
BY DEF reply

LEMMA AnswerOK ==
    ASSUME MailOK, NEW c \in Clients, NEW rep \in ReplyType, answer_now(c, rep)
    PROVE  MailOK'
BY ReplyOK DEF MailOK, answer_now

LEMMA PutOK ==
    ASSUME MailOK, NEW c \in Clients, NEW r \in Requests,
           NEW answer, put_in_queue(c, r, answer)
    PROVE  MailOK'
<1>1. Mini("OK") \in ReplyType /\ Mini("ERR_MEM") \in ReplyType
    BY ReplyTypes DEF Codes
<1>2. CASE UNCHANGED queue
    BY <1>1, <1>2, ReplyOK DEF put_in_queue, MailOK
<1>3. CASE queue' = queue_put(c, r)
  <2>1. queue' \in Seq(QueueEntry)
      BY <1>3 DEF queue_put, MailOK, QueueEntry
  <2>. QED
      BY <1>1, <2>1, ReplyOK DEF put_in_queue, MailOK
<1>. QED
    BY <1>2, <1>3 DEF put_in_queue

-----------------------------------------------------------------------------
(* The handlers, one lemma each: cache, queue and replies stay in order. *)

LEMMA RequestFields ==
    ASSUME NEW r \in Requests
    PROVE  /\ r.op \in Ops /\ r.key \in Keys /\ r.inc \in Int
           /\ r.op = "SET" => r.val \in Value
           /\ r.op = "CAS" => r.new \in Value
BY RequestsAssumption DEF RequestType, WellFormed

LEMMA ReadOnlyOK ==
    ASSUME CacheOK, MailOK, NEW c \in Clients, refuse_read_only(c),
           UNCHANGED cap
    PROVE  CacheOK' /\ MailOK'
<1>1. Mini("ERR_RO") \in ReplyType
    BY ReplyTypes DEF Codes
<1>. QED
    BY <1>1, AnswerOK DEF refuse_read_only, CacheOK, Home

LEMMA ParseGetOK ==
    ASSUME CacheOK, MailOK, NEW c \in Clients, NEW r \in Requests,
           parse_get(c, r), UNCHANGED cap
    PROVE  CacheOK' /\ MailOK'
<1>1. CacheOK'
    BY DEF parse_get, CacheOK, Home
<1>2. CASE /\ in_cache(r.key)
           /\ answer_now(c, Reply("CACHE_HIT", cache_get(r.key)))
  <2>1. cache_get(r.key) \in Data
      BY <1>2, RequestFields, CacheGetType, ReplyTypes
  <2>2. Reply("CACHE_HIT", cache_get(r.key)) \in ReplyType
      BY <2>1, ReplyTypes DEF Codes
  <2>. QED
      BY <1>1, <1>2, <2>2, AnswerOK
<1>3. CASE answer_now(c, Mini("CACHE_MISS"))
  <2>1. Mini("CACHE_MISS") \in ReplyType
      BY ReplyTypes DEF Codes
  <2>. QED
      BY <1>1, <1>3, <2>1, AnswerOK
<1>4. CASE put_in_queue(c, r, FALSE)
    BY <1>1, <1>4, PutOK
<1>. QED
    BY <1>2, <1>3, <1>4 DEF parse_get

LEMMA ParseSetOK ==
    ASSUME CacheOK, MailOK, NEW c \in Clients, NEW r \in Requests,
           r.op = "SET", parse_set(c, r)
    PROVE  CacheOK' /\ MailOK'
<1>1. r.key \in Keys /\ r.val \in Value
    BY RequestFields
<1>2. Mini("OK") \in ReplyType /\ Mini("ERR_MEM") \in ReplyType
    BY ReplyTypes DEF Codes
<1>3. CASE refuse_read_only(c) /\ UNCHANGED cap
    BY <1>3, ReadOnlyOK
<1>4. CASE /\ cache_set(r.key, r.val)
           /\ answer_now(c, Mini("OK")) \/ put_in_queue(c, r, ~sync(r))
  <2>1. CacheOK'
      BY <1>1, <1>4, CacheSetOK
  <2>2. MailOK'
      BY <1>2, <1>4, AnswerOK, PutOK
  <2>. QED
      BY <2>1, <2>2
<1>5. CASE answer_now(c, Mini("ERR_MEM")) /\ cache_set_fails(r.key)
  <2>1. CacheOK'
      BY <1>1, <1>5, CacheSetFailsOK
  <2>2. MailOK'
      BY <1>2, <1>5, AnswerOK
  <2>. QED
      BY <2>1, <2>2
<1>. QED
    BY <1>3, <1>4, <1>5 DEF parse_set

LEMMA ParseDelOK ==
    ASSUME CacheOK, MailOK, NEW c \in Clients, NEW r \in Requests,
           parse_del(c, r), UNCHANGED cap
    PROVE  CacheOK' /\ MailOK'
<1>1. r.key \in Keys
    BY RequestFields
<1>2. Mini(IF in_cache(r.key) THEN "OK" ELSE "NOTIN") \in ReplyType
    BY ReplyTypes DEF Codes
<1>3. CASE refuse_read_only(c)
    BY <1>3, ReadOnlyOK
<1>4. CASE /\ cache_del(r.key)
           /\ \/ answer_now(c, Mini(IF in_cache(r.key) THEN "OK" ELSE "NOTIN"))
              \/ put_in_queue(c, r, ~sync(r))
  <2>1. CacheOK'
      BY <1>1, <1>4, CacheDelOK
  <2>2. MailOK'
      BY <1>2, <1>4, AnswerOK, PutOK
  <2>. QED
      BY <2>1, <2>2
<1>. QED
    BY <1>3, <1>4 DEF parse_del

LEMMA ParseCasOK ==
    ASSUME CacheOK, MailOK, NEW c \in Clients, NEW r \in Requests,
           r.op = "CAS", parse_cas(c, r), UNCHANGED cap
    PROVE  CacheOK' /\ MailOK'
<1>1. r.key \in Keys /\ r.new \in Value
    BY RequestFields
<1>2. \A code \in {"OK", "NOMATCH", "NOTIN", "ERR_MEM"} : Mini(code) \in ReplyType
    BY ReplyTypes DEF Codes
<1>3. CASE refuse_read_only(c)
    BY <1>3, ReadOnlyOK
<1>4. CASE /\ in_cache(r.key) /\ cache_update(r.key, r.new)
           /\ answer_now(c, Mini("OK")) \/ put_in_queue(c, r, FALSE)
  <2>1. CacheOK'
      BY <1>1, <1>4, CacheUpdateOK
  <2>2. MailOK'
      BY <1>2, <1>4, AnswerOK, PutOK
  <2>. QED
      BY <2>1, <2>2
<1>5. CASE /\ UNCHANGED cache
           /\ \/ \E code \in {"NOMATCH", "NOTIN", "ERR_MEM"} :
                    answer_now(c, Mini(code))
              \/ put_in_queue(c, r, FALSE)
  <2>1. CacheOK'
      BY <1>5 DEF CacheOK, Home
  <2>2. MailOK'
      BY <1>2, <1>5, AnswerOK, PutOK
  <2>. QED
      BY <2>1, <2>2
<1>. QED
    BY <1>3, <1>4, <1>5 DEF parse_cas

LEMMA ParseIncrOK ==
    ASSUME CacheOK, MailOK, NEW c \in Clients, NEW r \in Requests,
           parse_incr(c, r), UNCHANGED cap
    PROVE  CacheOK' /\ MailOK'
<1> DEFINE new == incremented(cache_get(r.key), r.inc)
<1>1. r.key \in Keys /\ r.inc \in Int
    BY RequestFields
<1>2. in_cache(r.key) => new \in Value
    BY <1>1, CacheGetType, IncrementedType
<1>3. in_cache(r.key) => Reply("OK", Number(new.num)) \in ReplyType
  <2> HIDE DEF new
  <2>1. new \in Value => new.num \in Int
      BY DEF Value
  <2>. QED
      BY <1>2, <2>1, ReplyTypes DEF Codes
<1>4. \A code \in {"OK", "NOMATCH", "NOTIN", "ERR_MEM"} : Mini(code) \in ReplyType
    BY ReplyTypes DEF Codes
<1>5. CASE refuse_read_only(c)
    BY <1>5, ReadOnlyOK
<1>6. CASE /\ in_cache(r.key) /\ cache_update(r.key, new)
           /\ \/ answer_now(c, Reply("OK", Number(new.num)))
              \/ put_in_queue(c, r, FALSE)
  <2> HIDE DEF new
  <2>1. CacheOK'
      BY <1>1, <1>2, <1>6, CacheUpdateOK
  <2>2. MailOK'
      BY <1>3, <1>6, AnswerOK, PutOK
  <2>. QED
      BY <2>1, <2>2
<1>7. CASE /\ UNCHANGED cache
           /\ \/ \E code \in {"NOMATCH", "NOTIN", "ERR_MEM"} :
                    answer_now(c, Mini(code))
              \/ put_in_queue(c, r, FALSE)
  <2>1. CacheOK'
      BY <1>7 DEF CacheOK, Home
  <2>2. MailOK'
      BY <1>4, <1>7, AnswerOK, PutOK
  <2>. QED
      BY <2>1, <2>2
<1>. QED
    BY <1>5, <1>6, <1>7 DEF parse_incr

-----------------------------------------------------------------------------
(* The DB thread: the backend and the replies stay in order. *)

DbOK == db \in [Keys -> MaybeValue]
InboxOK == inbox \in [Clients -> Seq(ReplyType)]

LEMMA DbSetOK ==
    ASSUME DbOK, NEW k \in Keys, NEW v \in Value, NEW rv, db_set(k, v, rv)
    PROVE  DbOK'
BY ReplyTypes DEF DbOK, db_set

LEMMA NoBufferOK ==
    ASSUME DbOK, InboxOK, NEW c \in Clients, no_buffer(c)
    PROVE  DbOK' /\ InboxOK'
<1>1. Mini("ERR_MEM") \in ReplyType
    BY ReplyTypes DEF Codes
<1>. QED
    BY <1>1, ReplyOK DEF no_buffer, DbOK, InboxOK

LEMMA WriteBackOK ==
    ASSUME DbOK, InboxOK, NEW c \in Clients, NEW k \in Keys, NEW v \in Value,
           NEW rep \in ReplyType, write_back(c, k, v, rep)
    PROVE  DbOK' /\ InboxOK'
<1>1. Mini("ERR_DB") \in ReplyType
    BY ReplyTypes DEF Codes
<1>2. PICK rv \in {0, 1} :
         /\ db_set(k, v, rv)
         /\ reply(c, IF rv = 1 THEN rep ELSE Mini("ERR_DB"))
    BY DEF write_back
<1>. QED
    BY <1>1, <1>2, DbSetOK, ReplyOK DEF InboxOK

LEMMA ProcessSetOK ==
    ASSUME DbOK, InboxOK, NEW c \in Clients, NEW r \in Requests,
           r.op = "SET", process_set(c, r)
    PROVE  DbOK' /\ InboxOK'
<1>1. r.key \in Keys /\ r.val \in Value
    BY RequestFields
<1>2. PICK rv \in {0, 1} :
         /\ db_set(r.key, r.val, rv)
         /\ IF sync(r) THEN reply(c, Mini(IF rv = 1 THEN "OK" ELSE "ERR_DB"))
                       ELSE UNCHANGED inbox
    BY DEF process_set
<1>3. Mini(IF rv = 1 THEN "OK" ELSE "ERR_DB") \in ReplyType
    BY ReplyTypes DEF Codes
<1>4. DbOK'
    BY <1>1, <1>2, DbSetOK
<1>5. InboxOK'
    BY <1>2, <1>3, ReplyOK DEF InboxOK
<1>. QED
    BY <1>4, <1>5

LEMMA ProcessDelOK ==
    ASSUME DbOK, InboxOK, NEW c \in Clients, NEW r \in Requests,
           process_del(c, r)
    PROVE  DbOK' /\ InboxOK'
<1>1. r.key \in Keys /\ NoVal \in MaybeValue
    BY RequestFields, ReplyTypes
<1>2. PICK rv \in {0, 1} :
         /\ db_del(r.key, rv)
         /\ IF sync(r) THEN reply(c, Mini(IF rv = 1 THEN "OK" ELSE "NOTIN"))
                       ELSE UNCHANGED inbox
    BY DEF process_del
<1>3. Mini(IF rv = 1 THEN "OK" ELSE "NOTIN") \in ReplyType
    BY ReplyTypes DEF Codes
<1>4. DbOK'
    BY <1>1, <1>2 DEF db_del, DbOK
<1>5. InboxOK'
    BY <1>2, <1>3, ReplyOK DEF InboxOK
<1>. QED
    BY <1>4, <1>5

LEMMA ProcessGetOK ==
    ASSUME DbOK, InboxOK, NEW c \in Clients, NEW r \in Requests,
           process_get(c, r)
    PROVE  DbOK' /\ InboxOK'
<1>1. CASE no_buffer(c)
    BY <1>1, NoBufferOK
<1>2. ASSUME NEW got \in {db[r.key], NoVal}, UNCHANGED db,
             reply(c, IF got = NoVal THEN Mini("NOTIN") ELSE Reply("OK", got))
      PROVE  DbOK' /\ InboxOK'
  <2>1. got \in Data
      BY RequestFields, ReplyTypes DEF DbOK
  <2>2. Mini("NOTIN") \in ReplyType /\ Reply("OK", got) \in ReplyType
      BY <2>1, ReplyTypes DEF Codes
  <2>. QED
      BY <1>2, <2>2, ReplyOK DEF DbOK, InboxOK
<1>. QED
    BY <1>1, <1>2 DEF process_get

LEMMA ProcessCasOK ==
    ASSUME DbOK, InboxOK, NEW c \in Clients, NEW r \in Requests,
           r.op = "CAS", process_cas(c, r)
    PROVE  DbOK' /\ InboxOK'
<1>1. r.key \in Keys /\ r.new \in Value
    BY RequestFields
<1>2. \A code \in {"OK", "NOTIN", "NOMATCH"} : Mini(code) \in ReplyType
    BY ReplyTypes DEF Codes
<1>3. CASE no_buffer(c)
    BY <1>3, NoBufferOK
<1>4. CASE write_back(c, r.key, r.new, Mini("OK"))
    BY <1>1, <1>2, <1>4, WriteBackOK
<1>5. CASE UNCHANGED db /\ \E code \in {"NOTIN", "NOMATCH"} : reply(c, Mini(code))
    BY <1>2, <1>5, ReplyOK DEF DbOK, InboxOK
<1>. QED
    BY <1>3, <1>4, <1>5 DEF process_cas

LEMMA ProcessIncrOK ==
    ASSUME DbOK, InboxOK, NEW c \in Clients, NEW r \in Requests,
           process_incr(c, r)
    PROVE  DbOK' /\ InboxOK'
<1>1. r.key \in Keys /\ r.inc \in Int
    BY RequestFields
<1>2. \A code \in {"OK", "NOTIN", "NOMATCH"} : Mini(code) \in ReplyType
    BY ReplyTypes DEF Codes
<1>3. CASE no_buffer(c)
    BY <1>3, NoBufferOK
<1>4. ASSUME NEW got \in {db[r.key], NoVal}, got # NoVal, NEW new,
             new = incremented(got, r.inc),
             write_back(c, r.key, new, Reply("OK", Number(new.num)))
      PROVE  DbOK' /\ InboxOK'
  <2>1. got \in Value
      BY <1>1, <1>4 DEF DbOK, MaybeValue
  <2>2. new \in Value
      BY <1>1, <1>4, <2>1, IncrementedType
  <2>3. new.num \in Int
      BY <2>2 DEF Value
  <2>4. Reply("OK", Number(new.num)) \in ReplyType
      BY <2>3, ReplyTypes DEF Codes
  <2>. QED
      BY <1>1, <1>4, <2>2, <2>4, WriteBackOK
<1>5. CASE UNCHANGED db /\ \E code \in {"NOTIN", "NOMATCH"} : reply(c, Mini(code))
    BY <1>2, <1>5, ReplyOK DEF DbOK, InboxOK
<1>. QED
    BY <1>3, <1>4, <1>5 DEF process_incr

LEMMA ProcessWalkOK ==
    ASSUME DbOK, InboxOK, NEW c \in Clients, NEW found \in SUBSET Keys,
           process_walk(c, found)
    PROVE  DbOK' /\ InboxOK'
<1>1. DbOK'
    BY DEF process_walk, DbOK
<1>2. \A code \in {"ERR_DB", "NOTIN", "ERR_MEM"} : Mini(code) \in ReplyType
    BY ReplyTypes DEF Codes
<1>3. \A k \in found : Reply("OK", KeyData(k)) \in ReplyType
    BY KeysAssumption, ReplyTypes DEF Codes
<1>4. \/ \E code \in {"ERR_DB", "NOTIN", "ERR_MEM"} : reply(c, Mini(code))
      \/ \E k \in found : reply(c, Reply("OK", KeyData(k)))
    BY DEF process_walk, no_buffer
<1>. QED
    BY <1>1, <1>2, <1>3, <1>4, ReplyOK DEF InboxOK

-----------------------------------------------------------------------------
(* Types alone are not inductive: that chain_set and chain_update return   *)
(* chains needs the key to be where find_in_chain looks, and that a chain  *)
(* stays within its slots needs both.                                      *)

TypeInv == TypeOK /\ ChainsWellFormed

LEMMA EmptyCacheOK ==
    ASSUME cache = empty_cache, cap = all_slots
    PROVE  /\ cache \in [Chains -> Seq(Entry)]
           /\ cap \in [Chains -> 1..CHAINLEN]
           /\ ChainsWellFormed
<1>1. CHAINLEN \in 1..CHAINLEN
    BY ChainLenAssumption
<1>2. ASSUME NEW h \in Chains
      PROVE  cache[h] = <<>> /\ cap[h] = CHAINLEN
    BY DEF empty_cache, all_slots
<1>3. ChainsWellFormed
    BY <1>2, ChainLenAssumption DEF ChainsWellFormed
<1>. QED
    BY <1>1, <1>3 DEF empty_cache, all_slots

LEMMA InitTypeInv == Init => TypeInv
<1> SUFFICES ASSUME Init PROVE TypeInv
    OBVIOUS
<1>1. NoRet \in ResultType
    BY DEF NoRet, ResultType, NoVal, Data
<1>2. cache = empty_cache /\ cap = all_slots
    BY DEF Init
<1>3. TypeOK
    BY <1>1, <1>2, EmptyCacheOK, InitDbsAssumption DEF Init, TypeOK
<1>. QED
    BY <1>2, <1>3, EmptyCacheOK DEF TypeInv

LEMMA ParseTypeInv ==
    ASSUME TypeInv, NEW c \in Clients, NEW r \in Requests, parse_message(c, r)
    PROVE  TypeInv'
<1>1. CacheOK /\ MailOK
    BY CacheOKMeans DEF TypeInv, TypeOK, MailOK
<1>2. CacheOK' /\ MailOK'
  <2>1. CASE r.op = "GET" /\ parse_get(c, r) /\ UNCHANGED cap
      BY <1>1, <2>1, ParseGetOK
  <2>2. CASE r.op = "SET" /\ parse_set(c, r)
      BY <1>1, <2>2, ParseSetOK
  <2>3. CASE r.op = "DEL" /\ parse_del(c, r) /\ UNCHANGED cap
      BY <1>1, <2>3, ParseDelOK
  <2>4. CASE r.op = "CAS" /\ parse_cas(c, r) /\ UNCHANGED cap
      BY <1>1, <2>4, ParseCasOK
  <2>5. CASE r.op = "INCR" /\ parse_incr(c, r) /\ UNCHANGED cap
      BY <1>1, <2>5, ParseIncrOK
  <2>6. CASE parse_walk(c, r) /\ UNCHANGED cap
    <3>1. CacheOK'
        BY <1>1, <2>6 DEF parse_walk, CacheOK, Home
    <3>2. MailOK'
        BY <1>1, <2>6, PutOK DEF parse_walk
    <3>. QED
        BY <3>1, <3>2
  <2>7. CASE answer_now(c, Mini(reject(r))) /\ UNCHANGED <<cache, cap>>
    <3>1. Mini(reject(r)) \in ReplyType
        BY ReplyTypes DEF Codes, reject
    <3>2. CacheOK'
        BY <1>1, <2>7 DEF CacheOK, Home
    <3>3. MailOK'
        BY <1>1, <2>7, <3>1, AnswerOK
    <3>. QED
        BY <3>2, <3>3
  <2>. QED
      BY <2>1, <2>2, <2>3, <2>4, <2>5, <2>6, <2>7 DEF parse_message
<1>3. /\ cache' \in [Chains -> Seq(Entry)]
      /\ cap' \in [Chains -> 1..CHAINLEN] /\ ChainsWellFormed'
  <2>1. (CacheOK <=> /\ cache \in [Chains -> Seq(Entry)]
                     /\ cap \in [Chains -> 1..CHAINLEN]
                     /\ ChainsWellFormed)'
      BY CacheOKMeans, PTL
  <2>. QED
      BY <1>2, <2>1
<1>4. wait' \in [Clients -> Requests \cup {NoReq}]
    BY DEF TypeInv, TypeOK, parse_message
<1>5. ret' \in [Clients -> ResultType]
  <2>1. NoRet \in ResultType
      BY DEF NoRet, ResultType, NoVal, Data
  <2>. QED
      BY <2>1 DEF TypeInv, TypeOK, parse_message
<1>. QED
    BY <1>2, <1>3, <1>4, <1>5 DEF TypeInv, TypeOK, MailOK, parse_message

LEMMA ProcessTypeInv ==
    ASSUME TypeInv, process_op
    PROVE  TypeInv'
<1> DEFINE c == Head(queue).cli
           r == Head(queue).req
<1>1. queue # <<>> /\ queue \in Seq(QueueEntry)
    BY DEF process_op, TypeInv, TypeOK
<1>2. c \in Clients /\ r \in Requests /\ queue' \in Seq(QueueEntry)
  <2>1. Head(queue) \in QueueEntry /\ Tail(queue) \in Seq(QueueEntry)
      BY <1>1
  <2>2. queue' = Tail(queue)
      BY DEF process_op
  <2>. QED
      BY <2>1, <2>2 DEF QueueEntry
<1>3. DbOK /\ InboxOK
    BY DEF TypeInv, TypeOK, DbOK, InboxOK
<1>4. db_firstkey \in SUBSET Keys /\ db_nextkey(r.key) \in SUBSET Keys
    BY DEF db_firstkey, db_nextkey, first_of, stored
<1>5. \/ r.op = "SET" /\ process_set(c, r)
      \/ r.op = "DEL" /\ process_del(c, r)
      \/ r.op = "GET" /\ process_get(c, r)
      \/ r.op = "CAS" /\ process_cas(c, r)
      \/ r.op = "INCR" /\ process_incr(c, r)
      \/ \E found \in SUBSET Keys : process_walk(c, found)
    BY <1>4 DEF process_op
<1> HIDE DEF c, r
<1>6. DbOK' /\ InboxOK'
    BY <1>2, <1>3, <1>5, ProcessSetOK, ProcessDelOK, ProcessGetOK,
       ProcessCasOK, ProcessIncrOK, ProcessWalkOK
<1>. QED
    BY <1>2, <1>6 DEF TypeInv, TypeOK, DbOK, InboxOK, ChainsWellFormed, process_op

LEMMA GetRepTypeInv ==
    ASSUME TypeInv, NEW c \in Clients, get_rep(c)
    PROVE  TypeInv'
<1>1. inbox[c] \in Seq(ReplyType) /\ inbox[c] # <<>>
    BY DEF TypeInv, TypeOK, get_rep
<1>2. Head(inbox[c]) \in ReplyType /\ Tail(inbox[c]) \in Seq(ReplyType)
    BY <1>1
<1>3. LibResult(wait[c].op, Head(inbox[c])) \in ResultType
    BY <1>2, LibResultType
<1>. QED
    BY <1>2, <1>3 DEF TypeInv, TypeOK, ChainsWellFormed, get_rep

LEMMA DiesTypeInv ==
    ASSUME TypeInv, Dies
    PROVE  TypeInv'
<1>1. server_dies /\ UNCHANGED <<inbox, read_only>>
    BY DEF Dies, parse_message_dies, process_op_dies
<1>2. cache' = empty_cache /\ cap' = all_slots /\ queue' = <<>> /\ up' = FALSE
    BY <1>1 DEF server_dies
<1>3. /\ cache' \in [Chains -> Seq(Entry)]
      /\ cap' \in [Chains -> 1..CHAINLEN]
      /\ ChainsWellFormed'
  <2>1. (cache = empty_cache /\ cap = all_slots =>
             /\ cache \in [Chains -> Seq(Entry)]
             /\ cap \in [Chains -> 1..CHAINLEN]
             /\ ChainsWellFormed)'
      BY EmptyCacheOK, PTL
  <2>. QED
      BY <1>2, <2>1 DEF empty_cache, all_slots
<1>4. db' \in [Keys -> MaybeValue]
  <2>1. CASE UNCHANGED db
      BY <2>1 DEF TypeInv, TypeOK
  <2>2. CASE \E k \in Keys, v \in Value : db_set(k, v, 1)
      BY <2>2, ReplyTypes DEF db_set, TypeInv, TypeOK
  <2>3. ASSUME process_op_dies, ~UNCHANGED db
        PROVE  \E k \in Keys, v \in Value : db_set(k, v, 1)
    <3> DEFINE r == Head(queue).req
    <3>1. /\ r.op = "INCR" /\ db[r.key] # NoVal
          /\ db_set(r.key, incremented(db[r.key], r.inc), 1)
        BY <2>3 DEF process_op_dies
    <3>2. Head(queue) \in QueueEntry
        BY <2>3 DEF process_op_dies, TypeInv, TypeOK
    <3>3. r.key \in Keys /\ r.inc \in Int
        BY <3>2, RequestFields DEF QueueEntry
    <3>4. db[r.key] \in Value
        BY <3>1, <3>3 DEF TypeInv, TypeOK, MaybeValue
    <3>5. incremented(db[r.key], r.inc) \in Value
        BY <3>3, <3>4, IncrementedType
    <3>. QED
        BY <3>1, <3>3, <3>5
  <2>. QED
      BY <2>1, <2>2, <2>3 DEF Dies, parse_message_dies
<1>5. wait' \in [Clients -> Requests \cup {NoReq}] /\ ret' \in [Clients -> ResultType]
  <2>1. NoRet \in ResultType
      BY DEF NoRet, ResultType, NoVal, Data
  <2>. QED
      BY <2>1 DEF Dies, parse_message_dies, process_op_dies, TypeInv, TypeOK
<1>6. queue' \in Seq(QueueEntry) /\ up' \in BOOLEAN
  <2>1. \A S : <<>> \in Seq(S)
      OBVIOUS
  <2>. QED
      BY <1>2, <2>1, Zenon
<1>7. inbox' \in [Clients -> Seq(ReplyType)] /\ read_only' \in BOOLEAN
    BY <1>1 DEF TypeInv, TypeOK
<1>. QED
    BY <1>3, <1>4, <1>5, <1>6, <1>7 DEF TypeInv, TypeOK

LEMMA NextTypeInv == TypeInv /\ [Next]_vars => TypeInv'
<1> SUFFICES ASSUME TypeInv, [Next]_vars PROVE TypeInv'
    OBVIOUS
<1>1. CASE \E c \in Clients, r \in Requests : parse_message(c, r)
    BY <1>1, ParseTypeInv
<1>2. CASE process_op
    BY <1>2, ProcessTypeInv
<1>3. CASE \E c \in Clients : get_rep(c)
    BY <1>3, GetRepTypeInv
<1>4. CASE SIGUSR1
    BY <1>4 DEF SIGUSR1, TypeInv, TypeOK, ChainsWellFormed
<1>5. CASE UNCHANGED vars
    BY <1>5 DEF vars, TypeInv, TypeOK, ChainsWellFormed
<1>6. CASE Dies
    BY <1>6, DiesTypeInv
<1>. QED
    BY <1>1, <1>2, <1>3, <1>4, <1>5, <1>6 DEF Next, Down

(* Type correctness of the server: every value in the cache, the queue,    *)
(* the database and the replies is of the kind the code expects there, in  *)
(* particular what INCR writes is a value INCR can read again.             *)
THEOREM TypeCorrect == Spec => []TypeOK
<1>1. TypeInv => TypeOK
    BY DEF TypeInv
<1>. QED
    BY <1>1, InitTypeInv, NextTypeInv, PTL DEF Spec

(* No sequence of operations, failures included, makes a cache chain       *)
(* outgrow its slots, hold a key twice or hold a key of another bucket.    *)
THEOREM ChainsStayWellFormed == Spec => []ChainsWellFormed
<1>1. TypeInv => ChainsWellFormed
    BY DEF TypeInv
<1>. QED
    BY <1>1, InitTypeInv, NextTypeInv, PTL DEF Spec

-----------------------------------------------------------------------------
(* One answer per request.  A handler answers itself or leaves an entry    *)
(* behind that owes the answer, never both and never neither.              *)

answers(c) == \E rep : reply(c, rep)

AnswersOnce(c, r) ==
    \/ answers(c) /\ UNCHANGED queue
    \/ /\ queue' = Append(queue, [cli |-> c, req |-> r])
       /\ IF owes_reply([cli |-> c, req |-> r]) THEN UNCHANGED inbox
                                                ELSE answers(c)

LEMMA PutAnswersOnce ==
    ASSUME NEW c, NEW r, NEW answer \in BOOLEAN, put_in_queue(c, r, answer),
           answer <=> r.op \in {"SET", "DEL"} /\ ~sync(r)
    PROVE  AnswersOnce(c, r)
BY DEF put_in_queue, queue_put, AnswersOnce, answers, owes_reply

LEMMA AnswerNowAnswersOnce ==
    ASSUME NEW c, NEW r, NEW rep, answer_now(c, rep)
    PROVE  AnswersOnce(c, r)
BY DEF answer_now, AnswersOnce, answers

LEMMA ParseAnswersOnce ==
    ASSUME NEW c \in Clients, NEW r \in Requests, parse_message(c, r)
    PROVE  AnswersOnce(c, r)
<1>1. \/ \E rep : answer_now(c, rep)
      \/ /\ r.op \in {"SET", "DEL"}
         /\ put_in_queue(c, r, ~sync(r))
      \/ /\ r.op \notin {"SET", "DEL"}
         /\ put_in_queue(c, r, FALSE)
  <2>1. CASE r.op = "GET" /\ parse_get(c, r)
      BY <2>1 DEF parse_get
  <2>2. CASE r.op = "SET" /\ parse_set(c, r)
      BY <2>2 DEF parse_set, refuse_read_only
  <2>3. CASE r.op = "DEL" /\ parse_del(c, r)
      BY <2>3 DEF parse_del, refuse_read_only
  <2>4. CASE r.op = "CAS" /\ parse_cas(c, r)
      BY <2>4 DEF parse_cas, refuse_read_only
  <2>5. CASE r.op = "INCR" /\ parse_incr(c, r)
      BY <2>5 DEF parse_incr, refuse_read_only
  <2>6. CASE r.op \in {"FIRSTKEY", "NEXTKEY"} /\ parse_walk(c, r)
      BY <2>6 DEF parse_walk
  <2>7. CASE answer_now(c, Mini(reject(r)))
      BY <2>7
  <2>. QED
      BY <2>1, <2>2, <2>3, <2>4, <2>5, <2>6, <2>7 DEF parse_message
<1>2. sync(r) \in BOOLEAN
    BY DEF sync
<1>. QED
    BY <1>1, <1>2, PutAnswersOnce, AnswerNowAnswersOnce

(* The DB thread answers the client of the entry it takes if, and only if, *)
(* the entry owes an answer.                                               *)
LEMMA ProcessAnswersOnce ==
    ASSUME process_op
    PROVE  IF owes_reply(Head(queue)) THEN answers(Head(queue).cli)
                                      ELSE UNCHANGED inbox
<1> DEFINE c == Head(queue).cli
           r == Head(queue).req
<1>1. CASE r.op = "SET" /\ process_set(c, r)
    BY <1>1 DEF process_set, owes_reply, answers
<1>2. CASE r.op = "DEL" /\ process_del(c, r)
    BY <1>2 DEF process_del, owes_reply, answers
<1>3. CASE r.op = "GET" /\ process_get(c, r)
    BY <1>3 DEF process_get, no_buffer, owes_reply, answers
<1>4. CASE r.op = "CAS" /\ process_cas(c, r)
    BY <1>4 DEF process_cas, write_back, no_buffer, owes_reply, answers
<1>5. CASE r.op = "INCR" /\ process_incr(c, r)
    BY <1>5 DEF process_incr, write_back, no_buffer, owes_reply, answers
<1>6. CASE r.op \in {"FIRSTKEY", "NEXTKEY"}
           /\ \E found : process_walk(c, found)
    BY <1>6 DEF process_walk, no_buffer, owes_reply, answers
<1>. QED
    BY <1>1, <1>2, <1>3, <1>4, <1>5, <1>6 DEF process_op

(* How the entries that owe an answer move when the queue does. *)
LEMMA OwedAfterPut ==
    ASSUME queue \in Seq(QueueEntry), NEW e \in QueueEntry, NEW d,
           queue' = Append(queue, e)
    PROVE  /\ owed(d)' = owed(d) \cup
                            (IF e.cli = d /\ owes_reply(e)
                             THEN {Len(queue) + 1} ELSE {})
           /\ queue'[Len(queue) + 1] = e
           /\ \A i \in owed(d) : queue'[i] = queue[i]
<1>1. DOMAIN queue = 1..Len(queue) /\ DOMAIN queue' = 1..(Len(queue) + 1)
    OBVIOUS
<1>2. queue'[Len(queue) + 1] = e /\ \A i \in 1..Len(queue) : queue'[i] = queue[i]
    OBVIOUS
<1>3. Len(queue) \in Nat
    OBVIOUS
<1>4. \A i : i \in 1..(Len(queue) + 1) <=>
                i \in 1..Len(queue) \/ i = Len(queue) + 1
    BY <1>3
<1>. QED
    BY <1>1, <1>2, <1>4 DEF owed

LEMMA OwedAfterTake ==
    ASSUME queue \in Seq(QueueEntry), queue # <<>>, NEW d, queue' = Tail(queue)
    PROVE  /\ \A i \in owed(d) : i # 1 => /\ i - 1 \in owed(d)'
                                          /\ queue'[i - 1] = queue[i]
           /\ \A i \in owed(d)' : i + 1 \in owed(d) /\ i + 1 # 1
           /\ 1 \in owed(d) <=> Head(queue).cli = d /\ owes_reply(Head(queue))
           /\ owed(d) \subseteq Nat /\ owed(d)' \subseteq Nat
<1>1. DOMAIN queue = 1..Len(queue) /\ DOMAIN queue' = 1..(Len(queue) - 1)
    OBVIOUS
<1>2. Len(queue) \in Nat \ {0} /\ queue[1] = Head(queue)
    OBVIOUS
<1>3. \A i \in 1..(Len(queue) - 1) : queue'[i] = queue[i + 1]
    OBVIOUS
<1>4. ASSUME NEW i \in owed(d), i # 1
      PROVE  i - 1 \in owed(d)' /\ queue'[i - 1] = queue[i]
  <2>1. i - 1 \in 1..(Len(queue) - 1) /\ (i - 1) + 1 = i
      BY <1>1, <1>2, <1>4 DEF owed
  <2>2. queue'[i - 1] = queue[i]
      BY <1>3, <2>1
  <2>. QED
      BY <1>1, <2>1, <2>2 DEF owed
<1>5. ASSUME NEW i \in owed(d)'
      PROVE  i + 1 \in owed(d) /\ i + 1 # 1
  <2>1. i \in 1..(Len(queue) - 1) /\ i + 1 \in 1..Len(queue) /\ i + 1 # 1
      BY <1>1, <1>2 DEF owed
  <2>2. queue'[i] = queue[i + 1]
      BY <1>3, <2>1
  <2>. QED
      BY <1>1, <2>1, <2>2 DEF owed
<1>6. 1 \in owed(d) <=> Head(queue).cli = d /\ owes_reply(Head(queue))
    BY <1>1, <1>2 DEF owed
<1>7. owed(d) \subseteq Nat /\ owed(d)' \subseteq Nat
    BY <1>1 DEF owed
<1>. QED
    BY <1>4, <1>5, <1>6, <1>7

(* The situations a client can be in, the last one when the server is dead. *)
Idle(c) == wait[c] = NoReq /\ inbox[c] = <<>> /\ owed(c) = {}
Answered(c) == wait[c] # NoReq /\ Len(inbox[c]) = 1 /\ owed(c) = {}
Queued(c) == /\ wait[c] # NoReq /\ inbox[c] = <<>>
             /\ \E i \in owed(c) : owed(c) = {i} /\ queue[i].req = wait[c]
Lost(c) == wait[c] # NoReq /\ inbox[c] = <<>> /\ owed(c) = {}

LEMMA OneReplyOwedMeans ==
    OneReplyOwed <=> \A c \in Clients : \/ Idle(c) \/ Answered(c)
                                        \/ up /\ Queued(c)
                                        \/ ~up /\ Lost(c)
BY DEF OneReplyOwed, Idle, Answered, Queued, Lost

LEMMA ReplyAppends ==
    ASSUME inbox \in [Clients -> Seq(ReplyType)], NEW c \in Clients, NEW rep,
           reply(c, rep)
    PROVE  /\ \A d \in Clients : d # c => inbox'[d] = inbox[d]
           /\ inbox[c] = <<>> => Len(inbox'[c]) = 1
<1>1. \A d \in Clients : inbox'[d] = IF d = c THEN Append(inbox[c], rep)
                                     ELSE inbox[d]
    BY DEF reply
<1>2. Len(Append(<<>>, rep)) = 1
    <2>1. <<>> \in Seq({rep}) /\ rep \in {rep}
        OBVIOUS
    <2>. QED
        BY <2>1
<1>. QED
    BY <1>1, <1>2

LEMMA ParseOneReply ==
    ASSUME TypeOK, NEW c \in Clients, NEW r \in Requests, parse_message(c, r),
           NEW d \in Clients, Idle(d) \/ Answered(d) \/ Queued(d)
    PROVE  Idle(d)' \/ Answered(d)' \/ Queued(d)'
<1> DEFINE e == [cli |-> c, req |-> r]
<1>1. e \in QueueEntry /\ queue \in Seq(QueueEntry) /\ e.cli = c /\ e.req = r
    BY DEF QueueEntry, TypeOK
<1>2. r # NoReq
    BY RequestsAssumption DEF RequestType, NoReq, Ops
<1>3. wait[c] = NoReq /\ wait' = [wait EXCEPT ![c] = r]
    BY DEF parse_message
<1>4. d # c => wait'[d] = wait[d]
    BY <1>3 DEF TypeOK
<1>5. d = c => Idle(d) /\ wait'[d] = r /\ wait'[d] # NoReq
    BY <1>2, <1>3 DEF TypeOK, Answered, Queued
<1>6. answers(c) => /\ d # c => inbox'[d] = inbox[d]
                    /\ d = c => Len(inbox'[d]) = 1
    BY <1>5, ReplyAppends DEF answers, TypeOK, Idle
<1>7. AnswersOnce(c, r)
    BY ParseAnswersOnce
<1>8. CASE answers(c) /\ UNCHANGED queue
  <2>1. owed(d)' = owed(d) /\ queue' = queue
      BY <1>8 DEF owed
  <2>. QED
      BY <1>4, <1>5, <1>6, <1>8, <2>1 DEF Idle, Answered, Queued
<1>9. CASE queue' = Append(queue, e) /\ owes_reply(e) /\ UNCHANGED inbox
  <2>1. /\ owed(d)' = owed(d) \cup (IF c = d THEN {Len(queue) + 1} ELSE {})
        /\ queue'[Len(queue) + 1] = e
        /\ \A i \in owed(d) : queue'[i] = queue[i]
      BY <1>1, <1>9, OwedAfterPut
  <2>2. CASE d = c
      BY <1>1, <1>5, <1>9, <2>1, <2>2 DEF Idle, Queued
  <2>3. CASE d # c
    <3>1. owed(d)' = owed(d)
        BY <2>1, <2>3
    <3>. QED
        BY <1>4, <1>9, <2>1, <2>3, <3>1 DEF Idle, Answered, Queued
  <2>. QED
      BY <2>2, <2>3
<1>10. CASE queue' = Append(queue, e) /\ ~owes_reply(e) /\ answers(c)
  <2>1. /\ owed(d)' = owed(d) \cup
                         (IF c = d /\ owes_reply(e) THEN {Len(queue) + 1} ELSE {})
        /\ \A i \in owed(d) : queue'[i] = queue[i]
      BY <1>1, <1>10, OwedAfterPut
  <2>2. owed(d)' = owed(d)
      BY <1>10, <2>1
  <2>. QED
      BY <1>4, <1>5, <1>6, <1>10, <2>1, <2>2 DEF Idle, Answered, Queued
<1>. QED
    BY <1>7, <1>8, <1>9, <1>10 DEF AnswersOnce

LEMMA ProcessOneReply ==
    ASSUME TypeOK, process_op, NEW d \in Clients,
           Idle(d) \/ Answered(d) \/ Queued(d)
    PROVE  Idle(d)' \/ Answered(d)' \/ Queued(d)'
<1> DEFINE e == Head(queue)
<1>1. queue \in Seq(QueueEntry) /\ queue # <<>> /\ queue' = Tail(queue)
    BY DEF TypeOK, process_op
<1>2. e.cli \in Clients
  <2>1. e \in QueueEntry
      BY <1>1
  <2>. QED
      BY <2>1 DEF QueueEntry
<1>3. wait' = wait
    BY DEF process_op
<1>4. /\ \A i \in owed(d) : i # 1 => /\ i - 1 \in owed(d)'
                                     /\ queue'[i - 1] = queue[i]
      /\ \A i \in owed(d)' : i + 1 \in owed(d) /\ i + 1 # 1
      /\ 1 \in owed(d) <=> e.cli = d /\ owes_reply(e)
      /\ owed(d) \subseteq Nat /\ owed(d)' \subseteq Nat
    BY <1>1, OwedAfterTake
<1>5. IF owes_reply(e) THEN answers(e.cli) ELSE UNCHANGED inbox
    BY ProcessAnswersOnce
<1> HIDE DEF e
<1>6. CASE e.cli = d /\ owes_reply(e)
  <2>1. Queued(d) /\ owed(d) = {1}
      BY <1>4, <1>6 DEF Idle, Answered, Queued
  <2>2. owed(d)' = {}
      BY <1>4, <2>1
  <2>3. Len(inbox'[d]) = 1
      BY <1>2, <1>5, <1>6, <2>1, ReplyAppends DEF answers, TypeOK, Queued
  <2>. QED
      BY <1>3, <2>1, <2>2, <2>3 DEF Answered, Queued
<1>7. CASE ~(e.cli = d /\ owes_reply(e))
  <2>1. inbox'[d] = inbox[d]
      BY <1>2, <1>5, <1>7, ReplyAppends DEF answers, TypeOK
  <2>2. CASE owed(d) = {}
    <3>1. owed(d)' = {}
        BY <1>4, <2>2
    <3>. QED
        BY <1>3, <2>1, <2>2, <3>1 DEF Idle, Answered, Queued
  <2>3. CASE Queued(d)
    <3>1. PICK i \in owed(d) : owed(d) = {i} /\ queue[i].req = wait[d]
        BY <2>3 DEF Queued
    <3>2. i # 1 /\ i - 1 \in owed(d)' /\ queue'[i - 1] = queue[i]
        BY <1>4, <1>7
    <3>3. owed(d)' = {i - 1}
      <4>1. ASSUME NEW j \in owed(d)'
            PROVE  j = i - 1
        <5>1. j + 1 = i /\ j \in Nat /\ i \in Nat
            BY <1>4, <3>1
        <5>. QED
            BY <5>1
      <4>. QED
          BY <3>2, <4>1
    <3>. QED
        BY <1>3, <2>1, <2>3, <3>1, <3>2, <3>3 DEF Queued
  <2>. QED
      BY <2>2, <2>3 DEF Idle, Answered
<1>. QED
    BY <1>6, <1>7

LEMMA GetRepOneReply ==
    ASSUME TypeOK, NEW c \in Clients, get_rep(c),
           NEW d \in Clients, Idle(d) \/ Answered(d) \/ Queued(d)
    PROVE  Idle(d)' \/ Answered(d)' \/ Queued(d)'
<1>1. owed(d)' = owed(d) /\ queue' = queue
    BY DEF get_rep, owed
<1>2. CASE d = c
  <2>1. Answered(d) /\ inbox[d] \in Seq(ReplyType)
      BY <1>2 DEF get_rep, Idle, Queued, TypeOK
  <2>2. Tail(inbox[d]) = <<>>
      BY <2>1, TailOfOne DEF Answered
  <2>3. wait'[d] = NoReq /\ inbox'[d] = Tail(inbox[d])
      BY <1>2 DEF get_rep, TypeOK
  <2>. QED
      BY <1>1, <2>1, <2>2, <2>3 DEF Answered, Idle
<1>3. CASE d # c
  <2>1. wait'[d] = wait[d] /\ inbox'[d] = inbox[d]
      BY <1>3 DEF get_rep, TypeOK
  <2>. QED
      BY <1>1, <2>1 DEF Idle, Answered, Queued
<1>. QED
    BY <1>2, <1>3

(* The queue goes with the server.  What it owed is lost, what it had sent *)
(* is not, and nothing is added.                                          *)
LEMMA DiesOneReply ==
    ASSUME TypeOK, Dies,
           NEW d \in Clients, Idle(d) \/ Answered(d) \/ Queued(d)
    PROVE  Idle(d)' \/ Answered(d)' \/ Lost(d)'
<1>1. queue' = <<>> /\ inbox' = inbox
    BY DEF Dies, parse_message_dies, process_op_dies, server_dies
<1>2. owed(d)' = {}
    BY <1>1 DEF owed
<1>3. wait'[d] = wait[d] \/ (wait[d] = NoReq /\ wait'[d] # NoReq)
  <2>1. \A r \in Requests : r # NoReq
      BY RequestsAssumption DEF RequestType, NoReq, Ops
  <2>. QED
      BY <2>1 DEF Dies, parse_message_dies, process_op_dies, TypeOK
<1>. QED
    BY <1>1, <1>2, <1>3 DEF Idle, Answered, Queued, Lost

ReplyInv == TypeInv /\ OneReplyOwed

LEMMA NextReplyInv == ReplyInv /\ [Next]_vars => ReplyInv'
<1> SUFFICES ASSUME ReplyInv, [Next]_vars PROVE ReplyInv'
    OBVIOUS
<1>1. TypeInv' /\ TypeOK
    BY NextTypeInv DEF ReplyInv, TypeInv
<1>2. \A d \in Clients : \/ Idle(d) \/ Answered(d)
                         \/ up /\ Queued(d)
                         \/ ~up /\ Lost(d)
    BY OneReplyOwedMeans DEF ReplyInv
<1>3. ASSUME NEW d \in Clients
      PROVE  \/ Idle(d)' \/ Answered(d)'
             \/ up' /\ Queued(d)'
             \/ ~up' /\ Lost(d)'
  <2>1. ASSUME up PROVE Idle(d) \/ Answered(d) \/ Queued(d)
      BY <1>2, <2>1
  <2>2. CASE \E c \in Clients, r \in Requests : parse_message(c, r)
    <3>1. up /\ up'
        BY <2>2 DEF parse_message
    <3>. QED
        BY <1>1, <2>1, <2>2, <3>1, ParseOneReply
  <2>3. CASE process_op
    <3>1. up /\ up'
        BY <2>3 DEF process_op
    <3>. QED
        BY <1>1, <2>1, <2>3, <3>1, ProcessOneReply
  <2>4. CASE \E c \in Clients : get_rep(c)
    <3>1. up /\ up'
        BY <2>4 DEF get_rep
    <3>. QED
        BY <1>1, <2>1, <2>4, <3>1, GetRepOneReply
  <2>5. CASE UNCHANGED <<up, wait, inbox, queue>>
      BY <1>2, <2>5 DEF Idle, Answered, Queued, Lost, owed
  <2>6. CASE Dies
    <3>1. up /\ ~up'
        BY <2>6 DEF Dies, parse_message_dies, process_op_dies, server_dies
    <3>. QED
        BY <1>1, <2>1, <2>6, <3>1, DiesOneReply
  <2>. QED
      BY <2>2, <2>3, <2>4, <2>5, <2>6 DEF Next, Down, SIGUSR1, vars
<1>4. OneReplyOwed'
    BY <1>3 DEF OneReplyOwed, Idle, Answered, Queued, Lost
<1>. QED
    BY <1>1, <1>4 DEF ReplyInv

(* However the clients' requests and the two threads interleave, and       *)
(* whatever fails: a blocked client has one answer coming and an idle      *)
(* client none, so that no reply is ever taken for the answer to another   *)
(* call.  Every path through the handlers and process_op that the server   *)
(* survives answers once; on those it does not survive, failing malloc()s  *)
(* the code does not check or cleans up after wrongly, a blocked client    *)
(* has at most the answer that was already sent to it.                     *)
THEOREM OneReplyPerRequest == Spec => []OneReplyOwed
<1>1. Init => ReplyInv
  <2>1. Init => OneReplyOwed
      BY DEF Init, OneReplyOwed, owed
  <2>. QED
      BY <2>1, InitTypeInv DEF ReplyInv
<1>2. ReplyInv => OneReplyOwed
    BY DEF ReplyInv
<1>. QED
    BY <1>1, <1>2, NextReplyInv, PTL DEF Spec

(* Once read-only, always read-only, and no new write is cached or queued. *)
THEOREM ReadOnlyForGood == Spec => ReadOnlyIsFinal
<1>1. TypeInv /\ [Next]_vars =>
         [read_only =>
             /\ read_only'
             /\ cache' = cache \/ ~up'
             /\ \A i \in DOMAIN queue' :
                   queue'[i].req.op \in Writes =>
                       \E j \in DOMAIN queue : queue[j] = queue'[i]]_vars
  <2> SUFFICES ASSUME TypeOK, read_only, [Next]_vars
               PROVE  /\ read_only'
                      /\ cache' = cache \/ ~up'
                      /\ \A i \in DOMAIN queue' :
                            queue'[i].req.op \in Writes =>
                                \E j \in DOMAIN queue : queue[j] = queue'[i]
      BY DEF TypeInv
  <2>1. queue \in Seq(QueueEntry)
      BY DEF TypeOK
  <2>2. CASE UNCHANGED <<read_only, cache, queue>>
      BY <2>2
  <2>3. CASE process_op
    <3>1. DOMAIN queue' \subseteq DOMAIN queue /\ DOMAIN queue = 1..Len(queue)
        BY <2>1, <2>3 DEF process_op
    <3>2. \A i \in DOMAIN queue' : queue'[i] = queue[i + 1] /\ i + 1 \in DOMAIN queue
        BY <2>1, <2>3 DEF process_op
    <3>. QED
        BY <2>3, <3>2 DEF process_op
  <2>4. ASSUME NEW c \in Clients, NEW r \in Requests, parse_message(c, r)
        PROVE  /\ UNCHANGED <<read_only, cache>>
               /\ \/ UNCHANGED queue
                  \/ /\ r.op \notin Writes
                     /\ queue' = Append(queue, [cli |-> c, req |-> r])
    <3>1. UNCHANGED read_only
        BY <2>4 DEF parse_message
    <3>2. CASE r.op \in Writes
      <4>1. refuse_read_only(c)
          BY <2>4, <3>2 DEF parse_message, parse_set, parse_del, parse_cas,
                            parse_incr, Writes
      <4>. QED
          BY <3>1, <4>1 DEF refuse_read_only, answer_now
    <3>3. CASE r.op \notin Writes
      <4>1. UNCHANGED cache
          BY <2>4, <3>3 DEF parse_message, parse_get, parse_walk, Writes
      <4>2. AnswersOnce(c, r)
          BY <2>4, ParseAnswersOnce
      <4>. QED
          BY <3>1, <3>3, <4>1, <4>2 DEF AnswersOnce
    <3>. QED
        BY <3>2, <3>3
  <2>5. CASE \E c \in Clients, r \in Requests : parse_message(c, r)
    <3>1. PICK c \in Clients, r \in Requests : parse_message(c, r)
        BY <2>5
    <3>2. CASE UNCHANGED queue
        BY <2>4, <3>1, <3>2
    <3>3. CASE /\ r.op \notin Writes
               /\ queue' = Append(queue, [cli |-> c, req |-> r])
      <4>1. [cli |-> c, req |-> r] \in QueueEntry
          BY DEF QueueEntry
      <4>2. \A i \in DOMAIN queue' :
               \/ i \in DOMAIN queue /\ queue'[i] = queue[i]
               \/ queue'[i] = [cli |-> c, req |-> r]
          BY <2>1, <3>3, <4>1
      <4>3. [cli |-> c, req |-> r].req.op \notin Writes
          BY <3>3
      <4>4. read_only' /\ cache' = cache
          BY <2>4, <3>1
      <4>. QED
          BY <4>2, <4>3, <4>4
    <3>. QED
        BY <2>4, <3>1, <3>2, <3>3
  <2>6. CASE Dies
    <3>1. UNCHANGED read_only /\ server_dies
        BY <2>6 DEF Dies, parse_message_dies, process_op_dies
    <3>2. ~up' /\ queue' = <<>>
        BY <3>1 DEF server_dies
    <3>3. DOMAIN queue' = {}
        BY <3>2
    <3>. QED
        BY <3>1, <3>2, <3>3
  <2>. QED
      BY <2>2, <2>3, <2>5, <2>6 DEF Next, Down, get_rep, SIGUSR1, vars
<1>. QED
    BY <1>1, InitTypeInv, NextTypeInv, PTL DEF Spec, ReadOnlyIsFinal

-----------------------------------------------------------------------------
(* NmdbLin. *)

walks(r) == r.op \in {"FIRSTKEY", "NEXTKEY"}

(* The snapshots are the database's future, one step per queue entry. *)
Snapshots ==
    /\ snap \in Seq([Keys -> MaybeValue])
    /\ Len(snap) = Len(queue) + 1
    /\ \A i \in 1..Len(queue) : snap[i + 1] = A!Effect(snap[i], queue[i].req)

(* No cache-only request is ever queued, but for walks, which ignore the   *)
(* flag.                                                                   *)
QueuedReachDb ==
    \A i \in 1..Len(queue) : cache_only(queue[i].req) => walks(queue[i].req)

(* What an entry will answer was promised when it was queued. *)
Promises ==
    /\ pend \in [Clients -> ResultType]
    /\ \A c \in Clients : wait[c] = NoReq <=> pend[c] = A!NoPend
    /\ \A i \in 1..Len(queue) :
          owes_reply(queue[i]) =>
              pend[queue[i].cli] = A!Answer(snap[i], queue[i].req)

(* The answer on its way to c is not the promised one. *)
Broken(c) == /\ inbox[c] # <<>> /\ pend[c] # A!Anything
             /\ LibResult(wait[c].op, inbox[c][1]) # pend[c]

AnswersKept == \A c \in Clients : Broken(c) => wait[c].key \in spoilt

LInv == /\ ReplyInv /\ Snapshots /\ QueuedReachDb /\ Promises /\ AnswersKept
        /\ OnlyAsyncFailsSilently

-----------------------------------------------------------------------------
(* What a step that changes the cache shows of each key afterwards. *)

(* Nothing but k is added to the cache or changed in it. *)
OthersKept(k) ==
    \A j \in Keys : (j # k /\ in_cache(j)') => /\ in_cache(j)
                                               /\ cache_get(j)' = cache_get(j)

(* The chain of k is replaced by one made of its entries and of k. *)
LEMMA ReplacedChain ==
    ASSUME CacheOK, NEW k \in Keys, NEW n, ChainOK(n, Home(hash[k]), Value),
           cache' = [cache EXCEPT ![hash[k]] = n],
           \A i \in 1..Len(n) :
               n[i].key = k \/ \E q \in 1..Len(cache[hash[k]]) : n[i] = cache[hash[k]][q]
    PROVE  OthersKept(k) /\ cache'[hash[k]] = n
<1>1. hash \in [Keys -> Chains]
    BY HashAssumption
<1>2. /\ cache'[hash[k]] = n
      /\ \A h \in Chains : h # hash[k] => cache'[h] = cache[h]
    BY <1>1 DEF CacheOK
<1>3. ASSUME NEW j \in Keys, j # k, in_cache(j)'
      PROVE  in_cache(j) /\ cache_get(j)' = cache_get(j)
  <2>1. CASE hash[j] = hash[k]
    <3>1. in_chain(n, j) /\ cache'[hash[j]] = n
        BY <1>2, <1>3, <2>1 DEF in_cache
    <3> DEFINE ch == cache[hash[k]]
               p == find_in_chain(n, j)
    <3>2. ChainOK(ch, Home(hash[k]), Value)
        BY <1>1 DEF CacheOK
    <3>3. p \in 1..Len(n) /\ n[p].key = j
        BY <3>1, FindInChain DEF ChainOK
    <3>4. PICK q \in 1..Len(ch) : n[p] = ch[q]
        BY <1>3, <3>3
    <3>5. in_chain(ch, j) /\ ch[find_in_chain(ch, j)] = n[p]
        BY <3>2, <3>3, <3>4, ChainLookup
    <3>. QED
        BY <2>1, <3>1, <3>5 DEF in_cache, cache_get
  <2>2. CASE hash[j] # hash[k]
    <3>1. cache'[hash[j]] = cache[hash[j]]
        BY <1>1, <1>2, <2>2
    <3>. QED
        BY <1>3, <3>1 DEF in_cache, cache_get
  <2>. QED
      BY <2>1, <2>2
<1>. QED
    BY <1>2, <1>3 DEF OthersKept

LEMMA CacheSetShows ==
    ASSUME CacheOK, NEW k \in Keys, NEW v \in Value, cache_set(k, v)
    PROVE  OthersKept(k) /\ in_cache(k)' /\ cache_get(k)' = v
<1> DEFINE ch == cache[hash[k]]
           slots == cap[hash[k]]
           n == chain_set(ch, slots, k, v)
<1>1. hash[k] \in Chains /\ k \in Home(hash[k])
    BY HashAssumption DEF Home
<1>2. /\ ChainOK(ch, Home(hash[k]), Value)
      /\ slots \in 1..CHAINLEN /\ Len(ch) <= slots
    BY <1>1 DEF CacheOK
<1>3. /\ ChainOK(n, Home(hash[k]), Value) /\ 1 \in 1..Len(n)
      /\ \A i \in 1..Len(n) :
            \/ i = 1 /\ n[i] = [key |-> k, val |-> v]
            \/ /\ i # 1 /\ n[i].key # k
               /\ \E j \in 1..Len(ch) : n[i] = ch[j]
    BY <1>1, <1>2, ChainSetElements
<1>4. cache' = [cache EXCEPT ![hash[k]] = n]
    BY DEF cache_set
<1> HIDE DEF n
<1>5. n[1] = [key |-> k, val |-> v]
    BY <1>3
<1>6. OthersKept(k) /\ cache'[hash[k]] = n
  <2>1. \A q \in 1..Len(n) : n[q].key = k \/ \E j \in 1..Len(ch) : n[q] = ch[j]
      BY <1>3
  <2>. QED
      BY <1>3, <1>4, <2>1, ReplacedChain
<1>7. in_chain(n, k) /\ n[find_in_chain(n, k)] = n[1]
    BY <1>3, <1>5, ChainLookup
<1>. QED
    BY <1>5, <1>6, <1>7 DEF in_cache, cache_get

(* A cache_set that fails adds nothing. *)
LEMMA CacheSetFailsShows ==
    ASSUME CacheOK, NEW k \in Keys, cache_set_fails(k)
    PROVE  /\ OthersKept(k)
           /\ in_cache(k)' => in_cache(k) /\ cache_get(k)' = cache_get(k)
<1>1. CASE UNCHANGED cache
    BY <1>1 DEF OthersKept, in_cache, cache_get
<1>2. CASE ~UNCHANGED cache
  <2> DEFINE h == hash[k]
             ch == cache[h]
             n == Front(ch)
  <2>1. h \in Chains
      BY HashAssumption
  <2>2. ChainOK(ch, Home(h), Value) /\ cap[h] \in 1..CHAINLEN
      BY <2>1 DEF CacheOK
  <2>3. /\ ~in_chain(ch, k) /\ Len(ch) = cap[h]
        /\ cache' = [cache EXCEPT ![h] = n]
      BY <1>2 DEF cache_set_fails, in_cache
  <2>4. Len(ch) # 0
      BY <2>2, <2>3, ChainLenAssumption
  <2> HIDE DEF h, ch
  <2>5. /\ ChainOK(n, Home(h), Value) /\ Len(n) = Len(ch) - 1
        /\ \A i \in 1..Len(n) : \E j \in 1..Len(ch) : n[i] = ch[j]
      BY <2>2, <2>4, ChainFrontElements
  <2> HIDE DEF n
  <2>6. OthersKept(k) /\ cache'[h] = n
      BY <2>3, <2>5, ReplacedChain DEF h, ch
  <2>7. ~in_chain(n, k)
    <3> SUFFICES ASSUME in_chain(n, k) PROVE in_chain(ch, k)
        BY <2>3
    <3>1. DOMAIN n = 1..Len(n) /\ DOMAIN ch = 1..Len(ch)
        BY <2>2, <2>5 DEF ChainOK
    <3>2. PICK i \in 1..Len(n) : n[i].key = k
        BY <3>1, Zenon DEF in_chain
    <3>. QED
        BY <2>5, <3>1, <3>2, Zenon DEF in_chain
  <2>. QED
      BY <2>6, <2>7 DEF in_cache, h
<1>. QED
    BY <1>1, <1>2

LEMMA CacheDelShows ==
    ASSUME CacheOK, NEW k \in Keys, cache_del(k)
    PROVE  OthersKept(k) /\ ~in_cache(k)'
<1> DEFINE ch == cache[hash[k]]
           n == chain_del(ch, k)
<1>1. hash[k] \in Chains /\ k \in Home(hash[k])
    BY HashAssumption DEF Home
<1>2. ChainOK(ch, Home(hash[k]), Value)
    BY <1>1 DEF CacheOK
<1> HIDE DEF ch
<1>3. /\ ChainOK(n, Home(hash[k]), Value) /\ Len(n) <= Len(ch)
      /\ \A i \in 1..Len(n) : n[i].key # k /\ \E j \in 1..Len(ch) : n[i] = ch[j]
    BY <1>1, <1>2, ChainDelElements
<1> USE DEF ch
<1>4. cache' = [cache EXCEPT ![hash[k]] = n]
    BY DEF cache_del
<1> HIDE DEF n
<1>5. OthersKept(k) /\ cache'[hash[k]] = n
    BY <1>3, <1>4, ReplacedChain
<1>6. ~in_chain(n, k)
    BY <1>3 DEF in_chain, ChainOK
<1>. QED
    BY <1>5, <1>6 DEF in_cache

LEMMA CacheUpdateShows ==
    ASSUME CacheOK, NEW k \in Keys, NEW v \in Value, in_cache(k),
           cache_update(k, v)
    PROVE  OthersKept(k) /\ in_cache(k)' /\ cache_get(k)' = v
<1> DEFINE ch == cache[hash[k]]
           n == chain_update(ch, k, v)
<1>1. hash[k] \in Chains /\ k \in Home(hash[k])
    BY HashAssumption DEF Home
<1>2. ChainOK(ch, Home(hash[k]), Value) /\ in_chain(ch, k)
    BY <1>1 DEF CacheOK, in_cache
<1>3. /\ ChainOK(n, Home(hash[k]), Value) /\ Len(n) = Len(ch)
      /\ \A i \in 1..Len(n) :
            n[i] = IF ch[i].key = k THEN [key |-> k, val |-> v] ELSE ch[i]
    BY <1>1, <1>2, ChainUpdateElements
<1>4. cache' = [cache EXCEPT ![hash[k]] = n]
    BY DEF cache_update
<1>5. PICK i \in 1..Len(ch) : ch[i].key = k
    BY <1>2, FindInChain DEF ChainOK
<1> HIDE DEF n
<1>6. \A q \in 1..Len(n) : n[q].key = k \/ \E j \in 1..Len(ch) : n[q] = ch[j]
    BY <1>3
<1>7. OthersKept(k) /\ cache'[hash[k]] = n
    BY <1>3, <1>4, <1>6, ReplacedChain
<1>8. i \in 1..Len(n) /\ n[i] = [key |-> k, val |-> v]
    BY <1>3, <1>5
<1>9. in_chain(n, k) /\ n[find_in_chain(n, k)] = n[i]
    BY <1>3, <1>8, ChainLookup
<1>. QED
    BY <1>7, <1>8, <1>9 DEF in_cache, cache_get

-----------------------------------------------------------------------------
(* The promise, request by request. *)

(* AtomicStore and the server speak of the same values and requests. *)
LEMMA SameWords ==
    /\ A!NoVal = NoVal /\ A!Writes = Writes
    /\ \A r : (A!cache_only(r) <=> cache_only(r)) /\ (A!sync(r) <=> sync(r))
    /\ \A v : A!nul_terminated(v) <=> nul_terminated(v)
    /\ \A v, i : A!incremented(v, i) = incremented(v, i)
    /\ \A n : A!Number(n) = Number(n)
    /\ \A n, d : A!Result(n, d) = Result(n, d)
BY DEF A!NoVal, NoVal, A!Writes, Writes, A!cache_only, cache_only, A!sync, sync,
       A!nul_terminated, nul_terminated, A!incremented, incremented, A!Wrap, Wrap,
       A!strtoll, strtoll, A!Number, Number, A!Result, Result

LEMMA EffectIs ==
    ASSUME NEW m \in [Keys -> MaybeValue], NEW r \in Requests
    PROVE  /\ A!Effect(m, r) \in [Keys -> MaybeValue]
           /\ \A j \in Keys : j # r.key => A!Effect(m, r)[j] = m[j]
           /\ (cache_only(r) \/ r.op \notin Writes) => A!Effect(m, r) = m
           /\ ~cache_only(r) =>
                 /\ r.op = "SET" => A!Effect(m, r)[r.key] = r.val
                 /\ r.op = "DEL" => A!Effect(m, r)[r.key] = NoVal
                 /\ r.op = "CAS" => A!Effect(m, r)[r.key] =
                       IF m[r.key] = r.val THEN r.new ELSE m[r.key]
                 /\ r.op = "CAS" /\ m[r.key] # r.val => A!Effect(m, r) = m
                 /\ r.op = "INCR" => A!Effect(m, r)[r.key] =
                       IF m[r.key] # NoVal /\ nul_terminated(m[r.key])
                       THEN incremented(m[r.key], r.inc) ELSE m[r.key]
                 /\ r.op = "INCR" /\ (m[r.key] = NoVal \/ ~nul_terminated(m[r.key]))
                       => A!Effect(m, r) = m
<1>1. /\ r.op \in Ops /\ r.key \in Keys /\ r.inc \in Int
      /\ r.op = "SET" => r.val \in Value
      /\ r.op = "CAS" => r.new \in Value
    BY RequestFields
<1>2. m[r.key] # NoVal => m[r.key] \in Value /\ incremented(m[r.key], r.inc) \in Value
    BY <1>1, IncrementedType DEF MaybeValue
<1>3. Value \subseteq MaybeValue /\ NoVal \in MaybeValue
    BY ReplyTypes
<1>4. CASE cache_only(r) \/ r.op \notin Writes
    BY <1>4, SameWords DEF A!Effect, A!Promised, Writes
<1>5. CASE ~cache_only(r) /\ r.op = "SET"
    BY <1>1, <1>3, <1>5, SameWords DEF A!Effect, A!Promised, Writes
<1>6. CASE ~cache_only(r) /\ r.op = "DEL"
    BY <1>1, <1>3, <1>6, SameWords DEF A!Effect, A!Promised, Writes
<1>7. CASE ~cache_only(r) /\ r.op = "CAS"
    BY <1>1, <1>3, <1>7, SameWords DEF A!Effect, A!Promised, Writes
<1>8. CASE ~cache_only(r) /\ r.op = "INCR"
    BY <1>1, <1>2, <1>3, <1>8, SameWords DEF A!Effect, A!Promised, Writes
<1>. QED
    BY <1>4, <1>5, <1>6, <1>7, <1>8 DEF Writes

LEMMA AnswerIs ==
    ASSUME NEW m \in [Keys -> MaybeValue], NEW r \in Requests
    PROVE  /\ A!Answer(m, r) \in ResultType
           /\ A!Answer(m, r) # A!NoPend
           /\ (cache_only(r) \/ walks(r)) => A!Answer(m, r) = A!Anything
           /\ (~cache_only(r) /\ ~walks(r)) =>
                 /\ r.op = "GET" => A!Answer(m, r) =
                       IF m[r.key] = NoVal THEN Result(-1, NoVal)
                       ELSE Result(0, m[r.key])
                 /\ r.op = "SET" => A!Answer(m, r) = Result(1, NoVal)
                 /\ r.op = "DEL" => A!Answer(m, r) =
                       Result(IF sync(r) /\ m[r.key] = NoVal THEN 0 ELSE 1, NoVal)
                 /\ r.op = "CAS" => A!Answer(m, r) =
                       Result(IF m[r.key] = NoVal THEN 0
                              ELSE IF m[r.key] = r.val THEN 2 ELSE 1, NoVal)
                 /\ r.op = "INCR" => A!Answer(m, r) =
                       IF m[r.key] = NoVal THEN Result(0, NoVal)
                       ELSE IF ~nul_terminated(m[r.key]) THEN Result(1, NoVal)
                       ELSE Result(2, Number(incremented(m[r.key], r.inc).num))
                 /\ r.op \in {"UNKNOWN", "OLDVERSION", "BROKEN"} =>
                       A!Answer(m, r) = Result(-1, NoVal)
<1>1. /\ r.op \in Ops /\ r.key \in Keys /\ r.inc \in Int /\ m[r.key] \in MaybeValue
    BY RequestFields
<1>2. /\ m[r.key] \in Data /\ NoVal \in Data
      /\ m[r.key] # NoVal =>
            Number(incremented(m[r.key], r.inc).num) \in Data
  <2>1. m[r.key] \in Data /\ NoVal \in Data
      BY <1>1, ReplyTypes DEF MaybeValue
  <2>2. ASSUME m[r.key] # NoVal
        PROVE  Number(incremented(m[r.key], r.inc).num) \in Data
    <3>1. incremented(m[r.key], r.inc) \in Value
        BY <1>1, <2>2, IncrementedType DEF MaybeValue
    <3>. QED
        BY <3>1, ReplyTypes DEF Value
  <2>. QED
      BY <2>1, <2>2
<1>3. \A n \in {-1, 0, 1, 2}, d \in Data :
         Result(n, d) \in ResultType /\ Result(n, d) # A!NoPend
    BY DEF Result, ResultType, A!NoPend
<1>4. A!Anything \in ResultType /\ A!Anything # A!NoPend
    BY <1>2, SameWords DEF A!Anything, A!NoPend, ResultType
<1>5. CASE cache_only(r) \/ walks(r)
  <2>1. A!Answer(m, r) = A!Anything
      BY <1>5, SameWords DEF A!Answer, A!Promised, walks
  <2>. QED
      BY <1>4, <1>5, <2>1
<1>6. CASE ~(cache_only(r) \/ walks(r))
  <2>1. A!Promised(r)
      BY <1>6, SameWords DEF A!Promised, walks
  <2>2. CASE r.op = "GET"
      BY <1>2, <1>3, <1>6, <2>1, <2>2, SameWords DEF A!Answer
  <2>3. CASE r.op = "SET"
      BY <1>2, <1>3, <1>6, <2>1, <2>3, SameWords DEF A!Answer
  <2>4. CASE r.op = "DEL"
      BY <1>2, <1>3, <1>6, <2>1, <2>4, SameWords DEF A!Answer
  <2>5. CASE r.op = "CAS"
      BY <1>2, <1>3, <1>6, <2>1, <2>5, SameWords DEF A!Answer
  <2>6. CASE r.op = "INCR"
      BY <1>2, <1>3, <1>6, <2>1, <2>6, SameWords DEF A!Answer
  <2>7. CASE r.op \in {"UNKNOWN", "OLDVERSION", "BROKEN"}
      BY <1>2, <1>3, <1>6, <2>1, <2>7, SameWords DEF A!Answer
  <2>. QED
      BY <1>1, <1>6, <2>2, <2>3, <2>4, <2>5, <2>6, <2>7 DEF Ops, walks
<1>. QED
    BY <1>5, <1>6

-----------------------------------------------------------------------------
(* What a reply tells a client. *)

LEMMA ToldByReply ==
    ASSUME inbox \in [Clients -> Seq(ReplyType)], NEW c \in Clients,
           NEW rep \in ReplyType, reply(c, rep), NEW op, NEW p
    PROVE  told_otherwise(c, op, p) <=> p # A!Anything /\ LibResult(op, rep) # p
<1>1. inbox'[c] = Append(inbox[c], rep) /\ inbox[c] \in Seq(ReplyType)
    BY DEF reply
<1>2. /\ Append(inbox[c], rep) # inbox[c]
      /\ Append(inbox[c], rep)[Len(Append(inbox[c], rep))] = rep
    BY <1>1
<1>. QED
    BY <1>1, <1>2 DEF told_otherwise, Last

LEMMA NotTold ==
    ASSUME UNCHANGED inbox, NEW c, NEW op, NEW p
    PROVE  ~told_otherwise(c, op, p)
BY DEF told_otherwise

(* A queued request lengthens the queue. *)
LEMMA PutMeans ==
    ASSUME queue \in Seq(QueueEntry), NEW c \in Clients, NEW r \in Requests,
           NEW answer \in BOOLEAN, put_in_queue(c, r, answer)
    PROVE  \/ /\ queue' # queue
              /\ IF answer THEN reply(c, Mini("OK")) ELSE UNCHANGED inbox
           \/ /\ MemFaults /\ queue' = queue /\ reply(c, Mini("ERR_MEM"))
<1>1. [cli |-> c, req |-> r] \in QueueEntry
    BY DEF QueueEntry
<1>2. queue_put(c, r) # queue
  <2>1. Len(Append(queue, [cli |-> c, req |-> r])) = Len(queue) + 1
      BY <1>1
  <2>. QED
      BY <2>1 DEF queue_put
<1>. QED
    BY <1>2 DEF put_in_queue

(* What a step that handles c's request r makes of a store m that the      *)
(* cache agrees with on r's key, p being the promised answer.              *)
Handles(c, r, m, p) ==
    LET n == IF queue' = queue THEN m ELSE A!Effect(m, r)
    IN  /\ (/\ ~told_otherwise(c, r.op, p)
            /\ ~(cache_only(r) /\ r.op \in Writes)
            /\ in_cache(r.key)')
               => cache_get(r.key)' = n[r.key]
        /\ (~MemFaults /\ ~cache_only(r))
               => /\ ~told_otherwise(c, r.op, p)
                  /\ n = IF A!Refused(r) THEN m ELSE A!Effect(m, r)

Promise(m, r) == IF A!Refused(r) THEN Result(-1, NoVal) ELSE A!Answer(m, r)

Agrees(m, k) == in_cache(k) => cache_get(k) = m[k]

(* A refused write changes nothing and is told so. *)
LEMMA RefusedHandles ==
    ASSUME CacheOK, MailOK, NEW c \in Clients, NEW r \in Requests,
           NEW m \in [Keys -> MaybeValue], Agrees(m, r.key),
           r.op \in Writes, refuse_read_only(c)
    PROVE  Handles(c, r, m, Promise(m, r))
<1>1. A!Refused(r) /\ queue' = queue /\ cache' = cache
    BY SameWords DEF A!Refused, refuse_read_only, answer_now
<1>2. reply(c, Mini("ERR_RO")) /\ Mini("ERR_RO") \in ReplyType
    BY ReplyTypes DEF refuse_read_only, answer_now, Codes
<1>3. LibResult(r.op, Mini("ERR_RO")) = Promise(m, r)
    BY <1>1 DEF Promise, Writes, LibResult, do_set, do_del, do_cas, do_incr,
                Mini, Reply, Result
<1>4. ~told_otherwise(c, r.op, Promise(m, r))
    BY <1>2, <1>3, ToldByReply DEF MailOK
<1>5. in_cache(r.key)' => in_cache(r.key) /\ cache_get(r.key)' = cache_get(r.key)
    BY <1>1 DEF in_cache, cache_get
<1>. QED
    BY <1>1, <1>4, <1>5 DEF Handles, Agrees

LEMMA GetHandles ==
    ASSUME CacheOK, MailOK, NEW c \in Clients, NEW r \in Requests,
           NEW m \in [Keys -> MaybeValue], Agrees(m, r.key),
           r.op = "GET", parse_get(c, r)
    PROVE  Handles(c, r, m, Promise(m, r))
<1> DEFINE k == r.key
           p == Promise(m, r)
<1>1. k \in Keys /\ ~A!Refused(r) /\ A!Effect(m, r) = m
    BY RequestFields, EffectIs, SameWords DEF A!Refused, Writes
<1>2. p = A!Answer(m, r)
    BY <1>1 DEF Promise
<1>3. in_cache(k)' = in_cache(k) /\ cache_get(k)' = cache_get(k)
    BY DEF parse_get, in_cache, cache_get
<1>4. ~MemFaults /\ ~cache_only(r) => ~told_otherwise(c, r.op, p)
  <2> SUFFICES ASSUME ~MemFaults, ~cache_only(r)
               PROVE  ~told_otherwise(c, r.op, p)
      OBVIOUS
  <2>1. CASE in_cache(k) /\ answer_now(c, Reply("CACHE_HIT", cache_get(k)))
    <3>1. cache_get(k) \in Value /\ cache_get(k) = m[k]
        BY <1>1, <2>1, CacheGetType DEF Agrees
    <3>2. /\ Reply("CACHE_HIT", m[k]) \in ReplyType
          /\ reply(c, Reply("CACHE_HIT", m[k])) /\ m[k] # NoVal
        BY <2>1, <3>1, ReplyTypes DEF Codes, answer_now
    <3>3. p = Result(0, m[k])
        BY <1>2, <3>2, AnswerIs DEF walks
    <3>4. LibResult(r.op, Reply("CACHE_HIT", m[k])) = Result(0, m[k])
        BY DEF LibResult, do_get, Reply
    <3>. QED
        BY <3>2, <3>3, <3>4, ToldByReply DEF MailOK
  <2>2. CASE put_in_queue(c, r, FALSE)
      BY <2>2, PutMeans, NotTold DEF MailOK
  <2>. QED
      BY <2>1, <2>2 DEF parse_get
<1>. QED
    BY <1>1, <1>3, <1>4 DEF Handles, Agrees

LEMMA SetHandles ==
    ASSUME CacheOK, MailOK, NEW c \in Clients, NEW r \in Requests,
           NEW m \in [Keys -> MaybeValue], Agrees(m, r.key),
           r.op = "SET", parse_set(c, r)
    PROVE  Handles(c, r, m, Promise(m, r))
<1> DEFINE k == r.key
           p == Promise(m, r)
<1>1. CASE refuse_read_only(c)
    BY <1>1, RefusedHandles DEF Writes
<1>2. CASE ~read_only
  <2>1. k \in Keys /\ r.val \in Value /\ ~A!Refused(r) /\ p = A!Answer(m, r)
      BY <1>2, RequestFields DEF A!Refused, Promise
  <2>2. ~cache_only(r) => p = Result(1, NoVal) /\ A!Effect(m, r)[k] = r.val
      BY <2>1, AnswerIs, EffectIs DEF walks
  <2>3. Mini("OK") \in ReplyType /\ Mini("ERR_MEM") \in ReplyType
      BY ReplyTypes DEF Codes
  <2>4. /\ LibResult("SET", Mini("OK")) = Result(1, NoVal)
        /\ LibResult("SET", Mini("ERR_MEM")) # Result(1, NoVal)
        /\ Result(1, NoVal) # A!Anything
      BY DEF LibResult, do_set, Mini, Reply, Result, A!Anything
  <2>5. CASE cache_set(k, r.val) /\ cache_only(r)
      BY <2>5 DEF Handles, Writes
  <2>6. CASE cache_set(k, r.val) /\ ~cache_only(r) /\ put_in_queue(c, r, ~sync(r))
    <3>1. cache_get(k)' = r.val
        BY <2>1, <2>6, CacheSetShows
    <3>2. (~sync(r)) \in BOOLEAN
        BY DEF sync
    <3>3. CASE queue' # queue /\ IF ~sync(r) THEN reply(c, Mini("OK")) ELSE UNCHANGED inbox
      <4>1. ~told_otherwise(c, r.op, p)
          BY <2>2, <2>3, <2>4, <2>6, <3>3, ToldByReply, NotTold DEF MailOK
      <4>. QED
          BY <2>1, <2>2, <2>6, <3>1, <3>3, <4>1 DEF Handles
    <3>4. CASE MemFaults /\ reply(c, Mini("ERR_MEM"))
      <4>1. told_otherwise(c, r.op, p)
          BY <2>2, <2>3, <2>4, <2>6, <3>4, ToldByReply DEF MailOK
      <4>. QED
          BY <3>4, <4>1 DEF Handles
    <3>. QED
        BY <2>6, <3>2, <3>3, <3>4, PutMeans DEF MailOK
  <2>7. CASE cache_set_fails(k) /\ answer_now(c, Mini("ERR_MEM"))
    <3>1. in_cache(k)' => in_cache(k) /\ cache_get(k)' = cache_get(k)
        BY <2>1, <2>7, CacheSetFailsShows
    <3>2. MemFaults
        BY <2>7 DEF cache_set_fails
    <3>. QED
        BY <2>7, <3>1, <3>2 DEF Handles, Agrees, answer_now
  <2>. QED
      BY <1>2, <2>5, <2>6, <2>7 DEF parse_set, refuse_read_only
<1>. QED
    BY <1>1, <1>2 DEF parse_set

LEMMA DelHandles ==
    ASSUME CacheOK, MailOK, NEW c \in Clients, NEW r \in Requests,
           NEW m \in [Keys -> MaybeValue], Agrees(m, r.key),
           r.op = "DEL", parse_del(c, r)
    PROVE  Handles(c, r, m, Promise(m, r))
<1> DEFINE k == r.key
           p == Promise(m, r)
<1>1. CASE refuse_read_only(c)
    BY <1>1, RefusedHandles DEF Writes
<1>2. CASE ~read_only
  <2>1. k \in Keys /\ ~A!Refused(r) /\ p = A!Answer(m, r)
      BY <1>2, RequestFields DEF A!Refused, Promise
  <2>2. cache_del(k)
      BY <1>2 DEF parse_del, refuse_read_only
  <2>3. ~in_cache(k)'
      BY <2>1, <2>2, CacheDelShows
  <2>4. CASE ~cache_only(r) /\ put_in_queue(c, r, ~sync(r))
    <3>1. (~sync(r)) \in BOOLEAN /\ Mini("OK") \in ReplyType
        BY ReplyTypes DEF sync, Codes
    <3>2. ASSUME ~MemFaults
          PROVE  queue' # queue /\ ~told_otherwise(c, r.op, p)
      <4>1. queue' # queue /\ IF ~sync(r) THEN reply(c, Mini("OK")) ELSE UNCHANGED inbox
          BY <2>4, <3>1, <3>2, PutMeans DEF MailOK
      <4>2. ~sync(r) => p = Result(1, NoVal)
          BY <2>1, <2>4, AnswerIs DEF walks
      <4>3. LibResult("DEL", Mini("OK")) = Result(1, NoVal)
          BY DEF LibResult, do_del, Mini, Reply
      <4>. QED
          BY <3>1, <4>1, <4>2, <4>3, ToldByReply, NotTold DEF MailOK
    <3>. QED
        BY <2>1, <2>3, <3>2 DEF Handles
  <2>5. CASE cache_only(r)
      BY <2>3, <2>5 DEF Handles
  <2>. QED
      BY <1>2, <2>4, <2>5 DEF parse_del, refuse_read_only
<1>. QED
    BY <1>1, <1>2 DEF parse_del

(* CAS and INCR: the cached value was replaced by what the request will    *)
(* make of the store, and the request is queued without an answer.         *)
LEMMA UpdateHandles ==
    ASSUME CacheOK, MailOK, NEW c \in Clients, NEW r \in Requests,
           NEW m \in [Keys -> MaybeValue], r.op \in {"CAS", "INCR"},
           ~cache_only(r), ~A!Refused(r), in_cache(r.key),
           cache_update(r.key, A!Effect(m, r)[r.key]),
           A!Effect(m, r)[r.key] \in Value,
           A!Answer(m, r).rc = 2,
           put_in_queue(c, r, FALSE)
    PROVE  Handles(c, r, m, Promise(m, r))
<1>1. cache_get(r.key)' = A!Effect(m, r)[r.key]
    BY RequestFields, CacheUpdateShows
<1>2. CASE queue' # queue /\ UNCHANGED inbox
    BY <1>1, <1>2, NotTold DEF Handles
<1>3. CASE MemFaults /\ reply(c, Mini("ERR_MEM"))
  <2>1. Mini("ERR_MEM") \in ReplyType
      BY ReplyTypes DEF Codes
  <2>2. LibResult(r.op, Mini("ERR_MEM")).rc = -1 /\ A!Anything.rc # 2
      BY DEF LibResult, do_cas, do_incr, Mini, Reply, Result, A!Anything
  <2>3. told_otherwise(c, r.op, Promise(m, r))
      BY <1>3, <2>1, <2>2, ToldByReply DEF MailOK, Promise
  <2>. QED
      BY <1>3, <2>3 DEF Handles
<1>. QED
    BY <1>2, <1>3, PutMeans DEF MailOK

(* The key is not cached and the request is left to the DB thread. *)
LEMMA MissHandles ==
    ASSUME CacheOK, MailOK, NEW c \in Clients, NEW r \in Requests,
           NEW m, ~A!Refused(r), ~in_cache(r.key), UNCHANGED cache,
           cache_only(r) \/ put_in_queue(c, r, FALSE)
    PROVE  Handles(c, r, m, Promise(m, r))
<1>1. ~in_cache(r.key)'
    BY DEF in_cache
<1>2. ~MemFaults /\ ~cache_only(r) => queue' # queue /\ UNCHANGED inbox
    BY PutMeans DEF MailOK
<1>. QED
    BY <1>1, <1>2, NotTold DEF Handles

(* The cache alone tells the client the truth: there is nothing to do. *)
LEMMA NoMatchHandles ==
    ASSUME CacheOK, MailOK, NEW c \in Clients, NEW r \in Requests,
           NEW m \in [Keys -> MaybeValue], Agrees(m, r.key), NEW rep \in ReplyType,
           ~A!Refused(r), UNCHANGED cache, answer_now(c, rep),
           MemFaults \/ cache_only(r)
               \/ (A!Effect(m, r) = m /\ LibResult(r.op, rep) = A!Answer(m, r))
    PROVE  Handles(c, r, m, Promise(m, r))
<1>1. in_cache(r.key)' = in_cache(r.key) /\ cache_get(r.key)' = cache_get(r.key)
    BY DEF in_cache, cache_get
<1>2. queue' = queue /\ reply(c, rep) /\ Promise(m, r) = A!Answer(m, r)
    BY DEF answer_now, Promise
<1>3. ~MemFaults /\ ~cache_only(r) => ~told_otherwise(c, r.op, Promise(m, r))
    BY <1>2, ToldByReply DEF MailOK
<1>. QED
    BY <1>1, <1>2, <1>3 DEF Handles, Agrees

LEMMA CasHandles ==
    ASSUME CacheOK, MailOK, NEW c \in Clients, NEW r \in Requests,
           NEW m \in [Keys -> MaybeValue], Agrees(m, r.key),
           r.op = "CAS", parse_cas(c, r)
    PROVE  Handles(c, r, m, Promise(m, r))
<1> DEFINE k == r.key
<1>1. CASE refuse_read_only(c)
    BY <1>1, RefusedHandles DEF Writes
<1>2. CASE ~read_only
  <2>1. k \in Keys /\ r.new \in Value /\ ~A!Refused(r)
      BY <1>2, RequestFields DEF A!Refused
  <2>2. in_cache(k) => cache_get(k) = m[k] /\ m[k] \in Value /\ m[k] # NoVal
      BY <2>1, CacheGetType, ReplyTypes DEF Agrees
  <2>3. \A code \in {"NOMATCH", "ERR_MEM", "OK", "NOTIN"} : Mini(code) \in ReplyType
      BY ReplyTypes DEF Codes
  <2>4. CASE in_cache(k) /\ cache_get(k) # r.val /\ answer_now(c, Mini("NOMATCH"))
             /\ UNCHANGED cache
    <3>1. LibResult(r.op, Mini("NOMATCH")) = Result(1, NoVal)
        BY DEF LibResult, do_cas, Mini, Reply
    <3>2. ~cache_only(r) => /\ A!Effect(m, r) = m
                            /\ A!Answer(m, r) = Result(1, NoVal)
        BY <2>2, <2>4, EffectIs, AnswerIs DEF walks
    <3>. QED
        BY <2>1, <2>3, <2>4, <3>1, <3>2, NoMatchHandles
  <2>5. CASE in_cache(k) /\ cache_get(k) = r.val /\ cache_update(k, r.new)
             /\ cache_only(r)
      BY <2>5 DEF Handles, Writes
  <2>6. CASE in_cache(k) /\ cache_get(k) = r.val /\ cache_update(k, r.new)
             /\ ~cache_only(r) /\ put_in_queue(c, r, FALSE)
    <3>1. A!Effect(m, r)[k] = r.new
        BY <2>2, <2>6, EffectIs
    <3>2. A!Answer(m, r) = Result(2, NoVal)
        BY <2>2, <2>6, AnswerIs DEF walks
    <3>3. A!Answer(m, r).rc = 2
        BY <3>2 DEF Result
    <3>. QED
        BY <2>1, <2>6, <3>1, <3>3, UpdateHandles
  <2>7. CASE MemFaults /\ answer_now(c, Mini("ERR_MEM")) /\ UNCHANGED cache
      BY <2>1, <2>3, <2>7, NoMatchHandles
  <2>8. CASE ~in_cache(k) /\ UNCHANGED cache
             /\ (cache_only(r) \/ put_in_queue(c, r, FALSE))
      BY <2>1, <2>8, MissHandles
  <2>. QED
      BY <1>2, <2>4, <2>5, <2>6, <2>7, <2>8 DEF parse_cas, refuse_read_only
<1>. QED
    BY <1>1, <1>2 DEF parse_cas

LEMMA IncrHandles ==
    ASSUME CacheOK, MailOK, NEW c \in Clients, NEW r \in Requests,
           NEW m \in [Keys -> MaybeValue], Agrees(m, r.key),
           r.op = "INCR", parse_incr(c, r)
    PROVE  Handles(c, r, m, Promise(m, r))
<1> DEFINE k == r.key
           new == incremented(cache_get(k), r.inc)
<1>1. CASE refuse_read_only(c)
    BY <1>1, RefusedHandles DEF Writes
<1>2. CASE ~read_only
  <2>1. k \in Keys /\ r.inc \in Int /\ ~A!Refused(r)
      BY <1>2, RequestFields DEF A!Refused
  <2>2. in_cache(k) => /\ cache_get(k) = m[k] /\ m[k] \in Value /\ m[k] # NoVal
                       /\ new \in Value
      BY <2>1, CacheGetType, ReplyTypes, IncrementedType DEF Agrees
  <2>3. \A code \in {"NOMATCH", "ERR_MEM", "OK", "NOTIN"} : Mini(code) \in ReplyType
      BY ReplyTypes DEF Codes
  <2>4. CASE in_cache(k) /\ ~nul_terminated(cache_get(k))
             /\ answer_now(c, Mini("NOMATCH")) /\ UNCHANGED cache
    <3>1. LibResult(r.op, Mini("NOMATCH")) = Result(1, NoVal)
        BY DEF LibResult, do_incr, Mini, Reply
    <3>2. ~cache_only(r) => /\ A!Effect(m, r) = m
                            /\ A!Answer(m, r) = Result(1, NoVal)
        BY <2>2, <2>4, EffectIs, AnswerIs DEF walks
    <3>. QED
        BY <2>1, <2>3, <2>4, <3>1, <3>2, NoMatchHandles
  <2>5. CASE in_cache(k) /\ cache_update(k, new) /\ cache_only(r)
      BY <2>5 DEF Handles, Writes
  <2>6. CASE in_cache(k) /\ nul_terminated(cache_get(k)) /\ cache_update(k, new)
             /\ ~cache_only(r) /\ put_in_queue(c, r, FALSE)
    <3>1. A!Effect(m, r)[k] = new
        BY <2>2, <2>6, EffectIs
    <3>2. A!Answer(m, r) = Result(2, Number(new.num))
        BY <2>2, <2>6, AnswerIs DEF walks
    <3>3. A!Answer(m, r).rc = 2
        BY <3>2 DEF Result
    <3>. QED
        BY <2>1, <2>2, <2>6, <3>1, <3>3, UpdateHandles
  <2>7. CASE MemFaults /\ answer_now(c, Mini("ERR_MEM")) /\ UNCHANGED cache
      BY <2>1, <2>3, <2>7, NoMatchHandles
  <2>8. CASE ~in_cache(k) /\ UNCHANGED cache
             /\ (cache_only(r) \/ put_in_queue(c, r, FALSE))
      BY <2>1, <2>8, MissHandles
  <2>. QED
      BY <1>2, <2>4, <2>5, <2>6, <2>7, <2>8 DEF parse_incr, refuse_read_only
<1>. QED
    BY <1>1, <1>2 DEF parse_incr

LEMMA WalkHandles ==
    ASSUME CacheOK, MailOK, NEW c \in Clients, NEW r \in Requests,
           NEW m \in [Keys -> MaybeValue], Agrees(m, r.key),
           walks(r), parse_walk(c, r)
    PROVE  Handles(c, r, m, Promise(m, r))
<1>1. A!Effect(m, r) = m /\ ~A!Refused(r)
    BY EffectIs, SameWords DEF walks, Writes, A!Refused
<1>2. in_cache(r.key)' = in_cache(r.key) /\ cache_get(r.key)' = cache_get(r.key)
    BY DEF parse_walk, in_cache, cache_get
<1>3. ~MemFaults => UNCHANGED inbox
    BY PutMeans DEF parse_walk, MailOK
<1>. QED
    BY <1>1, <1>2, <1>3, NotTold DEF Handles, Agrees

LEMMA RejectHandles ==
    ASSUME CacheOK, MailOK, NEW c \in Clients, NEW r \in Requests,
           NEW m \in [Keys -> MaybeValue], Agrees(m, r.key),
           r.op \in {"UNKNOWN", "OLDVERSION", "BROKEN"},
           answer_now(c, Mini(reject(r))), UNCHANGED cache
    PROVE  Handles(c, r, m, Promise(m, r))
<1>1. A!Effect(m, r) = m /\ ~A!Refused(r)
    BY EffectIs, SameWords DEF Writes, A!Refused
<1>2. ~cache_only(r) => A!Answer(m, r) = Result(-1, NoVal)
    BY AnswerIs DEF walks
<1>3. LibResult(r.op, Mini(reject(r))) = Result(-1, NoVal)
    BY DEF LibResult
<1>4. Mini(reject(r)) \in ReplyType
    BY ReplyTypes DEF Codes, reject
<1>. QED
    BY <1>1, <1>2, <1>3, <1>4, NoMatchHandles

(* Every handler does to the cache what it promises to do to the store. *)
LEMMA ParseHandles ==
    ASSUME CacheOK, MailOK, NEW c \in Clients, NEW r \in Requests,
           NEW m \in [Keys -> MaybeValue], Agrees(m, r.key), parse_message(c, r)
    PROVE  Handles(c, r, m, Promise(m, r))
<1>1. CASE r.op = "GET" /\ parse_get(c, r)
    BY <1>1, GetHandles
<1>2. CASE r.op = "SET" /\ parse_set(c, r)
    BY <1>2, SetHandles
<1>3. CASE r.op = "DEL" /\ parse_del(c, r)
    BY <1>3, DelHandles
<1>4. CASE r.op = "CAS" /\ parse_cas(c, r)
    BY <1>4, CasHandles
<1>5. CASE r.op = "INCR" /\ parse_incr(c, r)
    BY <1>5, IncrHandles
<1>6. CASE walks(r) /\ parse_walk(c, r)
    BY <1>6, WalkHandles
<1>7. CASE /\ r.op \in {"UNKNOWN", "OLDVERSION", "BROKEN"}
           /\ answer_now(c, Mini(reject(r))) /\ UNCHANGED cache
    BY <1>7, RejectHandles
<1>. QED
    BY <1>1, <1>2, <1>3, <1>4, <1>5, <1>6, <1>7 DEF parse_message, walks

(* No handler touches the cached value of another key, but to evict it. *)
LEMMA ParseOthers ==
    ASSUME CacheOK, NEW c \in Clients, NEW r \in Requests, parse_message(c, r)
    PROVE  OthersKept(r.key)
<1>1. /\ r.key \in Keys /\ r.inc \in Int
      /\ r.op = "SET" => r.val \in Value
      /\ r.op = "CAS" => r.new \in Value
    BY RequestFields
<1>2. CASE UNCHANGED cache
    BY <1>2 DEF OthersKept, in_cache, cache_get
<1>3. CASE r.op = "SET" /\ parse_set(c, r)
    BY <1>1, <1>2, <1>3, CacheSetShows, CacheSetFailsShows
       DEF parse_set, refuse_read_only
<1>4. CASE r.op = "DEL" /\ parse_del(c, r)
    BY <1>1, <1>2, <1>4, CacheDelShows DEF parse_del, refuse_read_only
<1>5. CASE r.op = "CAS" /\ parse_cas(c, r)
    BY <1>1, <1>2, <1>5, CacheUpdateShows DEF parse_cas, refuse_read_only
<1>6. CASE r.op = "INCR" /\ parse_incr(c, r)
  <2>1. in_cache(r.key) => incremented(cache_get(r.key), r.inc) \in Value
      BY <1>1, CacheGetType, IncrementedType
  <2>. QED
      BY <1>1, <1>2, <1>6, <2>1, CacheUpdateShows DEF parse_incr, refuse_read_only
<1>. QED
    BY <1>2, <1>3, <1>4, <1>5, <1>6 DEF parse_message, parse_get, parse_walk

-----------------------------------------------------------------------------
(* What the DB thread makes of the database, when that agrees with the     *)
(* store m on the request's key: it does what was promised, unless the     *)
(* client is told otherwise or nobody is told.                             *)
Carries(c, r, m) ==
    /\ (/\ ~told_otherwise(c, r.op, A!Answer(m, r))
        /\ owes_reply([cli |-> c, req |-> r]))
           => db'[r.key] = A!Effect(m, r)[r.key]
    /\ (~MemFaults /\ ~DbFaults)
           => /\ db'[r.key] = A!Effect(m, r)[r.key]
              /\ Backend # "leveldb" => ~told_otherwise(c, r.op, A!Answer(m, r))

LEMMA SetCarries ==
    ASSUME DbOK, InboxOK, Backend # "null", NEW c \in Clients, NEW r \in Requests,
           NEW m \in [Keys -> MaybeValue], db[r.key] = m[r.key], ~cache_only(r),
           r.op = "SET", process_set(c, r)
    PROVE  Carries(c, r, m)
<1>1. r.key \in Keys /\ Mini("OK") \in ReplyType /\ Mini("ERR_DB") \in ReplyType
    BY RequestFields, ReplyTypes DEF Codes
<1>2. A!Effect(m, r)[r.key] = r.val /\ A!Answer(m, r) = Result(1, NoVal)
    BY EffectIs, AnswerIs DEF walks
<1>3. /\ LibResult("SET", Mini("OK")) = Result(1, NoVal)
      /\ LibResult("SET", Mini("ERR_DB")) # Result(1, NoVal)
      /\ Result(1, NoVal) # A!Anything
    BY DEF LibResult, do_set, Mini, Reply, Result, A!Anything
<1>4. PICK rv \in {0, 1} :
          /\ db_set(r.key, r.val, rv)
          /\ IF sync(r) THEN reply(c, Mini(IF rv = 1 THEN "OK" ELSE "ERR_DB"))
                        ELSE UNCHANGED inbox
    BY DEF process_set
<1>5. CASE rv = 1
  <2>1. db'[r.key] = r.val
      BY <1>1, <1>4, <1>5 DEF db_set, DbOK
  <2>2. ~told_otherwise(c, r.op, A!Answer(m, r))
      BY <1>1, <1>2, <1>3, <1>4, <1>5, ToldByReply, NotTold DEF InboxOK
  <2>. QED
      BY <1>2, <2>1, <2>2 DEF Carries
<1>6. CASE rv = 0
  <2>1. DbFaults
      BY <1>4, <1>6 DEF db_set
  <2>2. sync(r) => told_otherwise(c, r.op, A!Answer(m, r))
      BY <1>1, <1>2, <1>3, <1>4, <1>6, ToldByReply DEF InboxOK
  <2>. QED
      BY <2>1, <2>2 DEF Carries, owes_reply
<1>. QED
    BY <1>5, <1>6

LEMMA DelCarries ==
    ASSUME DbOK, InboxOK, NEW c \in Clients, NEW r \in Requests,
           NEW m \in [Keys -> MaybeValue], db[r.key] = m[r.key], ~cache_only(r),
           r.op = "DEL", process_del(c, r)
    PROVE  Carries(c, r, m)
<1>1. r.key \in Keys /\ Mini("OK") \in ReplyType /\ Mini("NOTIN") \in ReplyType
    BY RequestFields, ReplyTypes DEF Codes
<1>2. /\ A!Effect(m, r)[r.key] = NoVal
      /\ A!Answer(m, r) =
            Result(IF sync(r) /\ db[r.key] = NoVal THEN 0 ELSE 1, NoVal)
    BY EffectIs, AnswerIs DEF walks
<1>3. /\ LibResult("DEL", Mini("OK")) = Result(1, NoVal)
      /\ LibResult("DEL", Mini("NOTIN")) = Result(0, NoVal)
      /\ Result(0, NoVal) # A!Anything /\ Result(1, NoVal) # A!Anything
      /\ Result(0, NoVal) # Result(1, NoVal)
    BY DEF LibResult, do_del, Mini, Reply, Result, A!Anything
<1>4. PICK rv \in {0, 1} :
          /\ db_del(r.key, rv)
          /\ IF sync(r) THEN reply(c, Mini(IF rv = 1 THEN "OK" ELSE "NOTIN"))
                        ELSE UNCHANGED inbox
    BY DEF process_del
<1>5. CASE rv = deleted(r.key) /\ db' = [db EXCEPT ![r.key] = NoVal]
  <2>1. db'[r.key] = NoVal
      BY <1>1, <1>5 DEF DbOK
  <2>2. Backend # "leveldb" => rv = IF db[r.key] # NoVal THEN 1 ELSE 0
      BY <1>5 DEF deleted
  <2>3. Backend # "leveldb" => ~told_otherwise(c, r.op, A!Answer(m, r))
    <3>1. CASE sync(r)
        BY <1>1, <1>2, <1>3, <1>4, <2>2, <3>1, ToldByReply DEF InboxOK
    <3>2. CASE ~sync(r)
        BY <1>4, <3>2, NotTold
    <3>. QED
        BY <3>1, <3>2
  <2>. QED
      BY <1>2, <2>1, <2>3 DEF Carries
<1>6. CASE DbFaults /\ rv = 0 /\ UNCHANGED db
  <2>1. ASSUME sync(r), db[r.key] # NoVal
        PROVE  told_otherwise(c, r.op, A!Answer(m, r))
      BY <1>1, <1>2, <1>3, <1>4, <1>6, <2>1, ToldByReply DEF InboxOK
  <2>. QED
      BY <1>2, <1>6, <2>1 DEF Carries, owes_reply
<1>. QED
    BY <1>4, <1>5, <1>6 DEF db_del

LEMMA GetCarries ==
    ASSUME DbOK, InboxOK, NEW c \in Clients, NEW r \in Requests,
           NEW m \in [Keys -> MaybeValue], db[r.key] = m[r.key], ~cache_only(r),
           r.op = "GET", process_get(c, r)
    PROVE  Carries(c, r, m)
<1>1. r.key \in Keys /\ db[r.key] \in MaybeValue /\ db' = db
    BY RequestFields DEF process_get, no_buffer, DbOK
<1>2. db'[r.key] = A!Effect(m, r)[r.key]
    BY <1>1, EffectIs DEF Writes
<1>3. ASSUME ~MemFaults, ~DbFaults
      PROVE  ~told_otherwise(c, r.op, A!Answer(m, r))
  <2> DEFINE rep == IF db[r.key] = NoVal THEN Mini("NOTIN") ELSE Reply("OK", db[r.key])
  <2>1. reply(c, rep)
      BY <1>3 DEF process_get, no_buffer, db_get
  <2>2. rep \in ReplyType
      BY <1>1, ReplyTypes DEF Codes
  <2>3. A!Answer(m, r) = IF db[r.key] = NoVal THEN Result(-1, NoVal)
                         ELSE Result(0, db[r.key])
      BY AnswerIs DEF walks
  <2>4. LibResult(r.op, rep) = A!Answer(m, r)
      BY <2>3 DEF LibResult, do_get, Mini, Reply
  <2> HIDE DEF rep
  <2>. QED
      BY <2>1, <2>2, <2>4, ToldByReply DEF InboxOK
<1>. QED
    BY <1>2, <1>3 DEF Carries

(* The write that ends a successful CAS or INCR. *)
LEMMA WriteBackCarries ==
    ASSUME DbOK, InboxOK, Backend # "null", NEW c \in Clients, NEW r \in Requests,
           NEW m \in [Keys -> MaybeValue], r.op \in {"CAS", "INCR"},
           NEW rep \in ReplyType, LibResult(r.op, rep) = A!Answer(m, r),
           A!Answer(m, r).rc = 2,
           write_back(c, r.key, A!Effect(m, r)[r.key], rep)
    PROVE  Carries(c, r, m)
<1> DEFINE v == A!Effect(m, r)[r.key]
<1>1. r.key \in Keys /\ Mini("ERR_DB") \in ReplyType
    BY RequestFields, ReplyTypes DEF Codes
<1>2. LibResult(r.op, Mini("ERR_DB")).rc = -1 /\ A!Anything.rc # 2
    BY DEF LibResult, do_cas, do_incr, Mini, Reply, Result, A!Anything
<1>3. PICK rv \in {0, 1} : /\ db_set(r.key, v, rv)
                           /\ reply(c, IF rv = 1 THEN rep ELSE Mini("ERR_DB"))
    BY DEF write_back
<1>4. CASE rv = 1
  <2>1. db'[r.key] = v
      BY <1>1, <1>3, <1>4 DEF db_set, DbOK
  <2>2. ~told_otherwise(c, r.op, A!Answer(m, r))
      BY <1>3, <1>4, ToldByReply DEF InboxOK
  <2>. QED
      BY <2>1, <2>2 DEF Carries
<1>5. CASE rv = 0
  <2>1. DbFaults
      BY <1>3, <1>5 DEF db_set
  <2>2. told_otherwise(c, r.op, A!Answer(m, r))
      BY <1>1, <1>2, <1>3, <1>5, ToldByReply DEF InboxOK
  <2>. QED
      BY <2>1, <2>2 DEF Carries
<1>. QED
    BY <1>4, <1>5

(* CAS and INCR that leave the database alone: right if the value is not   *)
(* to be changed, and an answer that differs from the promise otherwise.   *)
LEMMA LeftAloneCarries ==
    ASSUME DbOK, InboxOK, NEW c \in Clients, NEW r \in Requests,
           NEW m \in [Keys -> MaybeValue], db[r.key] = m[r.key],
           r.op \in {"CAS", "INCR"}, ~cache_only(r), UNCHANGED db,
           NEW rep \in ReplyType, reply(c, rep),
           LibResult(r.op, rep).rc # 2,
           MemFaults \/ DbFaults \/ LibResult(r.op, rep) = A!Answer(m, r)
    PROVE  Carries(c, r, m)
<1>1. r.key \in Keys /\ m[r.key] \in MaybeValue
    BY RequestFields
<1>2. told_otherwise(c, r.op, A!Answer(m, r))
          <=> /\ A!Answer(m, r) # A!Anything
              /\ LibResult(r.op, rep) # A!Answer(m, r)
    BY ToldByReply DEF InboxOK
<1>3. A!Anything.rc = -7 /\ \A n, d : Result(n, d).rc = n
    BY DEF A!Anything, Result
<1>4. CASE A!Effect(m, r) = m
    BY <1>2, <1>4 DEF Carries
<1>5. CASE A!Effect(m, r) # m
  <2>1. A!Answer(m, r).rc = 2
    <3>1. CASE r.op = "CAS"
      <4>1. m[r.key] = r.val /\ m[r.key] # NoVal
          BY <1>5, <3>1, EffectIs, RequestsAssumption, ReplyTypes DEF WellFormed
      <4>2. A!Answer(m, r) = Result(2, NoVal)
          BY <3>1, <4>1, AnswerIs DEF walks
      <4>. QED
          BY <1>3, <4>2
    <3>2. CASE r.op = "INCR"
      <4>1. m[r.key] # NoVal /\ nul_terminated(m[r.key])
          BY <1>5, <3>2, EffectIs
      <4>2. A!Answer(m, r) = Result(2, Number(incremented(m[r.key], r.inc).num))
          BY <3>2, <4>1, AnswerIs DEF walks
      <4>. QED
          BY <1>3, <4>2
    <3>. QED
        BY <3>1, <3>2
  <2>. QED
      BY <1>2, <1>3, <2>1 DEF Carries
<1>. QED
    BY <1>4, <1>5

LEMMA NoBufferCarries ==
    ASSUME DbOK, InboxOK, NEW c \in Clients, NEW r \in Requests,
           NEW m \in [Keys -> MaybeValue], db[r.key] = m[r.key],
           r.op \in {"CAS", "INCR"}, ~cache_only(r), no_buffer(c)
    PROVE  Carries(c, r, m)
<1>1. Mini("ERR_MEM") \in ReplyType
    BY ReplyTypes DEF Codes
<1>2. LibResult(r.op, Mini("ERR_MEM")).rc # 2
    BY DEF LibResult, do_cas, do_incr, Mini, Reply, Result
<1>. QED
    BY <1>1, <1>2, LeftAloneCarries DEF no_buffer

LEMMA CasCarries ==
    ASSUME DbOK, InboxOK, Backend # "null", NEW c \in Clients, NEW r \in Requests,
           NEW m \in [Keys -> MaybeValue], db[r.key] = m[r.key], ~cache_only(r),
           r.op = "CAS", process_cas(c, r)
    PROVE  Carries(c, r, m)
<1>1. \A code \in {"OK", "NOTIN", "NOMATCH"} : Mini(code) \in ReplyType
    BY ReplyTypes DEF Codes
<1>2. /\ LibResult("CAS", Mini("OK")) = Result(2, NoVal)
      /\ LibResult("CAS", Mini("NOTIN")) = Result(0, NoVal)
      /\ LibResult("CAS", Mini("NOMATCH")) = Result(1, NoVal)
      /\ \A n, d : Result(n, d).rc = n
    BY DEF LibResult, do_cas, Mini, Reply, Result
<1>3. A!Answer(m, r) = Result(IF db[r.key] = NoVal THEN 0
                              ELSE IF db[r.key] = r.val THEN 2 ELSE 1, NoVal)
    BY AnswerIs DEF walks
<1>4. r.val # NoVal /\ db[r.key] = r.val => A!Effect(m, r)[r.key] = r.new
    BY EffectIs, ZenonT(40)
<1>5. r.val # NoVal
    BY RequestsAssumption, ReplyTypes DEF WellFormed
<1>6. CASE no_buffer(c)
    BY <1>6, NoBufferCarries
<1>7. ASSUME NEW got \in {db[r.key], NoVal}, db_get(r.key, got), got = NoVal,
             reply(c, Mini("NOTIN")), UNCHANGED db
      PROVE  Carries(c, r, m)
  <2>1. DbFaults \/ db[r.key] = NoVal
      BY <1>7 DEF db_get
  <2>. QED
      BY <1>1, <1>2, <1>3, <1>7, <2>1, LeftAloneCarries
<1>8. ASSUME NEW got \in {db[r.key], NoVal}, db_get(r.key, got), got = r.val,
             write_back(c, r.key, r.new, Mini("OK"))
      PROVE  Carries(c, r, m)
  <2>1. db[r.key] = r.val
      BY <1>5, <1>8
  <2>. QED
      BY <1>1, <1>2, <1>3, <1>4, <1>5, <1>8, <2>1, WriteBackCarries
<1>9. ASSUME NEW got \in {db[r.key], NoVal}, got \notin {NoVal, r.val},
             reply(c, Mini("NOMATCH")), UNCHANGED db
      PROVE  Carries(c, r, m)
  <2>1. db[r.key] \notin {NoVal, r.val}
      BY <1>9
  <2>. QED
      BY <1>1, <1>2, <1>3, <1>9, <2>1, LeftAloneCarries
<1>. QED
    BY <1>6, <1>7, <1>8, <1>9 DEF process_cas

LEMMA IncrCarries ==
    ASSUME DbOK, InboxOK, Backend # "null", NEW c \in Clients, NEW r \in Requests,
           NEW m \in [Keys -> MaybeValue], db[r.key] = m[r.key], ~cache_only(r),
           r.op = "INCR", process_incr(c, r)
    PROVE  Carries(c, r, m)
<1> DEFINE old == db[r.key]
           new == incremented(old, r.inc)
<1>1. Mini("NOTIN") \in ReplyType /\ Mini("NOMATCH") \in ReplyType
    BY ReplyTypes DEF Codes
<1>2. /\ LibResult("INCR", Mini("NOTIN")) = Result(0, NoVal)
      /\ LibResult("INCR", Mini("NOMATCH")) = Result(1, NoVal)
      /\ \A d : LibResult("INCR", Reply("OK", d)) = Result(2, d)
      /\ \A n, d : Result(n, d).rc = n
    BY DEF LibResult, do_incr, Mini, Reply, Result
<1>3. A!Answer(m, r) = IF old = NoVal THEN Result(0, NoVal)
                       ELSE IF ~nul_terminated(old) THEN Result(1, NoVal)
                       ELSE Result(2, Number(new.num))
    BY AnswerIs DEF walks
<1>4. old # NoVal /\ nul_terminated(old) => A!Effect(m, r)[r.key] = new
    BY EffectIs
<1>5. old # NoVal => Reply("OK", Number(new.num)) \in ReplyType
  <2>1. r.key \in Keys /\ r.inc \in Int /\ old \in MaybeValue
      BY RequestFields DEF DbOK
  <2>2. old # NoVal => new \in Value
      BY <2>1, IncrementedType DEF MaybeValue
  <2>. QED
      BY <2>2, ReplyTypes DEF Value, Codes
<1>6. CASE no_buffer(c)
    BY <1>6, NoBufferCarries
<1>7. ASSUME NEW got \in {old, NoVal}, db_get(r.key, got), got = NoVal,
             reply(c, Mini("NOTIN")), UNCHANGED db
      PROVE  Carries(c, r, m)
  <2>1. DbFaults \/ old = NoVal
      BY <1>7 DEF db_get
  <2>. QED
      BY <1>1, <1>2, <1>3, <1>7, <2>1, LeftAloneCarries
<1>8. ASSUME NEW got \in {old, NoVal}, got # NoVal, ~nul_terminated(got),
             reply(c, Mini("NOMATCH")), UNCHANGED db
      PROVE  Carries(c, r, m)
  <2>1. old # NoVal /\ ~nul_terminated(old)
      BY <1>8
  <2>. QED
      BY <1>1, <1>2, <1>3, <1>8, <2>1, LeftAloneCarries
<1>9. ASSUME NEW got \in {old, NoVal}, got # NoVal, nul_terminated(got),
             write_back(c, r.key, incremented(got, r.inc),
                        Reply("OK", Number(incremented(got, r.inc).num)))
      PROVE  Carries(c, r, m)
  <2>1. got = old
      BY <1>9
  <2>. QED
      BY <1>2, <1>3, <1>4, <1>5, <1>9, <2>1, WriteBackCarries
<1>. QED
    BY <1>6, <1>7, <1>8, <1>9 DEF process_incr

(* The DB thread does to the database what the cache was promised, and to  *)
(* no other key.                                                           *)
LEMMA ProcessCarries ==
    ASSUME DbOK, InboxOK, Backend # "null", process_op,
           queue \in Seq(QueueEntry),
           NEW c, NEW r, c = Head(queue).cli, r = Head(queue).req,
           NEW m \in [Keys -> MaybeValue], db[r.key] = m[r.key],
           cache_only(r) => walks(r)
    PROVE  Carries(c, r, m)
<1>1. c \in Clients /\ r \in Requests
  <2>1. Head(queue) \in QueueEntry
      BY DEF process_op
  <2>. QED
      BY <2>1 DEF QueueEntry
<1>2. CASE r.op = "SET" /\ process_set(c, r)
    BY <1>1, <1>2, SetCarries DEF walks
<1>3. CASE r.op = "DEL" /\ process_del(c, r)
    BY <1>1, <1>3, DelCarries DEF walks
<1>4. CASE r.op = "GET" /\ process_get(c, r)
    BY <1>1, <1>4, GetCarries DEF walks
<1>5. CASE r.op = "CAS" /\ process_cas(c, r)
    BY <1>1, <1>5, CasCarries DEF walks
<1>6. CASE r.op = "INCR" /\ process_incr(c, r)
    BY <1>1, <1>6, IncrCarries DEF walks
<1>7. CASE walks(r) /\ UNCHANGED db
  <2>1. A!Effect(m, r) = m /\ A!Answer(m, r) = A!Anything
      BY <1>1, <1>7, EffectIs, AnswerIs DEF walks, Writes
  <2>. QED
      BY <1>7, <2>1 DEF Carries, told_otherwise
<1>. QED
    BY <1>2, <1>3, <1>4, <1>5, <1>6, <1>7 DEF process_op, process_walk, walks

LEMMA ProcessOthers ==
    ASSUME DbOK, process_op, NEW j \in Keys, j # Head(queue).req.key
    PROVE  db'[j] = db[j]
<1> DEFINE c == Head(queue).cli
           r == Head(queue).req
<1>1. \A v, rv : db_set(r.key, v, rv) => db'[j] = db[j]
    BY DEF db_set, DbOK
<1>2. CASE process_set(c, r)
    BY <1>1, <1>2 DEF process_set
<1>3. CASE process_del(c, r)
    BY <1>3 DEF process_del, db_del, DbOK
<1>4. CASE process_get(c, r)
    BY <1>4 DEF process_get, no_buffer
<1>5. CASE process_cas(c, r)
    BY <1>1, <1>5 DEF process_cas, no_buffer, write_back
<1>6. CASE process_incr(c, r)
    BY <1>1, <1>6 DEF process_incr, no_buffer, write_back
<1>7. CASE \E found : process_walk(c, found)
    BY <1>7 DEF process_walk
<1>. QED
    BY <1>2, <1>3, <1>4, <1>5, <1>6, <1>7 DEF process_op

-----------------------------------------------------------------------------
(* The inductive invariant. *)

LEMMA LastOf ==
    ASSUME NEW S, NEW s \in Seq(S), NEW x \in S
    PROVE  /\ Last(Append(s, x)) = x
           /\ Len(s) >= 1 => Last(s) = s[Len(s)] /\ Last(s) \in S
           /\ Len(s) >= 2 => Last(Tail(s)) = Last(s)
<1>1. Last(Append(s, x)) = x
    BY DEF Last
<1>2. Len(s) >= 1 => Last(s) = s[Len(s)] /\ Last(s) \in S
    BY DEF Last
<1>3. ASSUME Len(s) >= 2 PROVE Last(Tail(s)) = Last(s)
  <2>1. Len(Tail(s)) = Len(s) - 1 /\ Tail(s)[Len(s) - 1] = s[Len(s)]
      BY <1>3
  <2>. QED
      BY <2>1 DEF Last
<1>. QED
    BY <1>1, <1>2, <1>3

(* Only what must reach the database is queued. *)
LEMMA ParseQueues ==
    ASSUME queue \in Seq(QueueEntry), NEW c \in Clients, NEW r \in Requests,
           parse_message(c, r), queue' # queue
    PROVE  (cache_only(r) => walks(r)) /\ ~A!Refused(r)
<1>1. CASE r.op = "GET" /\ parse_get(c, r)
    BY <1>1, SameWords DEF parse_get, answer_now, A!Refused, Writes
<1>2. CASE r.op = "SET" /\ parse_set(c, r)
    BY <1>2 DEF parse_set, answer_now, A!Refused, refuse_read_only
<1>3. CASE r.op = "DEL" /\ parse_del(c, r)
    BY <1>3 DEF parse_del, answer_now, A!Refused, refuse_read_only
<1>4. CASE r.op = "CAS" /\ parse_cas(c, r)
    BY <1>4 DEF parse_cas, answer_now, A!Refused, refuse_read_only
<1>5. CASE r.op = "INCR" /\ parse_incr(c, r)
    BY <1>5 DEF parse_incr, answer_now, A!Refused, refuse_read_only
<1>6. CASE walks(r)
    BY <1>6, SameWords DEF walks, A!Refused, Writes
<1>. QED
    BY <1>1, <1>2, <1>3, <1>4, <1>5, <1>6 DEF parse_message, answer_now, walks

(* How the history variables follow a request. *)
LEMMA CallSnaps ==
    ASSUME LInv, NEW c \in Clients, NEW r \in Requests, LCall(c, r)
    PROVE  /\ store \in [Keys -> MaybeValue]
           /\ pend'[c] = Promise(store, r) /\ pend' \in [Clients -> ResultType]
           /\ pend'[c] # A!NoPend
           /\ \A d \in Clients : d # c => pend'[d] = pend[d]
           /\ store' = IF queue' = queue THEN store ELSE A!Effect(store, r)
           /\ \/ queue' = queue /\ snap' = snap
              \/ /\ queue' # queue /\ queue' = Append(queue, [cli |-> c, req |-> r])
                 /\ snap' = Append(snap, A!Effect(store, r))
<1>1. /\ snap \in Seq([Keys -> MaybeValue]) /\ Len(snap) = Len(queue) + 1
      /\ pend \in [Clients -> ResultType] /\ queue \in Seq(QueueEntry)
    BY DEF LInv, Snapshots, Promises, ReplyInv, TypeInv, TypeOK
<1>2. store \in [Keys -> MaybeValue]
    BY <1>1, LastOf DEF store
<1>3. A!Effect(store, r) \in [Keys -> MaybeValue]
    BY <1>2, EffectIs
<1>4. /\ A!Answer(store, r) \in ResultType /\ A!Answer(store, r) # A!NoPend
      /\ Result(-1, NoVal) \in ResultType /\ Result(-1, NoVal) # A!NoPend
    BY <1>2, AnswerIs, ReplyTypes DEF Result, ResultType, A!NoPend
<1>5. pend' = [pend EXCEPT ![c] = Promise(store, r)]
    BY DEF LCall, Promise
<1>6. AnswersOnce(c, r)
    BY ParseAnswersOnce DEF LCall
<1>7. \/ queue' = queue /\ snap' = snap
      \/ /\ queue' # queue /\ queue' = Append(queue, [cli |-> c, req |-> r])
         /\ snap' = Append(snap, A!Effect(store, r))
    BY <1>6 DEF AnswersOnce, LCall
<1>8. store' = IF queue' = queue THEN store ELSE A!Effect(store, r)
  <2>1. CASE queue' = queue
      BY <1>7, <2>1 DEF store
  <2>2. CASE queue' # queue
    <3>1. Last(Append(snap, A!Effect(store, r))) = A!Effect(store, r)
        BY <1>1, <1>3, LastOf
    <3>. QED
        BY <1>7, <2>2, <3>1 DEF store
  <2>. QED
      BY <2>1, <2>2
<1>. QED
    BY <1>1, <1>2, <1>4, <1>5, <1>7, <1>8 DEF Promise

LEMMA CallSnapshots ==
    ASSUME LInv, NEW c \in Clients, NEW r \in Requests, LCall(c, r)
    PROVE  Snapshots' /\ QueuedReachDb' /\ snap'[1] = snap[1]
<1> DEFINE e == [cli |-> c, req |-> r]
           n == Len(queue)
<1>1. /\ snap \in Seq([Keys -> MaybeValue]) /\ Len(snap) = n + 1
      /\ \A i \in 1..n : snap[i + 1] = A!Effect(snap[i], queue[i].req)
      /\ \A i \in 1..n : cache_only(queue[i].req) => walks(queue[i].req)
      /\ queue \in Seq(QueueEntry) /\ n \in Nat
    BY DEF LInv, Snapshots, QueuedReachDb, ReplyInv, TypeInv, TypeOK
<1>2. CASE queue' = queue /\ snap' = snap
    BY <1>1, <1>2 DEF Snapshots, QueuedReachDb
<1>3. CASE /\ queue' # queue /\ queue' = Append(queue, e)
           /\ snap' = Append(snap, A!Effect(store, r))
  <2>1. store = snap[n + 1] /\ store \in [Keys -> MaybeValue]
        /\ A!Effect(store, r) \in [Keys -> MaybeValue]
      BY <1>1, CallSnaps, EffectIs DEF store, Last
  <2>2. e \in QueueEntry /\ e.req = r
      BY DEF QueueEntry
  <2>3. /\ Len(queue') = n + 1 /\ queue'[n + 1] = e
        /\ \A i \in 1..n : queue'[i] = queue[i]
      BY <1>1, <1>3, <2>2
  <2>4. /\ snap' \in Seq([Keys -> MaybeValue]) /\ Len(snap') = n + 2
        /\ snap'[n + 2] = A!Effect(store, r)
        /\ \A i \in 1..(n + 1) : snap'[i] = snap[i]
      BY <1>1, <1>3, <2>1
  <2>5. cache_only(r) => walks(r)
      BY <1>1, <1>3, ParseQueues DEF LCall
  <2>6. \A i \in 1..(n + 1) : i \in 1..n \/ i = n + 1
      BY <1>1
  <2>7. ASSUME NEW i \in 1..(n + 1)
        PROVE  /\ snap'[i + 1] = A!Effect(snap'[i], queue'[i].req)
               /\ cache_only(queue'[i].req) => walks(queue'[i].req)
    <3>1. CASE i \in 1..n
      <4>1. i + 1 \in 1..(n + 1) /\ i \in 1..(n + 1)
          BY <1>1, <3>1
      <4>. QED
          BY <1>1, <2>3, <2>4, <3>1, <4>1
    <3>2. CASE i = n + 1
      <4>1. snap'[i] = store /\ queue'[i].req = r /\ snap'[i + 1] = A!Effect(store, r)
          BY <1>1, <2>1, <2>2, <2>3, <2>4, <3>2
      <4>. QED
          BY <2>5, <4>1
    <3>. QED
        BY <2>6, <3>1, <3>2
  <2>. QED
      BY <1>1, <2>3, <2>4, <2>7 DEF Snapshots, QueuedReachDb
<1>. QED
    BY <1>2, <1>3, CallSnaps

(* An idle client is owed nothing, so its call takes nobody's promise. *)
LEMMA CallPromises ==
    ASSUME LInv, NEW c \in Clients, NEW r \in Requests, LCall(c, r)
    PROVE  Promises'
<1> DEFINE e == [cli |-> c, req |-> r]
           n == Len(queue)
<1>1. /\ snap \in Seq([Keys -> MaybeValue]) /\ Len(snap) = n + 1
      /\ queue \in Seq(QueueEntry) /\ n \in Nat
      /\ wait \in [Clients -> Requests \cup {NoReq}]
    BY DEF LInv, Snapshots, ReplyInv, TypeInv, TypeOK
<1>2. /\ wait[c] = NoReq /\ wait' = [wait EXCEPT ![c] = r] /\ r # NoReq
  <2>1. r # NoReq
      BY RequestsAssumption DEF RequestType, NoReq, Ops
  <2>. QED
      BY <2>1 DEF LCall, parse_message
<1>3. owed(c) = {}
    BY <1>2 DEF LInv, ReplyInv, OneReplyOwed
<1>4. \A d \in Clients : wait'[d] = NoReq <=> pend'[d] = A!NoPend
    BY <1>1, <1>2, CallSnaps DEF LInv, Promises
<1>5. ASSUME NEW i \in 1..n, owes_reply(queue[i])
      PROVE  pend'[queue[i].cli] = A!Answer(snap[i], queue[i].req)
  <2>1. queue[i] \in QueueEntry
      BY <1>1
  <2>2. queue[i].cli \in Clients /\ queue[i].cli # c
      BY <1>1, <1>3, <1>5, <2>1 DEF owed, QueueEntry
  <2>. QED
      BY <1>5, <2>2, CallSnaps DEF LInv, Promises
<1>6. CASE queue' = queue /\ snap' = snap
    BY <1>4, <1>5, <1>6, CallSnaps DEF Promises
<1>7. CASE /\ queue' # queue /\ queue' = Append(queue, e)
           /\ snap' = Append(snap, A!Effect(store, r))
  <2>1. store = snap[n + 1] /\ store \in [Keys -> MaybeValue]
        /\ A!Effect(store, r) \in [Keys -> MaybeValue]
      BY <1>1, CallSnaps, EffectIs DEF store, Last
  <2>2. e \in QueueEntry /\ e.req = r /\ e.cli = c
      BY DEF QueueEntry
  <2>3. /\ Len(queue') = n + 1 /\ queue'[n + 1] = e
        /\ \A i \in 1..n : queue'[i] = queue[i]
      BY <1>1, <1>7, <2>2
  <2>4. \A i \in 1..(n + 1) : snap'[i] = snap[i]
      BY <1>1, <1>7, <2>1
  <2>5. pend'[c] = A!Answer(store, r)
      BY <1>1, <1>7, ParseQueues, CallSnaps DEF LCall, Promise
  <2>6. ASSUME NEW i \in 1..(n + 1), owes_reply(queue'[i])
        PROVE  pend'[queue'[i].cli] = A!Answer(snap'[i], queue'[i].req)
    <3>1. CASE i \in 1..n
        BY <1>5, <2>3, <2>4, <2>6, <3>1
    <3>2. CASE i = n + 1
        BY <2>1, <2>2, <2>3, <2>4, <2>5, <3>2
    <3>. QED
        BY <1>1, <3>1, <3>2
  <2>. QED
      BY <1>4, <2>3, <2>6, CallSnaps DEF Promises
<1>. QED
    BY <1>6, <1>7, CallSnaps

(* A promise is broken only by the step that answers. *)
LEMMA CallBreaks ==
    ASSUME LInv, ReplyInv', NEW c \in Clients, NEW r \in Requests, LCall(c, r),
           NEW d \in Clients, Broken(d)'
    PROVE  \/ Broken(d) /\ wait'[d] = wait[d]
           \/ wait'[d] = r /\ told_otherwise(c, r.op, pend'[c])
<1>1. /\ wait[c] = NoReq /\ wait' = [wait EXCEPT ![c] = r] /\ r # NoReq
      /\ wait \in [Clients -> Requests \cup {NoReq}]
      /\ inbox \in [Clients -> Seq(ReplyType)]
  <2>1. r # NoReq
      BY RequestsAssumption DEF RequestType, NoReq, Ops
  <2>. QED
      BY <2>1 DEF LCall, parse_message, LInv, ReplyInv, TypeInv, TypeOK
<1>2. \A q \in Clients : q # c => inbox'[q] = inbox[q]
  <2>1. AnswersOnce(c, r)
      BY ParseAnswersOnce DEF LCall
  <2>. QED
      BY <1>1, <2>1, ReplyAppends DEF AnswersOnce, answers
<1>3. CASE d # c
  <2>1. wait'[d] = wait[d] /\ inbox'[d] = inbox[d] /\ pend'[d] = pend[d]
      BY <1>1, <1>2, <1>3, CallSnaps
  <2>. QED
      BY <2>1 DEF Broken
<1>4. CASE d = c
  <2>1. wait'[c] = r /\ inbox[c] = <<>> /\ inbox'[c] # <<>>
      BY <1>1, <1>4 DEF LInv, ReplyInv, OneReplyOwed, Broken
  <2>2. Len(inbox'[c]) = 1
      BY <1>1, <2>1 DEF ReplyInv, OneReplyOwed
  <2>3. inbox'[c] # inbox[c] /\ Last(inbox'[c]) = inbox'[c][1]
      BY <2>1, <2>2 DEF Last
  <2>. QED
      BY <1>4, <2>1, <2>3 DEF told_otherwise, Broken
<1>. QED
    BY <1>3, <1>4

(* The cache and the database agree with the store on the unspoilt keys. *)
LEMMA CallAgrees ==
    ASSUME LInv, NEW c \in Clients, NEW r \in Requests, LCall(c, r)
    PROVE  OnlyAsyncFailsSilently'
<1>1. CacheOK /\ MailOK
    BY CacheOKMeans DEF LInv, ReplyInv, TypeInv, TypeOK, MailOK
<1>2. db' = db /\ snap'[1] = snap[1] /\ spoilt \subseteq spoilt'
    BY CallSnapshots DEF LCall, parse_message
<1>3. OthersKept(r.key)
    BY <1>1, ParseOthers DEF LCall
<1>4. /\ store \in [Keys -> MaybeValue] /\ pend'[c] = Promise(store, r)
      /\ store' = IF queue' = queue THEN store ELSE A!Effect(store, r)
    BY CallSnaps
<1>5. ASSUME NEW k \in Keys \ spoilt', in_cache(k)'
      PROVE  cache_get(k)' = store'[k]
  <2>1. CASE k # r.key
    <3>1. in_cache(k) /\ cache_get(k)' = cache_get(k)
        BY <1>3, <1>5, <2>1 DEF OthersKept
    <3>2. cache_get(k) = store[k]
        BY <1>2, <3>1 DEF LInv, OnlyAsyncFailsSilently
    <3>3. store'[k] = store[k]
        BY <1>4, <2>1, EffectIs
    <3>. QED
        BY <3>1, <3>2, <3>3
  <2>2. CASE k = r.key
    <3>1. Agrees(store, r.key)
        BY <1>2, <2>2 DEF Agrees, LInv, OnlyAsyncFailsSilently
    <3>2. Handles(c, r, store, pend'[c])
      <4>1. parse_message(c, r)
          BY DEF LCall
      <4>2. Handles(c, r, store, Promise(store, r))
          BY <1>1, <1>4, <3>1, <4>1, ParseHandles
      <4>. QED
          BY <1>4, <4>2
    <3>3. /\ ~told_otherwise(c, r.op, pend'[c])
          /\ ~(cache_only(r) /\ r.op \in Writes)
        BY <2>2 DEF LCall
    <3>. QED
        BY <1>5, <1>4, <2>2, <3>2, <3>3 DEF Handles
  <2>. QED
      BY <2>1, <2>2
<1>. QED
    BY <1>2, <1>5 DEF LInv, OnlyAsyncFailsSilently

(* What the DB thread finds when it takes the head of the queue. *)
LEMMA HeadOfQueue ==
    ASSUME LInv, LProcess
    PROVE  /\ queue \in Seq(QueueEntry) /\ Len(queue) \in Nat \ {0}
           /\ Head(queue) = queue[1]
           /\ queue[1].cli \in Clients /\ queue[1].req \in Requests
           /\ Len(queue') = Len(queue) - 1
           /\ \A i \in 1..(Len(queue) - 1) : queue'[i] = queue[i + 1]
           /\ snap' \in Seq([Keys -> MaybeValue]) /\ Len(snap') = Len(queue)
           /\ \A i \in 1..Len(queue) : snap'[i] = snap[i + 1]
           /\ snap[1] \in [Keys -> MaybeValue]
           /\ store' = store
<1>1. /\ queue \in Seq(QueueEntry) /\ queue # <<>> /\ queue' = Tail(queue)
      /\ snap \in Seq([Keys -> MaybeValue]) /\ Len(snap) = Len(queue) + 1
      /\ snap' = Tail(snap)
    BY DEF LInv, Snapshots, ReplyInv, TypeInv, TypeOK, LProcess, process_op
<1>2. /\ Len(queue) \in Nat \ {0} /\ Head(queue) = queue[1]
      /\ Len(queue') = Len(queue) - 1
      /\ \A i \in 1..(Len(queue) - 1) : queue'[i] = queue[i + 1]
    BY <1>1
<1>3. queue[1] \in QueueEntry
    BY <1>1, <1>2
<1>4. snap # <<>>
    BY <1>1, <1>2
<1>5. /\ snap' \in Seq([Keys -> MaybeValue]) /\ Len(snap') = Len(queue)
      /\ \A i \in 1..Len(queue) : snap'[i] = snap[i + 1]
      /\ snap[1] \in [Keys -> MaybeValue]
    BY <1>1, <1>2, <1>4
<1>6. store' = store
  <2>1. Len(snap) >= 2 /\ snap[1] \in [Keys -> MaybeValue]
      BY <1>1, <1>2, <1>5
  <2>. QED
      BY <1>1, <2>1, LastOf DEF store
<1>. QED
    BY <1>1, <1>2, <1>3, <1>5, <1>6 DEF QueueEntry

LEMMA ProcessHistory ==
    ASSUME LInv, LProcess
    PROVE  Snapshots' /\ QueuedReachDb' /\ Promises'
<1> DEFINE n == Len(queue)
<1>1. /\ n \in Nat \ {0} /\ Len(queue') = n - 1
      /\ \A i \in 1..(n - 1) : queue'[i] = queue[i + 1]
      /\ snap' \in Seq([Keys -> MaybeValue]) /\ Len(snap') = n
      /\ \A i \in 1..n : snap'[i] = snap[i + 1]
    BY HeadOfQueue
<1>2. ASSUME NEW i \in 1..(n - 1)
      PROVE  /\ snap'[i + 1] = A!Effect(snap'[i], queue'[i].req)
             /\ cache_only(queue'[i].req) => walks(queue'[i].req)
             /\ owes_reply(queue'[i]) =>
                   pend[queue'[i].cli] = A!Answer(snap'[i], queue'[i].req)
  <2> DEFINE j == i + 1
  <2>1. i \in 1..n /\ j \in 1..n
      BY <1>1
  <2>2. snap'[i] = snap[j] /\ snap'[j] = snap[j + 1] /\ queue'[i] = queue[j]
      BY <1>1, <2>1
  <2> HIDE DEF j
  <2>3. /\ snap[j + 1] = A!Effect(snap[j], queue[j].req)
        /\ cache_only(queue[j].req) => walks(queue[j].req)
        /\ owes_reply(queue[j]) =>
              pend[queue[j].cli] = A!Answer(snap[j], queue[j].req)
      BY <2>1 DEF LInv, Snapshots, QueuedReachDb, Promises
  <2>4. snap'[j] = A!Effect(snap'[i], queue'[i].req)
      BY <2>2, <2>3
  <2>. QED
      BY <2>2, <2>3, <2>4 DEF j
<1>3. pend' = pend /\ wait' = wait
    BY DEF LProcess, process_op
<1>4. Snapshots' /\ QueuedReachDb'
  <2>1. /\ \A i \in 1..Len(queue') : snap'[i + 1] = A!Effect(snap'[i], queue'[i].req)
        /\ \A i \in 1..Len(queue') : cache_only(queue'[i].req) => walks(queue'[i].req)
      BY <1>1, <1>2
  <2>2. Len(snap') = Len(queue') + 1
      BY <1>1
  <2>. QED
      BY <1>1, <2>1, <2>2 DEF Snapshots, QueuedReachDb
<1>5. \A i \in 1..Len(queue') :
         owes_reply(queue'[i]) =>
             pend'[queue'[i].cli] = A!Answer(snap'[i], queue'[i].req)
    BY <1>1, <1>2, <1>3
<1>6. /\ pend' \in [Clients -> ResultType]
      /\ \A c \in Clients : wait'[c] = NoReq <=> pend'[c] = A!NoPend
    BY <1>3 DEF LInv, Promises
<1>. QED
    BY <1>4, <1>5, <1>6 DEF Promises

LEMMA ProcessBreaks ==
    ASSUME LInv, ReplyInv', LProcess, NEW d \in Clients, Broken(d)'
    PROVE  \/ Broken(d) /\ wait'[d] = wait[d]
           \/ LET e == Head(queue)
              IN  /\ wait'[d] = e.req /\ owes_reply(e)
                  /\ told_otherwise(e.cli, e.req.op, pend[e.cli])
<1> DEFINE e == Head(queue)
<1>1. /\ queue \in Seq(QueueEntry) /\ queue # <<>> /\ queue' = Tail(queue)
      /\ inbox \in [Clients -> Seq(ReplyType)] /\ e.cli \in Clients
    BY HeadOfQueue DEF LInv, ReplyInv, TypeInv, TypeOK, LProcess, process_op
<1>2. pend' = pend /\ wait' = wait
    BY DEF LProcess, process_op
<1>3. CASE inbox'[d] = inbox[d]
    BY <1>2, <1>3 DEF Broken
<1>4. CASE inbox'[d] # inbox[d]
  <2>1. d = e.cli /\ owes_reply(e)
    <3>1. IF owes_reply(e) THEN answers(e.cli) ELSE UNCHANGED inbox
        BY ProcessAnswersOnce DEF LProcess
    <3>. QED
        BY <1>1, <1>4, <3>1, ReplyAppends DEF answers
  <2>2. 1 \in owed(d)
      BY <1>1, <2>1, OwedAfterTake
  <2>3. wait[d] # NoReq /\ inbox[d] = <<>> /\ queue[1].req = wait[d]
      BY <2>2 DEF LInv, ReplyInv, OneReplyOwed
  <2>4. Len(inbox'[d]) = 1
      BY <1>2, <2>3 DEF ReplyInv, OneReplyOwed, Broken
  <2>5. Last(inbox'[d]) = inbox'[d][1] /\ wait[d] = e.req
      BY <1>1, <2>3, <2>4 DEF Last
  <2>. QED
      BY <1>2, <1>4, <2>1, <2>5 DEF told_otherwise, Broken
<1>. QED
    BY <1>3, <1>4

LEMMA ProcessAgrees ==
    ASSUME LInv, LProcess, Backend # "null"
    PROVE  OnlyAsyncFailsSilently'
<1> DEFINE e == Head(queue)
           c == e.cli
           r == e.req
<1>1. /\ DbOK /\ InboxOK /\ queue \in Seq(QueueEntry) /\ process_op
    BY DEF LInv, ReplyInv, TypeInv, TypeOK, DbOK, InboxOK, LProcess
<1>2. /\ e = queue[1] /\ c \in Clients /\ r \in Requests /\ store' = store
      /\ snap[1] \in [Keys -> MaybeValue] /\ snap'[1] = snap[2]
      /\ 1 \in 1..Len(queue)
    BY HeadOfQueue
<1>3. snap[2] = A!Effect(snap[1], r)
    BY <1>2 DEF LInv, Snapshots
<1>4. /\ cache' = cache /\ spoilt \subseteq spoilt'
      /\ r.key \notin spoilt' =>
            /\ ~fails_silently
            /\ ~told_otherwise(c, r.op, pend[c])
    BY DEF LProcess, process_op
<1>5. ASSUME NEW k \in Keys \ spoilt'
      PROVE  snap'[1][k] = db'[k]
  <2>1. snap[1][k] = db[k]
      BY <1>4 DEF LInv, OnlyAsyncFailsSilently
  <2>2. CASE k # r.key
    <3>1. db'[k] = db[k]
        BY <1>1, <2>2, ProcessOthers
    <3>2. snap[2][k] = snap[1][k]
        BY <1>2, <1>3, <2>2, EffectIs
    <3>. QED
        BY <1>2, <2>1, <3>1, <3>2
  <2>3. CASE k = r.key /\ ~owes_reply(e)
      BY <1>2, <1>4, <2>3 DEF fails_silently
  <2>4. CASE k = r.key /\ owes_reply(e)
    <3>1. pend[c] = A!Answer(snap[1], r)
        BY <1>2, <2>4 DEF LInv, Promises
    <3>2. cache_only(r) => walks(r)
        BY <1>2 DEF LInv, QueuedReachDb
    <3>3. Carries(c, r, snap[1])
        BY <1>1, <1>2, <2>1, <2>4, <3>2, ProcessCarries
    <3>4. owes_reply([cli |-> c, req |-> r])
        BY <2>4 DEF owes_reply
    <3>. QED
        BY <1>2, <1>3, <1>4, <2>4, <3>1, <3>3, <3>4 DEF Carries
  <2>. QED
      BY <2>2, <2>3, <2>4
<1>6. ASSUME NEW k \in Keys \ spoilt', in_cache(k)'
      PROVE  cache_get(k)' = store'[k]
  <2>1. in_cache(k) /\ cache_get(k)' = cache_get(k)
      BY <1>4, <1>6 DEF in_cache, cache_get
  <2>. QED
      BY <1>2, <1>4, <2>1 DEF LInv, OnlyAsyncFailsSilently
<1>. QED
    BY <1>5, <1>6 DEF OnlyAsyncFailsSilently

LEMMA ReturnKeeps ==
    ASSUME LInv, ReplyInv', NEW c \in Clients, LReturn(c)
    PROVE  /\ Snapshots' /\ QueuedReachDb' /\ Promises'
           /\ OnlyAsyncFailsSilently' /\ store' = store
           /\ \A d \in Clients : Broken(d)' => Broken(d) /\ wait'[d] = wait[d]
<1>1. /\ UNCHANGED <<cache, queue, db, snap, spoilt>>
      /\ pend' = [pend EXCEPT ![c] = A!NoPend]
      /\ wait' = [wait EXCEPT ![c] = NoReq]
      /\ inbox' = [inbox EXCEPT ![c] = Tail(inbox[c])]
      /\ wait[c] # NoReq /\ inbox[c] # <<>>
    BY DEF LReturn, get_rep
<1>2. /\ wait \in [Clients -> Requests \cup {NoReq}] /\ queue \in Seq(QueueEntry)
      /\ pend \in [Clients -> ResultType] /\ inbox \in [Clients -> Seq(ReplyType)]
    BY DEF LInv, Promises, ReplyInv, TypeInv, TypeOK
<1>3. Snapshots' /\ QueuedReachDb' /\ OnlyAsyncFailsSilently' /\ store' = store
    BY <1>1 DEF LInv, Snapshots, QueuedReachDb, OnlyAsyncFailsSilently, store,
                in_cache, cache_get
<1>4. A!NoPend \in ResultType
    BY SameWords, ReplyTypes DEF A!NoPend, ResultType
<1>5. owed(c) = {}
    BY <1>1 DEF LInv, ReplyInv, OneReplyOwed
<1>6. Promises'
  <2>1. \A d \in Clients : wait'[d] = NoReq <=> pend'[d] = A!NoPend
      BY <1>1, <1>2 DEF LInv, Promises
  <2>2. ASSUME NEW i \in 1..Len(queue), owes_reply(queue[i])
        PROVE  pend'[queue[i].cli] = A!Answer(snap[i], queue[i].req)
    <3>1. queue[i] \in QueueEntry
        BY <1>2
    <3>2. queue[i].cli \in Clients /\ queue[i].cli # c
        BY <1>2, <1>5, <2>2, <3>1 DEF owed, QueueEntry
    <3>. QED
        BY <1>1, <1>2, <2>2, <3>2 DEF LInv, Promises
  <2>. QED
      BY <1>1, <1>2, <1>4, <2>1, <2>2 DEF Promises
<1>7. \A d \in Clients : Broken(d)' => Broken(d) /\ wait'[d] = wait[d]
  <2>1. inbox'[c] = <<>>
      BY <1>1, <1>2 DEF ReplyInv, OneReplyOwed
  <2>2. \A d \in Clients : d # c => /\ inbox'[d] = inbox[d] /\ wait'[d] = wait[d]
                                    /\ pend'[d] = pend[d]
      BY <1>1, <1>2
  <2>. QED
      BY <2>1, <2>2 DEF Broken
<1>. QED
    BY <1>3, <1>6, <1>7

LEMMA LStep == LNext => Next
BY DEF LNext, LCall, LProcess, LReturn, LDies, Next

LEMMA InitLInv == LInit => LInv
<1> SUFFICES ASSUME LInit PROVE LInv
    OBVIOUS
<1>1. Init /\ queue = <<>> /\ snap = <<db>> /\ Len(queue) = 0
    BY DEF LInit, Init
<1>2. ReplyInv
  <2>1. OneReplyOwed
      BY <1>1 DEF Init, OneReplyOwed, owed
  <2>. QED
      BY <1>1, <2>1, InitTypeInv DEF ReplyInv
<1>3. db \in [Keys -> MaybeValue]
    BY <1>1, InitDbsAssumption DEF Init
<1>4. /\ snap \in Seq([Keys -> MaybeValue]) /\ Len(snap) = 1 /\ snap[1] = db
    BY <1>1, <1>3
<1>5. Snapshots /\ QueuedReachDb
    BY <1>1, <1>4 DEF Snapshots, QueuedReachDb
<1>6. Promises
  <2>1. A!NoPend \in ResultType
      BY SameWords, ReplyTypes DEF A!NoPend, ResultType
  <2>. QED
      BY <1>1, <2>1 DEF LInit, Init, Promises
<1>7. AnswersKept
    BY <1>1 DEF Init, AnswersKept, Broken
<1>8. OnlyAsyncFailsSilently
    BY <1>1, <1>4, HashAssumption
       DEF Init, empty_cache, OnlyAsyncFailsSilently, in_cache, in_chain
<1>. QED
    BY <1>2, <1>5, <1>6, <1>7, <1>8 DEF LInv

LEMMA NextLInv ==
    ASSUME Backend # "null", LInv, [LNext]_lvars, ~LDies
    PROVE  LInv'
<1>1. ReplyInv'
    BY NextReplyInv, LStep DEF LInv, lvars, vars
<1>2. ASSUME NEW c \in Clients, NEW r \in Requests, LCall(c, r) PROVE LInv'
  <2>1. AnswersKept'
    <3>1. /\ spoilt \subseteq spoilt'
          /\ told_otherwise(c, r.op, pend'[c]) => r.key \in spoilt'
        BY <1>2 DEF LCall
    <3>. QED
        BY <1>1, <1>2, <3>1, CallBreaks DEF LInv, AnswersKept
  <2>. QED
      BY <1>1, <1>2, <2>1, CallSnapshots, CallPromises, CallAgrees DEF LInv
<1>3. CASE LProcess
  <2>1. AnswersKept'
    <3> DEFINE e == Head(queue)
    <3>1. /\ spoilt \subseteq spoilt'
          /\ told_otherwise(e.cli, e.req.op, pend[e.cli]) => e.req.key \in spoilt'
        BY <1>3 DEF LProcess
    <3>. QED
        BY <1>1, <1>3, <3>1, ProcessBreaks DEF LInv, AnswersKept
  <2>. QED
      BY <1>1, <1>3, <2>1, ProcessHistory, ProcessAgrees DEF LInv
<1>4. ASSUME NEW c \in Clients, LReturn(c) PROVE LInv'
  <2>1. spoilt' = spoilt
      BY <1>4 DEF LReturn
  <2>. QED
      BY <1>1, <1>4, <2>1, ReturnKeeps DEF LInv, AnswersKept
<1>5. CASE UNCHANGED <<cache, queue, db, wait, inbox, snap, pend, spoilt>>
  <2>1. Snapshots' /\ QueuedReachDb' /\ Promises' /\ AnswersKept'
      BY <1>5 DEF LInv, Snapshots, QueuedReachDb, Promises, AnswersKept, Broken
  <2>2. OnlyAsyncFailsSilently'
      BY <1>5 DEF LInv, OnlyAsyncFailsSilently, store, in_cache, cache_get
  <2>. QED
      BY <1>1, <2>1, <2>2 DEF LInv
<1>. QED
    BY <1>2, <1>3, <1>4, <1>5 DEF LNext, Down, SIGUSR1, lvars, vars

(* A dead server stays dead. *)
LEMMA DownStays ==
    ASSUME ~up, [LNext]_lvars
    PROVE  UNCHANGED lvars
BY DEF LNext, LCall, LProcess, LReturn, LDies, parse_message, process_op,
       get_rep, SIGUSR1, Dies, parse_message_dies, process_op_dies, Down, lvars, vars

(* While the server lives. *)
FInv == (up => LInv) /\ OnlyAsyncFailsSilently

LEMMA NextFInv ==
    ASSUME Backend # "null", FInv, [LNext]_lvars
    PROVE  FInv'
<1>1. CASE ~up
  <2>1. UNCHANGED lvars
      BY <1>1, DownStays
  <2>2. OnlyAsyncFailsSilently'
      BY <2>1 DEF FInv, OnlyAsyncFailsSilently, store, in_cache, cache_get, lvars, vars
  <2>3. ~up'
      BY <1>1, <2>1 DEF lvars, vars
  <2>. QED
      BY <2>2, <2>3 DEF FInv
<1>2. CASE up /\ ~LDies
  <2>1. LInv'
      BY <1>2, NextLInv DEF FInv
  <2>. QED
      BY <2>1 DEF FInv, LInv
<1>3. CASE LDies
  <2>1. server_dies /\ snap' = <<db'>>
      BY <1>3 DEF LDies, Dies, parse_message_dies, process_op_dies
  <2>2. ~up' /\ cache' = empty_cache
      BY <2>1 DEF server_dies
  <2>3. \A k \in Keys : ~in_cache(k)'
      BY <2>2, HashAssumption DEF empty_cache, in_cache, in_chain
  <2>4. snap'[1] = db'
      BY <2>1
  <2>. QED
      BY <2>2, <2>3, <2>4 DEF FInv, OnlyAsyncFailsSilently
<1>. QED
    BY <1>1, <1>2, <1>3

(* With failing allocations and a failing backend, cache-only requests     *)
(* included, as long as the server lives: a key on which cache, queue and  *)
(* database disagree is one whose users were told of a failure or given a  *)
(* wrong answer, or that was written in the cache only, or that lost an    *)
(* asynchronous write in the backend.  The null backend keeps nothing and  *)
(* is left out.                                                            *)
THEOREM FailuresAreTold ==
    ASSUME Backend # "null"
    PROVE  LSpec => []OnlyAsyncFailsSilently
<1>1. FInv => OnlyAsyncFailsSilently
    BY DEF FInv
<1>2. FInv /\ [LNext]_lvars => FInv'
    BY NextFInv
<1>3. LInit => FInv
    BY InitLInv DEF FInv, LInv
<1>. QED
    BY <1>1, <1>2, <1>3, PTL DEF LSpec

-----------------------------------------------------------------------------
(* Without failing allocations and a failing backend. *)

Reliable == ~MemFaults /\ ~DbFaults /\ Backend # "null"

(* CacheCoherent and QueueReplaysToStore need each other: what the DB      *)
(* thread finds in the database decides what an entry will do.             *)
CInv == /\ LInv
        /\ \A k \in DbKeys : Agrees(store, k) /\ snap[1][k] = db[k]

LEMMA CallCInv ==
    ASSUME Reliable, CInv, NEW c \in Clients, NEW r \in Requests, LCall(c, r),
           NEW k \in DbKeys
    PROVE  Agrees(store, k)' /\ snap'[1][k] = db'[k]
<1>1. LInv /\ CacheOK /\ MailOK /\ k \in Keys
    BY CacheOKMeans DEF CInv, LInv, ReplyInv, TypeInv, TypeOK, MailOK, DbKeys
<1>2. /\ store \in [Keys -> MaybeValue] /\ pend'[c] = Promise(store, r)
      /\ store' = IF queue' = queue THEN store ELSE A!Effect(store, r)
    BY <1>1, CallSnaps
<1>3. parse_message(c, r) /\ db' = db /\ snap'[1] = snap[1]
    BY <1>1, CallSnapshots DEF LCall, parse_message
<1>4. Agrees(store, k)'
  <2>1. CASE k # r.key
    <3>1. in_cache(k)' => in_cache(k) /\ cache_get(k)' = cache_get(k)
        BY <1>1, <1>3, <2>1, ParseOthers DEF OthersKept
    <3>2. store'[k] = store[k]
        BY <1>1, <1>2, <2>1, EffectIs
    <3>. QED
        BY <3>1, <3>2 DEF CInv, Agrees
  <2>2. CASE k = r.key
    <3>1. ~cache_only(r)
        BY <2>2 DEF DbKeys
    <3>2. Handles(c, r, store, Promise(store, r))
        BY <1>1, <1>2, <1>3, <2>2, ParseHandles DEF CInv
    <3>. QED
        BY <1>2, <2>2, <3>1, <3>2 DEF Handles, Reliable, Agrees
  <2>. QED
      BY <2>1, <2>2
<1>. QED
    BY <1>3, <1>4 DEF CInv

LEMMA ProcessCInv ==
    ASSUME Reliable, CInv, LProcess, NEW k \in DbKeys
    PROVE  Agrees(store, k)' /\ snap'[1][k] = db'[k]
<1> DEFINE e == Head(queue)
           c == e.cli
           r == e.req
<1>1. /\ LInv /\ DbOK /\ InboxOK /\ queue \in Seq(QueueEntry) /\ process_op
      /\ k \in Keys /\ cache' = cache
    BY DEF CInv, LInv, ReplyInv, TypeInv, TypeOK, DbOK, InboxOK, LProcess,
           DbKeys, process_op
<1>2. /\ e = queue[1] /\ c \in Clients /\ r \in Requests /\ store' = store
      /\ snap[1] \in [Keys -> MaybeValue] /\ snap'[1] = snap[2]
      /\ 1 \in 1..Len(queue)
    BY <1>1, HeadOfQueue, SMTT(40)
<1>3. snap[2] = A!Effect(snap[1], r) /\ (cache_only(r) => walks(r))
    BY <1>1, <1>2 DEF LInv, Snapshots, QueuedReachDb
<1>4. Agrees(store, k)'
    BY <1>1, <1>2 DEF CInv, Agrees, in_cache, cache_get
<1>5. CASE k # r.key
  <2>1. db'[k] = db[k]
      BY <1>1, <1>5, ProcessOthers
  <2>2. snap[2][k] = snap[1][k]
      BY <1>1, <1>2, <1>3, <1>5, EffectIs
  <2>. QED
      BY <1>2, <1>4, <2>1, <2>2 DEF CInv
<1>6. CASE k = r.key
  <2>1. snap[1][k] = db[k]
      BY DEF CInv
  <2>2. Carries(c, r, snap[1])
      BY <1>1, <1>2, <1>3, <1>6, <2>1, ProcessCarries DEF Reliable
  <2>. QED
      BY <1>2, <1>3, <1>4, <1>6, <2>2 DEF Carries, Reliable
<1>. QED
    BY <1>5, <1>6

LEMMA InitCInv == LInit => CInv
<1> SUFFICES ASSUME LInit PROVE CInv
    OBVIOUS
<1>1. snap[1] = db
    BY DEF LInit
<1>2. \A k \in Keys : ~in_cache(k)
    BY HashAssumption DEF LInit, Init, empty_cache, in_cache, in_chain
<1>. QED
    BY <1>1, <1>2, InitLInv DEF CInv, Agrees, DbKeys

(* Only a failing malloc() kills the server. *)
LEMMA NobodyDies ==
    ASSUME Reliable
    PROVE  ~LDies
BY DEF Reliable, LDies, Dies, parse_message_dies, process_op_dies

LEMMA NextCInv ==
    ASSUME Reliable, CInv, [LNext]_lvars
    PROVE  CInv'
<1>1. LInv'
    BY NextLInv, NobodyDies DEF CInv, Reliable
<1>2. ASSUME NEW c \in Clients, NEW r \in Requests, LCall(c, r) PROVE CInv'
    BY <1>1, <1>2, CallCInv DEF CInv
<1>3. CASE LProcess
    BY <1>1, <1>3, ProcessCInv DEF CInv
<1>4. CASE UNCHANGED <<cache, db, snap>>
  <2>1. store' = store /\ \A k \in DbKeys : Agrees(store, k)' <=> Agrees(store, k)
      BY <1>4 DEF store, Agrees, in_cache, cache_get
  <2>. QED
      BY <1>1, <1>4, <2>1 DEF CInv
<1>. QED
    BY <1>2, <1>3, <1>4, NobodyDies
       DEF LNext, LReturn, get_rep, SIGUSR1, Down, lvars, vars

(* A cached value is the newest accepted one, however far the database is  *)
(* behind: for any requests (other keys' cache-only ones included), chain  *)
(* length, hash function, queue bound and any real backend that works.     *)
THEOREM CacheStaysCoherent ==
    ASSUME Reliable
    PROVE  LSpec => []CacheCoherent
<1>1. CInv => CacheCoherent
    BY DEF CInv, CacheCoherent, Agrees
<1>2. CInv /\ [LNext]_lvars => CInv'
    BY NextCInv
<1>. QED
    BY <1>1, <1>2, InitCInv, PTL DEF LSpec

(* Carrying out the queue on what the DB thread will find in the database  *)
(* gives the store the clients have been told about.                       *)
THEOREM QueueReplays ==
    ASSUME Reliable
    PROVE  LSpec => []QueueReplaysToStore
<1>1. CInv => QueueReplaysToStore
    BY DEF CInv, LInv, Snapshots, QueueReplaysToStore
<1>2. CInv /\ [LNext]_lvars => CInv'
    BY NextCInv
<1>. QED
    BY <1>1, <1>2, InitCInv, PTL DEF LSpec

-----------------------------------------------------------------------------
(* The server implements AtomicStore. *)

(* A key is used either in the store or in the cache only. *)
ModesApart == \A r \in Requests : A!Promised(r) => r.key \in DbKeys

(* leveldb's delete of a missing key reports success: left out. *)
Atomic == Reliable /\ Backend # "leveldb" /\ ModesApart

RInv == CInv /\ \A c \in Clients : ~Broken(c)

(* A handler given a write while read-only answers with ERR_RO. *)
LEMMA RefusedIsTold ==
    ASSUME MailOK, NEW c \in Clients, NEW r \in Requests, NEW m,
           A!Refused(r), parse_message(c, r)
    PROVE  ~told_otherwise(c, r.op, Promise(m, r)) /\ queue' = queue
<1>1. r.op \in Writes /\ read_only
    BY SameWords DEF A!Refused
<1>2. refuse_read_only(c)
    BY <1>1 DEF parse_message, parse_set, parse_del, parse_cas, parse_incr, Writes
<1>3. /\ reply(c, Mini("ERR_RO")) /\ Mini("ERR_RO") \in ReplyType
      /\ queue' = queue
    BY <1>2, ReplyTypes DEF refuse_read_only, answer_now, Codes
<1>4. LibResult(r.op, Mini("ERR_RO")) = Promise(m, r)
    BY <1>1 DEF Promise, Writes, LibResult, do_set, do_del, do_cas, do_incr,
                Mini, Reply, Result
<1>. QED
    BY <1>3, <1>4, ToldByReply DEF MailOK

(* A handled request has its effect and keeps its promise. *)
LEMMA CallTakesEffect ==
    ASSUME Atomic, RInv, NEW c \in Clients, NEW r \in Requests, LCall(c, r)
    PROVE  /\ store' = IF A!Refused(r) THEN store ELSE A!Effect(store, r)
           /\ ~told_otherwise(c, r.op, pend'[c])
<1>1. LInv /\ CInv /\ CacheOK /\ MailOK /\ parse_message(c, r)
    BY CacheOKMeans DEF RInv, CInv, LInv, ReplyInv, TypeInv, TypeOK, MailOK, LCall
<1>2. /\ store \in [Keys -> MaybeValue] /\ pend'[c] = Promise(store, r)
      /\ store' = IF queue' = queue THEN store ELSE A!Effect(store, r)
    BY <1>1, CallSnaps
<1>3. CASE A!Refused(r)
    BY <1>1, <1>2, <1>3, RefusedIsTold
<1>4. CASE ~A!Refused(r) /\ ~A!Promised(r)
  <2>1. cache_only(r) \/ walks(r)
      BY <1>4, SameWords DEF A!Promised, walks
  <2>2. A!Effect(store, r) = store /\ pend'[c] = A!Anything
      BY <1>2, <1>4, <2>1, EffectIs, AnswerIs DEF Promise, walks, Writes
  <2>. QED
      BY <1>2, <1>4, <2>2 DEF told_otherwise
<1>5. CASE A!Promised(r)
  <2>1. r.key \in DbKeys /\ ~cache_only(r)
      BY <1>5, SameWords DEF Atomic, ModesApart, A!Promised
  <2>2. Agrees(store, r.key)
      BY <1>1, <2>1 DEF CInv
  <2>3. Handles(c, r, store, Promise(store, r))
      BY <1>1, <1>2, <2>2, ParseHandles
  <2>. QED
      BY <1>2, <2>1, <2>3 DEF Handles, Atomic, Reliable
<1>. QED
    BY <1>3, <1>4, <1>5

(* The DB thread answers what was promised. *)
LEMMA ProcessKeepsPromise ==
    ASSUME Atomic, RInv, LProcess, owes_reply(Head(queue))
    PROVE  LET e == Head(queue)
           IN  ~told_otherwise(e.cli, e.req.op, pend[e.cli])
<1> DEFINE e == Head(queue)
           c == e.cli
           r == e.req
<1>1. /\ LInv /\ CInv /\ DbOK /\ InboxOK /\ queue \in Seq(QueueEntry)
      /\ process_op
    BY DEF RInv, CInv, LInv, ReplyInv, TypeInv, TypeOK, DbOK, InboxOK, LProcess
<1>2. /\ e = queue[1] /\ c \in Clients /\ r \in Requests
      /\ snap[1] \in [Keys -> MaybeValue] /\ 1 \in 1..Len(queue)
    BY <1>1, HeadOfQueue
<1>3. pend[c] = A!Answer(snap[1], r) /\ (cache_only(r) => walks(r))
    BY <1>1, <1>2 DEF LInv, Promises, QueuedReachDb
<1>4. CASE ~A!Promised(r)
  <2>1. A!Answer(snap[1], r) = A!Anything
      BY <1>4 DEF A!Answer
  <2>. QED
      BY <1>3, <2>1 DEF told_otherwise
<1>5. CASE A!Promised(r)
  <2>1. snap[1][r.key] = db[r.key]
      BY <1>1, <1>2, <1>5 DEF CInv, Atomic, ModesApart
  <2>2. Carries(c, r, snap[1])
      BY <1>1, <1>2, <1>3, <2>1, ProcessCarries DEF Atomic, Reliable
  <2>. QED
      BY <1>3, <2>2 DEF Carries, Atomic, Reliable
<1>. QED
    BY <1>4, <1>5

LEMMA NextRInv ==
    ASSUME Atomic, RInv, [LNext]_lvars
    PROVE  RInv'
<1>1. CInv' /\ LInv /\ ReplyInv'
    BY NextCInv DEF RInv, CInv, LInv, Atomic
<1>2. ASSUME NEW c \in Clients, NEW r \in Requests, LCall(c, r) PROVE RInv'
    BY <1>1, <1>2, CallBreaks, CallTakesEffect DEF RInv
<1>3. CASE LProcess
    BY <1>1, <1>3, ProcessBreaks, ProcessKeepsPromise DEF RInv
<1>4. ASSUME NEW c \in Clients, LReturn(c) PROVE RInv'
    BY <1>1, <1>4, ReturnKeeps DEF RInv
<1>5. CASE UNCHANGED <<inbox, wait, pend>>
    BY <1>1, <1>5 DEF RInv, Broken
<1>. QED
    BY <1>2, <1>3, <1>4, <1>5, NobodyDies DEF Atomic, LNext, SIGUSR1, Down, lvars, vars

LEMMA InitAtomic == LInit => RInv /\ A!Init
<1> SUFFICES ASSUME LInit PROVE RInv /\ A!Init
    OBVIOUS
<1>1. store = db
    BY DEF LInit, store, Last
<1>2. NoRet = A!NoResult
    BY SameWords DEF NoRet, A!NoResult
<1>3. \A c \in Clients : ~Broken(c)
    BY DEF LInit, Init, Broken
<1>. QED
    BY <1>1, <1>2, <1>3, InitCInv DEF RInv, LInit, Init, A!Init, store

LEMMA NextAtomic ==
    ASSUME Atomic, RInv, [LNext]_lvars
    PROVE  [A!Next]_(A!avars)
<1>1. CInv /\ LInv /\ ReplyInv /\ Promises /\ Snapshots
    BY DEF RInv, CInv, LInv
<1>2. ASSUME NEW c \in Clients, NEW r \in Requests, LCall(c, r)
      PROVE  A!Call(c, r)
  <2>1. wait[c] = NoReq /\ ret' = [ret EXCEPT ![c] = NoRet] /\ read_only' = read_only
      BY <1>2 DEF LCall, parse_message
  <2>2. pend[c] = A!NoPend
      BY <1>1, <2>1 DEF Promises
  <2>3. NoRet = A!NoResult /\ A!Result(-1, A!NoVal) = Result(-1, NoVal)
      BY SameWords DEF NoRet, A!NoResult
  <2>4. pend' = [pend EXCEPT ![c] = IF A!Refused(r) THEN A!Result(-1, A!NoVal)
                                    ELSE A!Answer(store, r)]
      BY <1>2, <2>3 DEF LCall
  <2>. QED
      BY <1>2, <2>1, <2>2, <2>3, <2>4, CallTakesEffect DEF A!Call, store
<1>3. CASE LProcess
  <2>1. store' = store
      BY <1>1, <1>3, HeadOfQueue
  <2>. QED
      BY <1>3, <2>1 DEF LProcess, process_op, A!avars, store
<1>4. ASSUME NEW c \in Clients, LReturn(c) PROVE A!Return(c)
  <2>1. /\ wait[c] # NoReq /\ inbox[c] # <<>> /\ snap' = snap
        /\ ret' = [ret EXCEPT ![c] = LibResult(wait[c].op, inbox[c][1])]
        /\ pend' = [pend EXCEPT ![c] = A!NoPend] /\ read_only' = read_only
      BY <1>4 DEF LReturn, get_rep
  <2>2. pend[c] # A!NoPend
      BY <1>1, <2>1 DEF Promises
  <2>3. pend[c] # A!Anything => LibResult(wait[c].op, inbox[c][1]) = pend[c]
      BY <2>1 DEF RInv, Broken
  <2>4. ret'[c] = LibResult(wait[c].op, inbox[c][1])
      BY <1>1, <2>1 DEF ReplyInv, TypeInv, TypeOK
  <2>. QED
      BY <2>1, <2>2, <2>3, <2>4 DEF A!Return
<1>5. CASE SIGUSR1 /\ UNCHANGED <<snap, pend, spoilt>>
    BY <1>5 DEF SIGUSR1, A!Next, A!ForbidWrites
<1>6. CASE UNCHANGED lvars
    BY <1>6 DEF lvars, vars, A!avars
<1>7. CASE Down /\ UNCHANGED <<snap, pend, spoilt>>
    BY <1>7 DEF Down, vars, A!avars
<1>. QED
    BY <1>2, <1>3, <1>4, <1>5, <1>6, <1>7, NobodyDies DEF Atomic, LNext, A!Next

(* The clients cannot tell the server with its cache, its queue and its    *)
(* second thread from one store on which every call takes effect at once,  *)
(* for any number of clients and any requests, as long as no key is used   *)
(* both in the store and in the cache only, allocations and the backend    *)
(* work, and the backend is tdb, tc, qdbm or bdb.                          *)
THEOREM ServerIsAtomic ==
    ASSUME Atomic
    PROVE  LSpec => ImplementsAtomicStore
<1>1. RInv /\ [LNext]_lvars => RInv' /\ [A!Next]_(A!avars)
    BY NextRInv, NextAtomic
<1>. QED
    BY <1>1, InitAtomic, PTL DEF LSpec, ImplementsAtomicStore, A!Spec


-----------------------------------------------------------------------------
(* NmdbWalk. *)

(* The walker's requests are the only walks. *)
OneWalks == \A i \in DOMAIN queue : queue[i].cli = Walker <=> walks(queue[i].req)

(* What the walker is blocked on. *)
AsksFromHere ==
    wait[Walker] # NoReq =>
        /\ walk = "on"
        /\ \/ wait[Walker].op = "FIRSTKEY" /\ at = Nowhere
           \/ wait[Walker].op = "NEXTKEY" /\ wait[Walker].key = at /\ at # Nowhere

(* The walk goes upwards. *)
GoesUp ==
    /\ at \in Keys \cup {Nowhere} /\ visited \subseteq Keys /\ steady \subseteq Keys
    /\ \A k \in visited : k <= at
    /\ at # Nowhere => at \in visited
    /\ ~twice
    /\ gaps \in Nat
    /\ walk = "off" => at = Nowhere /\ visited = {} /\ wait[Walker] = NoReq

writes(i, op, k) == queue[i].req.op = op /\ queue[i].req.key = k

(* Where a steady key is: in the database, and nobody will delete it, or   *)
(* in a queued SET, before any request of the walker.                      *)
Held(k) == db[k] # NoVal /\ \A i \in DOMAIN queue : ~writes(i, "DEL", k)
Arrives(k, i) ==
    /\ writes(i, "SET", k)
    /\ \A j \in DOMAIN queue : j > i => ~writes(j, "DEL", k)
    /\ \A j \in DOMAIN queue : queue[j].cli = Walker => j > i
Steady(k) == Held(k) \/ \E i \in DOMAIN queue : Arrives(k, i)
SteadyKept == \A k \in steady : Steady(k)

(* The steady keys below n the walk has not been given. *)
missed(n) == {k \in steady : k < n} \ visited

(* What a reply says to the walk. *)
Tells(rep) ==
    \/ rep = Mini("ERR_MEM")
    \/ rep = Mini("NOTIN") /\ Cardinality(steady \ visited) <= gaps
    \/ \E n \in Keys : /\ rep = Reply("OK", KeyData(n))
                       /\ at < n /\ Cardinality(missed(n)) <= gaps

ToldRight == \A i \in DOMAIN inbox[Walker] : Tells(inbox[Walker][i])

WInv ==
    /\ ReplyInv /\ OneWalks /\ AsksFromHere /\ GoesUp /\ SteadyKept
    /\ Cardinality(missed(at)) <= gaps
    /\ walk = "over" => Cardinality(steady \ visited) <= gaps
    /\ ToldRight

(* A non-empty set of numbers has a least one. *)
LEMMA LeastNumber ==
    ASSUME NEW S, S \subseteq Nat, S # {}
    PROVE  \E n \in S : \A x \in S : n <= x
<1> DEFINE R == OpToRel(<, Nat)
<1>1. \A m, n \in Nat : m < n => <<m, n>> \in R
    BY Zenon DEF OpToRel
<1>2. IsWellFoundedOn(R, Nat)
    BY NatLessThanWellFounded, Zenon
<1> HIDE DEF R
<1>3. PICK n \in S : \A m \in S : <<m, n>> \notin R
    BY <1>2, WFMin, Zenon
<1>4. \A m \in S : ~(m < n)
    BY <1>1, <1>3, Zenon
<1>5. \A m \in S : n <= m
    BY <1>4
<1>. QED
    BY <1>5

LEMMA KeysAreNumbers ==
    /\ Keys \subseteq Nat /\ IsFiniteSet(Keys)
    /\ \A k \in Keys : k > Nowhere
    /\ Nowhere \notin Keys /\ Nowhere \in Nat
BY KeysAssumption, WalkerAssumption DEF Nowhere

(* Fewer keys are not more, and one more key is one more. *)
LEMMA FewerKeys ==
    ASSUME NEW S \in SUBSET Keys, NEW T \in SUBSET S, NEW g \in Nat,
           Cardinality(S) <= g
    PROVE  Cardinality(T) <= g
<1>1. IsFiniteSet(S)
    BY KeysAreNumbers, FS_Subset
<1>2. IsFiniteSet(T) /\ Cardinality(T) <= Cardinality(S)
    BY <1>1, FS_Subset
<1>3. Cardinality(S) \in Nat /\ Cardinality(T) \in Nat
    BY <1>1, <1>2, FS_CardinalityType
<1>. QED
    BY <1>2, <1>3

LEMMA OneMoreKey ==
    ASSUME NEW S \in SUBSET Keys, NEW m, NEW T \in SUBSET (S \cup {m}), NEW g \in Nat,
           Cardinality(S) <= g
    PROVE  Cardinality(T) <= g + 1
<1>1. IsFiniteSet(S)
    BY KeysAreNumbers, FS_Subset
<1>2. /\ IsFiniteSet(S \cup {m})
      /\ Cardinality(S \cup {m}) = IF m \in S THEN Cardinality(S) ELSE Cardinality(S) + 1
    BY <1>1, FS_AddElement
<1>3. IsFiniteSet(T) /\ Cardinality(T) <= Cardinality(S \cup {m})
    BY <1>2, FS_Subset
<1>4. Cardinality(S) \in Nat /\ Cardinality(T) \in Nat
    BY <1>1, <1>3, FS_CardinalityType
<1>. QED
    BY <1>2, <1>3, <1>4

LEMMA FirstOf ==
    ASSUME NEW S \in SUBSET Keys
    PROVE  /\ S # {} => \E n : n \in first_of(S)
           /\ \A n \in first_of(S) : n \in S /\ \A j \in S : n <= j
<1>1. S \subseteq Nat
    BY KeysAreNumbers
<1>2. S # {} => \E n \in S : \A x \in S : n <= x
    BY <1>1, LeastNumber
<1>. QED
    BY <1>2, Zenon DEF first_of

LEMMA StoredKeys == stored \in SUBSET Keys
BY DEF stored

(* On leveldb the walk goes on to the next stored key, or, from a key that *)
(* is gone, to the one after it.                                           *)
LEMMA NextOnLeveldb ==
    ASSUME Backend = "leveldb", NEW k \in Keys
    PROVE  LET skipped == IF db[k] = NoVal THEN first_of({j \in stored : j >= k}) ELSE {}
           IN  /\ db_nextkey(k) = {} =>
                     \A j \in stored : j <= k \/ j \in skipped
               /\ \A n \in db_nextkey(k) :
                     /\ n \in stored /\ k < n
                     /\ \A j \in stored : j < n => j <= k \/ j \in skipped
               /\ \E m : skipped \subseteq {m}
<1> DEFINE ahead == {j \in stored : j >= k}
           from == first_of(ahead)
           rest == {j \in stored : \E i \in from : i < j}
           skipped == IF db[k] = NoVal THEN from ELSE {}
<1>1. db_nextkey(k) = first_of(rest)
    BY Zenon DEF db_nextkey
<1>2. ahead \in SUBSET Keys /\ rest \in SUBSET Keys /\ stored \in SUBSET Keys
    BY StoredKeys, Zenon
<1>3. /\ ahead # {} => \E n : n \in from
      /\ \A n \in from : n \in ahead /\ \A j \in ahead : n <= j
  <2> HIDE DEF ahead
  <2>. QED
      BY <1>2, FirstOf
<1>4. /\ rest # {} => \E n : n \in first_of(rest)
      /\ \A n \in first_of(rest) : n \in rest /\ \A j \in rest : n <= j
  <2> HIDE DEF rest
  <2>. QED
      BY <1>2, FirstOf
<1>5. \A j \in stored : j \in Nat /\ k \in Nat
    BY <1>2, KeysAreNumbers
<1> HIDE DEF from
<1>6. ASSUME NEW m \in from
      PROVE  m \in stored /\ m >= k /\ from = {m} /\ (db[k] # NoVal => m = k)
  <2>1. m \in stored /\ m >= k /\ \A j \in stored : j >= k => m <= j
      BY <1>3, Zenon
  <2>2. \A i \in from : i \in stored /\ i <= m /\ m <= i
      BY <1>3, <2>1, Zenon
  <2>3. \A i \in from : i = m
      BY <1>5, <2>1, <2>2
  <2>4. ASSUME db[k] # NoVal PROVE m = k
    <3>1. k \in stored /\ k >= k
        BY <1>5, <2>1, <2>4 DEF stored
    <3>2. m <= k
        BY <2>1, <3>1, Zenon
    <3>. QED
        BY <1>5, <2>1, <3>2
  <2>. QED
      BY <2>1, <2>3, <2>4, Zenon
<1>7. ASSUME NEW j \in stored, ~(j <= k), j \notin rest
      PROVE  j \in skipped
  <2>1. j \in ahead
      BY <1>5, <1>7
  <2>2. PICK m \in from : TRUE
      BY <1>3, <2>1, Zenon
  <2>3. m <= j /\ ~(m < j)
      BY <1>3, <1>7, <2>1, <2>2, Zenon
  <2>4. m = j
      BY <1>5, <1>6, <2>3
  <2>5. db[k] = NoVal
    <3> SUFFICES ASSUME db[k] # NoVal PROVE FALSE
        BY Zenon
    <3>1. j = k
        BY <1>6, <2>4, Zenon
    <3>. QED
        BY <1>5, <1>7, <3>1
  <2>. QED
      BY <2>2, <2>4, <2>5, Zenon
<1>8. ASSUME first_of(rest) = {}, NEW j \in stored PROVE j <= k \/ j \in skipped
    BY <1>4, <1>7, <1>8, Zenon
<1>9. ASSUME NEW n \in first_of(rest)
      PROVE  /\ n \in stored /\ k < n
             /\ \A j \in stored : j < n => j <= k \/ j \in skipped
  <2>1. n \in stored /\ n \in rest /\ \A j \in rest : n <= j
      BY <1>4, Zenon
  <2>2. PICK i \in from : i < n
      BY <2>1, Zenon
  <2>3. k < n
      BY <1>5, <1>6, <2>1, <2>2
  <2>4. \A j \in stored : j < n => ~(n <= j)
      BY <1>5, <2>1
  <2>. QED
      BY <1>7, <2>1, <2>3, <2>4, Zenon
<1>10. \E m : skipped \subseteq {m}
    BY <1>6, Zenon
<1>. QED
    BY <1>1, <1>8, <1>9, <1>10, Zenon DEF from


(* What the walk may have missed when it is told of the next key, or that  *)
(* there is none.                                                          *)
LEMMA NextMisses ==
    ASSUME Backend = "leveldb", GoesUp, at # Nowhere, steady \subseteq stored,
           Cardinality(missed(at)) <= gaps, NEW g \in Nat,
           g = gaps + IF db[at] = NoVal THEN 1 ELSE 0
    PROVE  /\ db_nextkey(at) = {} => Cardinality(steady \ visited) <= g
           /\ \A n \in db_nextkey(at) :
                 n \in Keys /\ at < n /\ Cardinality(missed(n)) <= g
<1> DEFINE skipped == IF db[at] = NoVal THEN first_of({j \in stored : j >= at}) ELSE {}
<1>1. at \in Keys /\ at \in visited /\ steady \in SUBSET Keys /\ gaps \in Nat
    BY Zenon DEF GoesUp
<1>2. /\ db_nextkey(at) = {} => \A j \in stored : j <= at \/ j \in skipped
      /\ \A n \in db_nextkey(at) :
            /\ n \in stored /\ at < n
            /\ \A j \in stored : j < n => j <= at \/ j \in skipped
      /\ \E m : skipped \subseteq {m}
    BY <1>1, NextOnLeveldb, Zenon
<1>3. db[at] # NoVal => skipped = {}
    OBVIOUS
<1> HIDE DEF skipped
<1>4. missed(at) \in SUBSET Keys
    BY <1>1, Zenon DEF missed
<1>5. \A j \in stored : j <= at => j < at \/ j = at
    BY <1>1, StoredKeys, KeysAreNumbers
<1>6. ASSUME NEW T \in SUBSET (steady \ visited),
             \A j \in T : j <= at \/ j \in skipped
      PROVE  Cardinality(T) <= g
  <2>1. \A j \in T : j \in missed(at) \/ j \in skipped
      BY <1>1, <1>5, <1>6, Zenon DEF missed
  <2>2. CASE db[at] # NoVal
    <3>1. T \in SUBSET missed(at)
        BY <1>3, <2>1, <2>2, Zenon
    <3>2. g = gaps
        BY <1>1, <2>2
    <3>. QED
        BY <1>1, <1>4, <3>1, <3>2, FewerKeys
  <2>3. CASE db[at] = NoVal
    <3>1. PICK m : skipped \subseteq {m}
        BY <1>2, Zenon
    <3>2. T \in SUBSET (missed(at) \cup {m})
        BY <2>1, <3>1, Zenon
    <3>3. g = gaps + 1
        BY <1>1, <2>3
    <3>. QED
        BY <1>1, <1>4, <3>2, <3>3, OneMoreKey
  <2>. QED
      BY <2>2, <2>3
<1>7. db_nextkey(at) = {} => Cardinality(steady \ visited) <= g
  <2> SUFFICES ASSUME db_nextkey(at) = {} PROVE Cardinality(steady \ visited) <= g
      OBVIOUS
  <2>1. \A j \in steady \ visited : j <= at \/ j \in skipped
      BY <1>2, Zenon
  <2>. QED
      BY <1>6, <2>1, Zenon
<1>8. ASSUME NEW n \in db_nextkey(at)
      PROVE  n \in Keys /\ at < n /\ Cardinality(missed(n)) <= g
  <2>1. n \in stored /\ at < n /\ \A j \in stored : j < n => j <= at \/ j \in skipped
      BY <1>2, Zenon
  <2>2. missed(n) \in SUBSET (steady \ visited)
      BY Zenon DEF missed
  <2>3. \A j \in missed(n) : j <= at \/ j \in skipped
      BY <2>1, Zenon DEF missed
  <2>4. Cardinality(missed(n)) <= g
      BY <1>6, <2>2, <2>3, Zenon
  <2>. QED
      BY <2>1, <2>4, StoredKeys, Zenon
<1>. QED
    BY <1>7, <1>8, Zenon

(* The first key misses nothing. *)
LEMMA FirstMisses ==
    ASSUME GoesUp, at = Nowhere, steady \subseteq stored
    PROVE  /\ db_firstkey = {} => Cardinality(steady \ visited) <= gaps
           /\ \A n \in db_firstkey :
                 n \in Keys /\ at < n /\ Cardinality(missed(n)) <= gaps
<1>1. gaps \in Nat /\ Cardinality({}) = 0
    BY FS_EmptySet DEF GoesUp
<1>2. Cardinality({}) <= gaps
    BY <1>1
<1>3. /\ stored # {} => \E n : n \in db_firstkey
      /\ \A n \in db_firstkey : n \in stored /\ \A j \in stored : n <= j
    BY StoredKeys, FirstOf, Zenon DEF db_firstkey
<1>4. ASSUME db_firstkey = {} PROVE Cardinality(steady \ visited) <= gaps
  <2>1. steady \ visited = {}
      BY <1>3, <1>4, Zenon
  <2>. QED
      BY <1>2, <2>1, Zenon
<1>5. ASSUME NEW n \in db_firstkey
      PROVE  n \in Keys /\ at < n /\ Cardinality(missed(n)) <= gaps
  <2>1. n \in Keys /\ \A j \in stored : n <= j /\ j \in Keys
      BY <1>3, StoredKeys, Zenon
  <2>2. at < n
      BY <2>1, KeysAreNumbers
  <2>3. \A j \in stored : ~(j < n)
    <3>1. \A a, b \in Nat : a <= b => ~(b < a)
        OBVIOUS
    <3>. QED
        BY <2>1, <3>1, KeysAreNumbers, Zenon
  <2>4. missed(n) = {}
      BY <2>3, Zenon DEF missed
  <2>. QED
      BY <1>2, <2>1, <2>2, <2>4, Zenon
<1>. QED
    BY <1>4, <1>5, Zenon

-----------------------------------------------------------------------------
(* Steady keys. *)

LEMMA SteadyPut ==
    ASSUME queue \in Seq(QueueEntry), NEW e \in QueueEntry,
           queue' = Append(queue, e), db' = db, NEW k,
           ~(e.req.op = "DEL" /\ e.req.key = k), Steady(k)
    PROVE  Steady(k)'
<1>1. PICK n \in Nat : n = Len(queue)
    OBVIOUS
<1>2. /\ DOMAIN queue = 1..n /\ DOMAIN queue' = 1..(n + 1)
      /\ \A i \in 1..n : queue'[i] = queue[i]
      /\ queue'[n + 1] = e
    BY <1>1
<1>3. \A i \in 1..(n + 1) : i \in 1..n \/ i = n + 1
    OBVIOUS
<1>4. \A i \in 1..n : i \in 1..(n + 1) /\ n + 1 > i
    OBVIOUS
<1>5. /\ \A i \in 1..n : \A op : writes(i, op, k)' <=> writes(i, op, k)
      /\ ~writes(n + 1, "DEL", k)'
    BY <1>2, Zenon DEF writes
<1>6. CASE Held(k)
  <2>1. \A i \in 1..(n + 1) : ~writes(i, "DEL", k)'
      BY <1>2, <1>3, <1>5, <1>6, Zenon DEF Held
  <2>. QED
      BY <1>2, <1>6, <2>1, Zenon DEF Held, Steady
<1>7. ASSUME NEW i \in 1..n, Arrives(k, i) PROVE Arrives(k, i)'
  <2>1. writes(i, "SET", k)'
      BY <1>5, <1>7, Zenon DEF Arrives
  <2>2. \A j \in 1..(n + 1) : j > i => ~writes(j, "DEL", k)'
      BY <1>2, <1>3, <1>5, <1>7, Zenon DEF Arrives
  <2>3. \A j \in 1..(n + 1) : queue'[j].cli = Walker => j > i
      BY <1>2, <1>3, <1>4, <1>7, Zenon DEF Arrives
  <2>. QED
      BY <1>2, <2>1, <2>2, <2>3, Zenon DEF Arrives
<1>. QED
    BY <1>2, <1>4, <1>6, <1>7, Zenon DEF Steady

LEMMA SteadySame ==
    ASSUME queue' = queue, db' = db, NEW k, Steady(k)
    PROVE  Steady(k)'
BY Zenon DEF Steady, Held, Arrives, writes

(* Without failures, a key is gone only after a DEL of it, and there after *)
(* a SET of it.                                                            *)
LEMMA ProcessStores ==
    ASSUME Backend = "leveldb", ~DbFaults, TypeInv, process_op, NEW k \in Keys,
           ~writes(1, "DEL", k),
           db[k] # NoVal \/ writes(1, "SET", k)
    PROVE  db'[k] # NoVal
<1>1. queue \in Seq(QueueEntry) /\ queue # <<>> /\ db \in [Keys -> MaybeValue]
    BY DEF TypeInv, TypeOK, process_op
<1>2. PICK c, r : c = Head(queue).cli /\ r = Head(queue).req /\ r = queue[1].req
    BY <1>1
<1>3. r \in Requests
  <2>1. Head(queue) \in QueueEntry
      BY <1>1
  <2>. QED
      BY <1>2, <2>1 DEF QueueEntry
<1>4. CASE k # r.key
  <2>1. db'[k] = db[k]
      BY <1>1, <1>2, <1>4, ProcessOthers DEF DbOK
  <2>. QED
      BY <1>2, <1>4, <2>1, Zenon DEF writes
<1>5. CASE k = r.key
  <2>1. /\ r.op # "DEL" /\ (r.op # "SET" => db[k] # NoVal)
      BY <1>2, <1>5, Zenon DEF writes
  <2>2. /\ r.op = "SET" => r.val \in Value
        /\ r.op = "CAS" => r.new \in Value
        /\ r.inc \in Int /\ NoVal \notin Value
      BY <1>3, RequestFields, ReplyTypes
  <2>3. ASSUME NEW v \in Value, NEW rv, db_set(k, v, rv) PROVE db'[k] # NoVal
      BY <1>1, <2>2, <2>3 DEF db_set
  <2>4. db' = db => r.op = "SET" \/ db'[k] # NoVal
      BY <2>1, Zenon
  <2>5. \/ r.op = "SET" /\ process_set(c, r)
        \/ r.op = "GET" /\ process_get(c, r)
        \/ r.op = "CAS" /\ process_cas(c, r)
        \/ r.op = "INCR" /\ process_incr(c, r)
        \/ r.op = "FIRSTKEY" /\ process_walk(c, db_firstkey)
        \/ r.op = "NEXTKEY" /\ process_walk(c, db_nextkey(r.key))
      BY <1>2, <2>1, Zenon DEF process_op
  <2>6. CASE r.op = "SET" /\ process_set(c, r)
      BY <1>5, <2>2, <2>3, <2>6, Zenon DEF process_set
  <2>7. CASE r.op = "GET" /\ process_get(c, r)
      BY <2>1, <2>7 DEF process_get, no_buffer
  <2>8. CASE r.op = "CAS" /\ process_cas(c, r)
    <3>1. db' = db \/ write_back(c, r.key, r.new, Mini("OK"))
        BY <2>8, Zenon DEF process_cas, no_buffer
    <3>. QED
        BY <1>5, <2>1, <2>2, <2>3, <2>8, <3>1 DEF write_back
  <2>9. CASE r.op = "INCR" /\ process_incr(c, r)
    <3>1. \/ db' = db
          \/ \E got \in {db[r.key], NoVal} :
                /\ got # NoVal
                /\ LET new == incremented(got, r.inc)
                   IN  write_back(c, r.key, new, Reply("OK", Number(new.num)))
        BY <2>9, Zenon DEF process_incr, no_buffer
    <3>2. CASE db' = db
        BY <2>1, <2>9, <3>2
    <3>3. ASSUME NEW got \in {db[r.key], NoVal}, got # NoVal, NEW rep,
                 write_back(c, r.key, incremented(got, r.inc), rep)
          PROVE  db'[k] # NoVal
      <4>1. got \in Value
          BY <1>1, <1>5, <3>3 DEF MaybeValue
      <4>2. incremented(got, r.inc) \in Value
          BY <2>2, <4>1, IncrementedType
      <4>. QED
          BY <1>5, <2>3, <3>3, <4>2, Zenon DEF write_back
    <3>. QED
        BY <3>1, <3>2, <3>3, Zenon
  <2>10. CASE r.op \in {"FIRSTKEY", "NEXTKEY"} /\ \E found : process_walk(c, found)
      BY <2>1, <2>10 DEF process_walk
  <2>. QED
      BY <2>5, <2>6, <2>7, <2>8, <2>9, <2>10, Zenon
<1>. QED
    BY <1>4, <1>5

LEMMA SteadyTake ==
    ASSUME Backend = "leveldb", ~DbFaults, TypeInv, process_op, NEW k \in Keys, Steady(k)
    PROVE  Steady(k)'
<1>1. queue \in Seq(QueueEntry) /\ queue # <<>> /\ queue' = Tail(queue)
    BY DEF TypeInv, TypeOK, process_op
<1>2. PICK n \in Nat : n = Len(queue) /\ n # 0
    BY <1>1
<1>3. /\ DOMAIN queue = 1..n /\ DOMAIN queue' = 1..(n - 1)
      /\ \A i \in 1..(n - 1) : queue'[i] = queue[i + 1]
    BY <1>1, <1>2
<1>4. /\ \A i \in 1..(n - 1) : i + 1 \in 1..n /\ i + 1 > 1
      /\ \A i \in 1..n : i = 1 \/ i - 1 \in 1..(n - 1)
      /\ 1 \in 1..n /\ ~(1 > 1)
    BY <1>2
<1>5. \A i \in 1..(n - 1) : \A op : writes(i, op, k)' <=> writes(i + 1, op, k)
    BY <1>3, Zenon DEF writes
<1>6. CASE Held(k)
  <2>1. ~writes(1, "DEL", k) /\ db[k] # NoVal
      BY <1>3, <1>4, <1>6, Zenon DEF Held
  <2>2. db'[k] # NoVal
      BY <2>1, ProcessStores, Zenon
  <2>3. \A i \in 1..(n - 1) : ~writes(i, "DEL", k)'
      BY <1>3, <1>4, <1>5, <1>6, Zenon DEF Held
  <2>. QED
      BY <1>3, <2>2, <2>3, Zenon DEF Held, Steady
<1>7. CASE Arrives(k, 1)
  <2>1. writes(1, "SET", k) /\ ~writes(1, "DEL", k)
      BY <1>7 DEF Arrives, writes
  <2>2. db'[k] # NoVal
      BY <2>1, ProcessStores, Zenon
  <2>3. \A i \in 1..(n - 1) : ~writes(i, "DEL", k)'
      BY <1>3, <1>4, <1>5, <1>7, Zenon DEF Arrives
  <2>. QED
      BY <1>3, <2>2, <2>3, Zenon DEF Held, Steady
<1>8. ASSUME NEW i \in 1..n, i # 1, Arrives(k, i) PROVE Steady(k)'
  <2>1. PICK h \in 1..(n - 1) : i = h + 1
    <3>1. i - 1 \in 1..(n - 1) /\ i = (i - 1) + 1
        BY <1>8
    <3>. QED
        BY <3>1, Zenon
  <2>2. \A j \in 1..(n - 1) : j > h <=> j + 1 > i
      BY <2>1
  <2>3. writes(h, "SET", k)'
      BY <1>5, <1>8, <2>1, Zenon DEF Arrives
  <2>4. \A j \in 1..(n - 1) : j > h => ~writes(j, "DEL", k)'
      BY <1>3, <1>4, <1>5, <1>8, <2>2, Zenon DEF Arrives
  <2>5. \A j \in 1..(n - 1) : queue'[j].cli = Walker => j > h
      BY <1>3, <1>4, <1>8, <2>2, Zenon DEF Arrives
  <2>6. Arrives(k, h)'
      BY <1>3, <2>3, <2>4, <2>5, Zenon DEF Arrives
  <2>. QED
      BY <1>3, <2>6, Zenon DEF Steady
<1>. QED
    BY <1>3, <1>6, <1>7, <1>8, Zenon DEF Steady

(* When the walker's request is the next, every steady key is stored. *)
LEMMA SteadyStored ==
    ASSUME SteadyKept, steady \subseteq Keys, queue \in Seq(QueueEntry), queue # <<>>,
           queue[1].cli = Walker
    PROVE  steady \subseteq stored
<1>1. DOMAIN queue = 1..Len(queue) /\ 1 \in DOMAIN queue
    OBVIOUS
<1>2. \A i \in DOMAIN queue : ~(1 > i)
    BY <1>1
<1>3. ASSUME NEW k \in steady PROVE db[k] # NoVal
    BY <1>1, <1>2, Zenon DEF SteadyKept, Steady, Arrives, Held
<1>. QED
    BY <1>3, Zenon DEF stored


LEMMA ToBeStored ==
    ASSUME queue \in Seq(QueueEntry), \A i \in DOMAIN queue : queue[i].cli # Walker,
           NEW k, to_be_stored(k)
    PROVE  Steady(k)
<1> DEFINE later == {i \in DOMAIN queue : /\ queue[i].req.key = k
                                          /\ queue[i].req.op \in {"SET", "DEL"}}
<1>1. PICK n \in Nat : DOMAIN queue = 1..n
    OBVIOUS
<1>2. IF later = {} THEN db[k] # NoVal ELSE queue[Max(later)].req.op = "SET"
    BY Zenon DEF to_be_stored
<1>3. \A i \in DOMAIN queue : writes(i, "DEL", k) => i \in later
    BY Zenon DEF writes
<1>4. \A i \in later : i \in DOMAIN queue /\ queue[i].req.key = k
    BY Zenon
<1> HIDE DEF later
<1>5. CASE later = {}
  <2>1. Held(k)
      BY <1>2, <1>3, <1>5, Zenon DEF Held
  <2>. QED
      BY <2>1, Zenon DEF Steady
<1>6. CASE later # {}
  <2> DEFINE back == {n - i : i \in later}
  <2>1. \A i \in later : i \in 1..n /\ n - i \in Nat
      BY <1>1, <1>4
  <2>2. back # {} /\ back \subseteq Nat
      BY <1>6, <2>1, Zenon
  <2> HIDE DEF back
  <2>3. PICK b \in back : \A x \in back : b <= x
      BY <2>2, LeastNumber
  <2>4. PICK m \in later : b = n - m
      BY <2>3, Zenon DEF back
  <2>5. \A i \in later : n - m <= n - i
      BY <2>3, <2>4, Zenon DEF back
  <2>6. \A i \in later : m >= i
      BY <2>1, <2>5
  <2>7. PICK l : l = Max(later) /\ l \in later /\ \A i \in later : l >= i
      BY <2>6, Zenon DEF Max
  <2>8. l \in DOMAIN queue /\ writes(l, "SET", k)
      BY <1>2, <1>4, <1>6, <2>7, Zenon DEF writes
  <2>9. \A j \in DOMAIN queue : j > l => ~writes(j, "DEL", k)
    <3>1. \A i \in 1..n : l >= i => ~(i > l)
        BY <2>1, <2>7
    <3>. QED
        BY <1>1, <1>3, <2>7, <3>1, Zenon
  <2>10. Arrives(k, l)
      BY <2>8, <2>9, Zenon DEF Arrives
  <2>. QED
      BY <2>8, <2>10, Zenon DEF Steady
<1>. QED
    BY <1>5, <1>6

-----------------------------------------------------------------------------
(* The walker's call. *)

LEMMA WalkerSituation ==
    ASSUME ReplyInv, OneWalks
    PROVE  /\ wait[Walker] = NoReq => /\ inbox[Walker] = <<>>
                                      /\ \A i \in DOMAIN queue : queue[i].cli # Walker
           /\ \A i \in DOMAIN queue : queue[i].cli = Walker =>
                 /\ wait[Walker] # NoReq /\ wait[Walker] = queue[i].req
                 /\ inbox[Walker] = <<>>
           /\ inbox[Walker] # <<>> => Len(inbox[Walker]) = 1
<1>1. Walker \in Clients
    BY WalkerAssumption
<1>2. Idle(Walker) \/ Answered(Walker) \/ Queued(Walker) \/ Lost(Walker)
    BY <1>1, OneReplyOwedMeans DEF ReplyInv
<1>3. \A i \in DOMAIN queue : queue[i].cli = Walker => i \in owed(Walker)
  <2>1. \A i : walks(queue[i].req) => owes_reply(queue[i])
      BY DEF walks, owes_reply
  <2>. QED
      BY <2>1, Zenon DEF OneWalks, owed
<1>4. CASE Idle(Walker)
    BY <1>3, <1>4, Zenon DEF Idle
<1>5. CASE Answered(Walker)
    BY <1>3, <1>5, Zenon DEF Answered
<1>6. CASE Queued(Walker)
    BY <1>3, <1>6, Zenon DEF Queued
<1>7. CASE Lost(Walker)
    BY <1>3, <1>7, Zenon DEF Lost
<1>. QED
    BY <1>2, <1>4, <1>5, <1>6, <1>7

LEMMA OneWalksPut ==
    ASSUME queue \in Seq(QueueEntry), OneWalks, NEW e \in QueueEntry,
           queue' = Append(queue, e), e.cli = Walker <=> walks(e.req)
    PROVE  OneWalks'
<1>1. PICK n \in Nat : /\ DOMAIN queue = 1..n /\ DOMAIN queue' = 1..(n + 1)
                       /\ \A i \in 1..n : queue'[i] = queue[i]
                       /\ queue'[n + 1] = e
    OBVIOUS
<1>2. \A i \in 1..(n + 1) : i \in 1..n \/ i = n + 1
    OBVIOUS
<1>3. \A i \in 1..(n + 1) : queue'[i].cli = Walker <=> walks(queue'[i].req)
    BY <1>1, <1>2, Zenon DEF OneWalks
<1>. QED
    BY <1>1, <1>3, Zenon DEF OneWalks, walks

LEMMA OneWalksTake ==
    ASSUME queue \in Seq(QueueEntry), queue # <<>>, OneWalks, queue' = Tail(queue)
    PROVE  OneWalks'
<1>1. PICK n \in Nat : n = Len(queue) /\ n # 0
    OBVIOUS
<1>2. /\ DOMAIN queue = 1..n /\ DOMAIN queue' = 1..(n - 1)
      /\ \A i \in 1..(n - 1) : queue'[i] = queue[i + 1]
    BY <1>1
<1>3. \A i \in 1..(n - 1) : i + 1 \in 1..n
    BY <1>1
<1>4. \A i \in 1..(n - 1) : queue'[i].cli = Walker <=> walks(queue'[i].req)
    BY <1>2, <1>3, Zenon DEF OneWalks
<1>. QED
    BY <1>2, <1>4, Zenon DEF OneWalks, walks

(* What any call does to the walker and the queue. *)
LEMMA AnyCall ==
    ASSUME TypeInv, NEW c \in Clients, NEW r \in Requests, parse_message(c, r)
    PROVE  /\ [cli |-> c, req |-> r] \in QueueEntry
           /\ queue \in Seq(QueueEntry)
           /\ db' = db
           /\ wait[c] = NoReq /\ wait'[c] = r
           /\ queue' = queue \/ queue' = Append(queue, [cli |-> c, req |-> r])
           /\ \A d \in Clients : d # c => inbox'[d] = inbox[d] /\ wait'[d] = wait[d]
<1>1. /\ queue \in Seq(QueueEntry) /\ inbox \in [Clients -> Seq(ReplyType)]
      /\ wait \in [Clients -> Requests \cup {NoReq}]
    BY Zenon DEF TypeInv, TypeOK
<1>2. [cli |-> c, req |-> r] \in QueueEntry
    BY DEF QueueEntry
<1>3. wait[c] = NoReq /\ wait' = [wait EXCEPT ![c] = r] /\ db' = db
    BY Zenon DEF parse_message
<1>4. wait'[c] = r /\ \A d \in Clients : d # c => wait'[d] = wait[d]
    BY <1>1, <1>3, Zenon
<1>5. AnswersOnce(c, r)
    BY ParseAnswersOnce
<1>6. \A d \in Clients : d # c => inbox'[d] = inbox[d]
    BY <1>1, <1>5, ReplyAppends DEF AnswersOnce, answers
<1>7. queue' = queue \/ queue' = Append(queue, [cli |-> c, req |-> r])
    BY <1>5, Zenon DEF AnswersOnce
<1>. QED
    BY <1>1, <1>2, <1>3, <1>4, <1>6, <1>7, Zenon

LEMMA OneReply ==
    ASSUME inbox \in [Clients -> Seq(ReplyType)], NEW c \in Clients, inbox[c] = <<>>,
           NEW rep, reply(c, rep)
    PROVE  \A i \in DOMAIN inbox'[c] : inbox'[c][i] = rep
<1>1. inbox'[c] = Append(<<>>, rep)
    BY Zenon DEF reply
<1>2. <<>> \in Seq({rep}) /\ rep \in {rep}
    OBVIOUS
<1>3. DOMAIN Append(<<>>, rep) = 1..1 /\ Append(<<>>, rep)[1] = rep
    BY <1>2
<1>4. \A i \in 1..1 : i = 1
    OBVIOUS
<1>. QED
    BY <1>1, <1>3, <1>4, Zenon

LEMMA WalkerCalls ==
    ASSUME ReplyInv, OneWalks, NEW r \in Requests, walks(r), parse_message(Walker, r)
    PROVE  /\ wait[Walker] = NoReq /\ wait'[Walker] = r /\ db' = db
           /\ OneWalks'
           /\ \A i \in DOMAIN queue : queue[i].cli # Walker
           /\ \A i \in DOMAIN inbox'[Walker] : inbox'[Walker][i] = Mini("ERR_MEM")
           /\ \A k : Steady(k) => Steady(k)'
<1>1. Walker \in Clients /\ TypeInv /\ r.op \in {"FIRSTKEY", "NEXTKEY"}
    BY WalkerAssumption, Zenon DEF ReplyInv, walks
<1> DEFINE e == [cli |-> Walker, req |-> r]
<1>2. /\ e \in QueueEntry /\ queue \in Seq(QueueEntry) /\ db' = db
      /\ wait[Walker] = NoReq /\ wait'[Walker] = r
      /\ queue' = queue \/ queue' = Append(queue, e)
    BY <1>1, AnyCall, Zenon
<1>3. e.cli = Walker /\ e.req = r
    OBVIOUS
<1> HIDE DEF e
<1>4. inbox[Walker] = <<>> /\ \A i \in DOMAIN queue : queue[i].cli # Walker
    BY <1>2, WalkerSituation, Zenon
<1>5. inbox' = inbox \/ reply(Walker, Mini("ERR_MEM"))
    BY <1>1 DEF parse_message, parse_walk, put_in_queue
<1>6. \A i \in DOMAIN inbox'[Walker] : inbox'[Walker][i] = Mini("ERR_MEM")
  <2>1. CASE inbox' = inbox
    <3>1. DOMAIN <<>> = {}
        OBVIOUS
    <3>. QED
        BY <1>4, <2>1, <3>1, Zenon
  <2>2. CASE reply(Walker, Mini("ERR_MEM"))
    <3>1. inbox \in [Clients -> Seq(ReplyType)]
        BY <1>1, Zenon DEF TypeInv, TypeOK
    <3>. QED
        BY <1>1, <1>4, <2>2, <3>1, OneReply, Zenon
  <2>. QED
      BY <1>5, <2>1, <2>2
<1>7. OneWalks' /\ \A k : Steady(k) => Steady(k)'
  <2>1. CASE queue' = queue
      BY <1>2, <2>1, SteadySame, Zenon DEF OneWalks, walks
  <2>2. CASE queue' = Append(queue, e)
    <3>1. OneWalks'
        BY <1>2, <1>3, <2>2, OneWalksPut, Zenon
    <3>2. e.req.op # "DEL"
        BY <1>1, <1>3
    <3>. QED
        BY <1>2, <2>2, <3>1, <3>2, SteadyPut, Zenon
  <2>. QED
      BY <1>2, <2>1, <2>2
<1>. QED
    BY <1>2, <1>4, <1>6, <1>7, Zenon


(* Fewer steady keys, or more gaps, and what the walk was told still holds. *)
LEMMA StillTold ==
    ASSUME GoesUp, steady' \subseteq steady, at' = at, visited' = visited, gaps' = gaps
    PROVE  /\ Cardinality(missed(at)) <= gaps => Cardinality(missed(at)') <= gaps'
           /\ Cardinality(steady \ visited) <= gaps =>
                 Cardinality(steady' \ visited') <= gaps'
           /\ \A rep : Tells(rep) => Tells(rep)'
<1>1. gaps \in Nat /\ steady \in SUBSET Keys
    BY Zenon DEF GoesUp
<1>2. \A n : missed(n) \in SUBSET Keys /\ missed(n)' \in SUBSET missed(n)
    BY <1>1, Zenon DEF missed
<1>3. (steady \ visited) \in SUBSET Keys /\ (steady' \ visited') \in SUBSET (steady \ visited)
    BY <1>1, Zenon
<1>4. ASSUME NEW n, Cardinality(missed(n)) <= gaps PROVE Cardinality(missed(n)') <= gaps
    BY <1>1, <1>2, <1>4, FewerKeys, Zenon
<1>5. missed(at)' = {k \in steady' : k < at} \ visited'
    BY Zenon DEF missed
<1>6. Cardinality(missed(at)) <= gaps => Cardinality(missed(at)') <= gaps
  <2> SUFFICES ASSUME Cardinality(missed(at)) <= gaps PROVE Cardinality(missed(at)') <= gaps
      OBVIOUS
  <2>1. missed(at)' \in SUBSET missed(at)
      BY <1>5, Zenon DEF missed
  <2>2. missed(at) \in SUBSET Keys
      BY <1>2, Zenon
  <2>. QED
      BY <1>1, <2>1, <2>2, FewerKeys, Zenon
<1>7. Cardinality(steady \ visited) <= gaps => Cardinality(steady' \ visited') <= gaps
    BY <1>1, <1>3, FewerKeys, Zenon
<1>8. ASSUME NEW rep, Tells(rep) PROVE Tells(rep)'
  <2>1. CASE rep = Mini("ERR_MEM")
      BY <2>1, Zenon DEF Tells
  <2>2. CASE rep = Mini("NOTIN") /\ Cardinality(steady \ visited) <= gaps
      BY <1>7, <2>2, Zenon DEF Tells
  <2>3. ASSUME NEW n \in Keys, rep = Reply("OK", KeyData(n)), at < n,
               Cardinality(missed(n)) <= gaps
        PROVE  Tells(rep)'
    <3>1. Cardinality(missed(n)') <= gaps'
        BY <1>4, <2>3, Zenon
    <3>2. at' < n
        BY <2>3, Zenon
    <3>. QED
        BY <2>3, <3>1, <3>2, Zenon DEF Tells
  <2>. QED
      BY <1>8, <2>1, <2>2, <2>3, Zenon DEF Tells
<1>. QED
    BY <1>6, <1>7, <1>8, Zenon

LEMMA ToldMeans ==
    ASSUME \A i \in DOMAIN inbox'[Walker] :
              \E rep : rep = inbox'[Walker][i] /\ Tells(rep)'
    PROVE  ToldRight'
BY Zenon DEF ToldRight, Tells

LEMMA FirstkeyWInv ==
    ASSUME WInv, ReplyInv', nmdb_firstkey
    PROVE  WInv'
<1> DEFINE r == Blank("FIRSTKEY", Min(Keys), {})
<1>1. /\ walk = "off" /\ parse_message(Walker, r) /\ walk' = "on"
      /\ at' = at /\ visited' = visited /\ twice' = twice /\ gaps' = gaps
      /\ steady' = {k \in Keys : to_be_stored(k)}
    BY Zenon DEF nmdb_firstkey
<1>2. r \in Requests /\ r.op = "FIRSTKEY"
    BY WalkerAssumption DEF Blank
<1> HIDE DEF r
<1>3. /\ ReplyInv /\ OneWalks /\ GoesUp /\ queue \in Seq(QueueEntry)
    BY Zenon DEF WInv, ReplyInv, TypeInv, TypeOK
<1>4. walks(r)
    BY <1>2 DEF walks
<1>5. /\ wait'[Walker] = r /\ OneWalks'
      /\ \A i \in DOMAIN queue : queue[i].cli # Walker
      /\ \A i \in DOMAIN inbox'[Walker] : inbox'[Walker][i] = Mini("ERR_MEM")
      /\ \A k : Steady(k) => Steady(k)'
    BY <1>1, <1>2, <1>3, <1>4, WalkerCalls, Zenon
<1>6. at = Nowhere /\ visited = {} /\ ~twice /\ gaps \in Nat
    BY <1>1, <1>3, Zenon DEF GoesUp
<1>7. AsksFromHere'
    BY <1>1, <1>2, <1>5, <1>6, Zenon DEF AsksFromHere
<1>8. "on" # "off" /\ "on" # "over"
    OBVIOUS
<1>9. GoesUp'
  <2>1. /\ at' \in Keys \cup {Nowhere} /\ visited' \subseteq Keys /\ steady' \subseteq Keys
        /\ \A k \in visited' : k <= at'
        /\ at' # Nowhere => at' \in visited'
      BY <1>1, <1>6, Zenon
  <2>. QED
      BY <1>1, <1>6, <1>8, <2>1, Zenon DEF GoesUp
<1>10. SteadyKept'
  <2>1. \A k \in steady' : Steady(k)
      BY <1>1, <1>3, <1>5, ToBeStored, Zenon
  <2>. QED
      BY <1>5, <2>1, Zenon DEF SteadyKept
<1>11. Cardinality(missed(at)') <= gaps'
  <2>1. missed(at)' = {}
    <3>1. \A k \in Keys : ~(k < Nowhere)
        BY KeysAreNumbers DEF Nowhere
    <3>. QED
        BY <1>1, <1>6, <3>1, Zenon DEF missed
  <2>2. Cardinality({}) = 0
      BY FS_EmptySet
  <2>. QED
      BY <1>1, <1>6, <2>1, <2>2
<1>12. ToldRight'
  <2>1. \A rep : rep = Mini("ERR_MEM") => Tells(rep)'
      BY Zenon DEF Tells
  <2>. QED
      BY <1>5, <2>1, ToldMeans, Zenon
<1>. QED
    BY <1>1, <1>5, <1>7, <1>8, <1>9, <1>10, <1>11, <1>12, Zenon DEF WInv

LEMMA NextkeyWInv ==
    ASSUME WInv, ReplyInv', nmdb_nextkey
    PROVE  WInv'
<1> DEFINE r == Blank("NEXTKEY", at, {})
<1>1. /\ walk = "on" /\ at # Nowhere /\ parse_message(Walker, r)
      /\ walk' = walk /\ steady' = steady
      /\ at' = at /\ visited' = visited /\ twice' = twice /\ gaps' = gaps
    BY Zenon DEF nmdb_nextkey, wvars
<1>2. ReplyInv /\ OneWalks /\ GoesUp
    BY Zenon DEF WInv
<1>3. at \in Keys
    BY <1>1, <1>2, Zenon DEF GoesUp
<1>4. r \in Requests /\ r.op = "NEXTKEY" /\ r.key = at
    BY <1>3, WalkerAssumption DEF Blank
<1> HIDE DEF r
<1>5. walks(r)
    BY <1>4 DEF walks
<1>6. /\ wait'[Walker] = r /\ OneWalks'
      /\ \A i \in DOMAIN inbox'[Walker] : inbox'[Walker][i] = Mini("ERR_MEM")
      /\ \A k : Steady(k) => Steady(k)'
    BY <1>1, <1>2, <1>4, <1>5, WalkerCalls, Zenon
<1>7. AsksFromHere'
    BY <1>1, <1>4, <1>6, Zenon DEF AsksFromHere
<1>8. "on" # "off" /\ "on" # "over"
    OBVIOUS
<1>9. GoesUp'
  <2>1. walk' # "off"
      BY <1>1, <1>8, Zenon
  <2>. QED
      BY <1>1, <1>2, <2>1, Zenon DEF GoesUp
<1>10. SteadyKept'
    BY <1>1, <1>6, Zenon DEF WInv, SteadyKept
<1>11. Cardinality(missed(at)') <= gaps'
    BY <1>1, <1>2, StillTold, Zenon DEF WInv
<1>12. ToldRight'
  <2>1. \A rep : rep = Mini("ERR_MEM") => Tells(rep)'
      BY Zenon DEF Tells
  <2>. QED
      BY <1>6, <2>1, ToldMeans, Zenon
<1>. QED
    BY <1>1, <1>6, <1>7, <1>8, <1>9, <1>10, <1>11, <1>12, Zenon DEF WInv

(* Steps of others that leave the walker's part alone. *)
LEMMA WalkerLeftAlone ==
    ASSUME WInv, ReplyInv', OneWalks', SteadyKept',
           steady' \subseteq steady, UNCHANGED <<walk, at, visited, twice, gaps>>,
           wait'[Walker] = wait[Walker], inbox'[Walker] = inbox[Walker]
    PROVE  WInv'
<1>1. GoesUp /\ AsksFromHere /\ Cardinality(missed(at)) <= gaps
    BY Zenon DEF WInv
<1>2. GoesUp' /\ AsksFromHere'
    BY <1>1, Zenon DEF GoesUp, AsksFromHere
<1>3. /\ Cardinality(missed(at)) <= gaps => Cardinality(missed(at)') <= gaps'
      /\ Cardinality(steady \ visited) <= gaps =>
            Cardinality(steady' \ visited') <= gaps'
      /\ \A rep : Tells(rep) => Tells(rep)'
    BY <1>1, StillTold, Zenon
<1>4. walk' = "over" => Cardinality(steady' \ visited') <= gaps'
    BY <1>3, Zenon DEF WInv
<1>5. ToldRight'
  <2>1. \A i \in DOMAIN inbox[Walker] : Tells(inbox[Walker][i])
      BY Zenon DEF WInv, ToldRight
  <2>2. \A i \in DOMAIN inbox[Walker] : \E rep : rep = inbox[Walker][i] /\ Tells(rep)'
      BY <1>3, <2>1, Zenon
  <2>. QED
      BY <2>2, ToldMeans, Zenon
<1>. QED
    BY <1>1, <1>2, <1>3, <1>4, <1>5, Zenon DEF WInv

LEMMA WriteWInv ==
    ASSUME WInv, ReplyInv', NEW c \in Others, NEW r \in Requests, ~walks(r), WWrite(c, r)
    PROVE  WInv'
<1>1. c \in Clients /\ c # Walker /\ Walker \in Clients
    BY WalkerAssumption, Zenon DEF Others
<1>2. /\ parse_message(c, r)
      /\ steady' = steady \ {k \in {r.key} : r.op = "DEL" /\ queue' # queue}
      /\ UNCHANGED <<walk, at, visited, twice, gaps>>
    BY Zenon DEF WWrite
<1> DEFINE e == [cli |-> c, req |-> r]
<1>3. TypeInv /\ OneWalks /\ SteadyKept
    BY Zenon DEF WInv, ReplyInv
<1>4. /\ e \in QueueEntry /\ queue \in Seq(QueueEntry) /\ db' = db
      /\ queue' = queue \/ queue' = Append(queue, e)
      /\ inbox'[Walker] = inbox[Walker] /\ wait'[Walker] = wait[Walker]
    BY <1>1, <1>2, <1>3, AnyCall, Zenon
<1>5. e.cli = c /\ e.req = r
    OBVIOUS
<1> HIDE DEF e
<1>6. OneWalks' /\ SteadyKept'
  <2>1. CASE queue' = queue
    <3>1. \A k \in steady' : Steady(k)'
        BY <1>2, <1>3, <1>4, <2>1, SteadySame, Zenon DEF SteadyKept
    <3>. QED
        BY <1>3, <2>1, <3>1, Zenon DEF OneWalks, walks, SteadyKept
  <2>2. CASE queue' # queue /\ queue' = Append(queue, e)
    <3>1. OneWalks'
        BY <1>1, <1>3, <1>4, <1>5, <2>2, OneWalksPut, Zenon
    <3>2. \A k \in steady' : k \in steady /\ ~(e.req.op = "DEL" /\ e.req.key = k)
        BY <1>2, <1>5, <2>2, Zenon
    <3>3. \A k \in steady' : Steady(k)'
        BY <1>3, <1>4, <2>2, <3>2, SteadyPut, Zenon DEF SteadyKept
    <3>. QED
        BY <3>1, <3>3, Zenon DEF SteadyKept
  <2>. QED
      BY <1>4, <2>1, <2>2
<1>7. steady' \subseteq steady
    BY <1>2, Zenon
<1>. QED
    BY <1>2, <1>4, <1>6, <1>7, WalkerLeftAlone, Zenon

LEMMA OtherReturnWInv ==
    ASSUME WInv, ReplyInv', NEW c \in Others, get_rep(c), UNCHANGED wvars
    PROVE  WInv'
<1>1. c \in Clients /\ c # Walker /\ Walker \in Clients
    BY WalkerAssumption, Zenon DEF Others
<1>2. inbox \in [Clients -> Seq(ReplyType)] /\ wait \in [Clients -> Requests \cup {NoReq}]
    BY Zenon DEF WInv, ReplyInv, TypeInv, TypeOK
<1>3. /\ queue' = queue /\ db' = db
      /\ inbox'[Walker] = inbox[Walker] /\ wait'[Walker] = wait[Walker]
    BY <1>1, <1>2, Zenon DEF get_rep
<1>4. OneWalks'
    BY <1>3, Zenon DEF WInv, OneWalks, walks
<1>5. SteadyKept'
    BY <1>3, SteadySame, Zenon DEF WInv, SteadyKept, wvars
<1>. QED
    BY <1>3, <1>4, <1>5, WalkerLeftAlone, Zenon DEF wvars


LEMMA WReturnWInv ==
    ASSUME WInv, ReplyInv', WReturn
    PROVE  WInv'
<1>1. Walker \in Clients
    BY WalkerAssumption
<1>2. /\ inbox \in [Clients -> Seq(ReplyType)] /\ wait \in [Clients -> Requests \cup {NoReq}]
      /\ ret \in [Clients -> ResultType]
    BY Zenon DEF WInv, ReplyInv, TypeInv, TypeOK
<1>3. /\ get_rep(Walker) /\ steady' = steady /\ gaps' = gaps
    BY Zenon DEF WReturn
<1>4. ReplyInv /\ OneWalks /\ AsksFromHere /\ GoesUp /\ SteadyKept
    BY Zenon DEF WInv
<1>5. PICK rep : rep = Head(inbox[Walker])
    OBVIOUS
<1>6. /\ wait[Walker] # NoReq /\ inbox[Walker] # <<>>
      /\ queue' = queue /\ db' = db
      /\ wait'[Walker] = NoReq /\ inbox'[Walker] = Tail(inbox[Walker])
      /\ ret'[Walker] = LibResult(wait[Walker].op, rep)
    BY <1>1, <1>2, <1>3, <1>5, Zenon DEF get_rep
<1>7. walk = "on" /\ wait[Walker].op \in {"FIRSTKEY", "NEXTKEY"}
    BY <1>4, <1>6, Zenon DEF AsksFromHere
<1>8. ret'[Walker] = nmdb_walk(rep)
    BY <1>6, <1>7 DEF LibResult
<1>9. Len(inbox[Walker]) = 1
    BY <1>4, <1>6, WalkerSituation, Zenon
<1>10. Tells(rep) /\ DOMAIN inbox'[Walker] = {}
  <2>1. inbox[Walker] \in Seq(ReplyType)
      BY <1>1, <1>2, Zenon
  <2>2. 1 \in DOMAIN inbox[Walker] /\ rep = inbox[Walker][1]
      BY <1>5, <1>9, <2>1
  <2>3. DOMAIN Tail(inbox[Walker]) = {}
    <3>1. Tail(inbox[Walker]) = <<>>
        BY <1>9, <2>1, TailOfOne, Zenon
    <3>2. DOMAIN <<>> = {}
        OBVIOUS
    <3>. QED
        BY <3>1, <3>2, Zenon
  <2>. QED
      BY <1>6, <2>2, <2>3, Zenon DEF WInv, ToldRight
<1>11. OneWalks' /\ AsksFromHere' /\ SteadyKept' /\ ToldRight'
  <2>1. SteadyKept'
      BY <1>3, <1>4, <1>6, SteadySame, Zenon DEF SteadyKept
  <2>2. OneWalks'
      BY <1>4, <1>6, Zenon DEF OneWalks, walks
  <2>3. AsksFromHere'
      BY <1>6, Zenon DEF AsksFromHere
  <2>4. ToldRight'
      BY <1>10, ToldMeans, Zenon
  <2>. QED
      BY <2>1, <2>2, <2>3, <2>4
<1>12. /\ at \in Keys \cup {Nowhere} /\ visited \subseteq Keys /\ steady \subseteq Keys
       /\ \A k \in visited : k <= at
       /\ at # Nowhere => at \in visited
       /\ ~twice /\ gaps \in Nat
    BY <1>4, Zenon DEF GoesUp
<1>13. CASE ret'[Walker].rc = 0
  <2>1. /\ at' = ret'[Walker].data.num /\ visited' = visited \cup {at'}
        /\ twice' = (twice \/ at' \in visited) /\ walk' = walk
      BY <1>13 DEF WReturn
  <2>2. rep.code = "OK"
      BY <1>8, <1>13 DEF nmdb_walk, Result
  <2>3. PICK n \in Keys : /\ rep = Reply("OK", KeyData(n)) /\ at < n
                          /\ Cardinality(missed(n)) <= gaps
      BY <1>10, <2>2 DEF Tells, Mini, Reply
  <2>4. at' = n
      BY <1>8, <2>1, <2>3 DEF nmdb_walk, Result, Reply, KeyData
  <2>5. \A k \in visited : k <= n /\ k # n
      BY <1>12, <2>3, KeysAreNumbers
  <2>6. n \notin visited /\ n <= n /\ n # Nowhere
      BY <2>5, KeysAreNumbers
  <2>7. ~twice' /\ visited' = visited \cup {n}
      BY <1>12, <2>1, <2>4, <2>6, Zenon
  <2>8. walk' = "on" /\ "on" # "off" /\ "on" # "over"
      BY <1>7, <2>1
  <2>9. GoesUp'
    <3>1. /\ visited' \subseteq Keys /\ \A k \in visited' : k <= n
          /\ n \in visited'
        BY <1>12, <2>5, <2>6, <2>7, Zenon
    <3>. QED
        BY <1>3, <1>12, <2>4, <2>7, <2>8, <3>1, Zenon DEF GoesUp
  <2>10. Cardinality(missed(at)') <= gaps'
    <3>1. missed(at)' \in SUBSET missed(n) /\ missed(n) \in SUBSET Keys
        BY <1>3, <1>12, <2>4, <2>7, Zenon DEF missed
    <3>. QED
        BY <1>3, <1>12, <2>3, <3>1, FewerKeys, Zenon
  <2>. QED
      BY <1>11, <2>8, <2>9, <2>10, Zenon DEF WInv
<1>14. CASE ret'[Walker].rc # 0
  <2>1. at' = at /\ visited' = visited /\ twice' = twice
      BY <1>14 DEF WReturn
  <2>2. \/ ret'[Walker].rc = -1 /\ walk' = "over"
        \/ walk' = "failed"
      BY <1>14 DEF WReturn
  <2>3. walk' # "off"
      BY <2>2
  <2>4. GoesUp'
      BY <1>3, <1>12, <2>1, <2>3, Zenon DEF GoesUp
  <2>5. Cardinality(missed(at)') <= gaps'
      BY <1>3, <1>4, <2>1, StillTold, Zenon DEF WInv
  <2>6. walk' = "over" => Cardinality(steady' \ visited') <= gaps'
    <3> SUFFICES ASSUME walk' = "over" PROVE Cardinality(steady' \ visited') <= gaps'
        OBVIOUS
    <3>1. ret'[Walker].rc = -1
        BY <2>2
    <3>2. rep.code = "NOTIN"
        BY <1>8, <3>1 DEF nmdb_walk, Result
    <3>3. Cardinality(steady \ visited) <= gaps
        BY <1>10, <3>2 DEF Tells, Mini, Reply
    <3>. QED
        BY <1>3, <2>1, <3>3, Zenon
  <2>. QED
      BY <1>11, <2>4, <2>5, <2>6, Zenon DEF WInv
<1>. QED
    BY <1>13, <1>14

(* The DB thread takes the walker's request. *)
LEMMA WalkerServed ==
    ASSUME Backend = "leveldb", ~DbFaults, WInv, WProcess, Head(queue).cli = Walker
    PROVE  /\ gaps' \in Nat /\ gaps' >= gaps /\ walk = "on"
           /\ ToldRight'
<1>1. /\ process_op /\ walk' = walk /\ at' = at /\ visited' = visited /\ steady' = steady
      /\ gaps' = gaps + IF Head(queue).req.op = "NEXTKEY" /\ db[Head(queue).req.key] = NoVal
                        THEN 1 ELSE 0
    BY Zenon DEF WProcess
<1>2. /\ ReplyInv /\ OneWalks /\ AsksFromHere /\ GoesUp /\ SteadyKept
      /\ Cardinality(missed(at)) <= gaps
    BY Zenon DEF WInv
<1>3. /\ queue \in Seq(QueueEntry) /\ queue # <<>>
      /\ inbox \in [Clients -> Seq(ReplyType)] /\ Walker \in Clients
    BY <1>1, <1>2, WalkerAssumption, Zenon DEF ReplyInv, TypeInv, TypeOK, process_op
<1>4. Head(queue) = queue[1] /\ 1 \in DOMAIN queue
    BY <1>3
<1>5. PICK r : r = Head(queue).req
    OBVIOUS
<1>6. wait[Walker] # NoReq /\ wait[Walker] = r /\ inbox[Walker] = <<>>
    BY <1>2, <1>4, <1>5, WalkerSituation, Zenon
<1>7. /\ walk = "on"
      /\ \/ r.op = "FIRSTKEY" /\ at = Nowhere
         \/ r.op = "NEXTKEY" /\ r.key = at /\ at # Nowhere
    BY <1>2, <1>6, Zenon DEF AsksFromHere
<1>8. PICK g : g = gaps + IF r.op = "NEXTKEY" /\ db[r.key] = NoVal THEN 1 ELSE 0
    OBVIOUS
<1>9. gaps' = g /\ g \in Nat /\ g >= gaps
  <2>1. gaps \in Nat
      BY <1>2, Zenon DEF GoesUp
  <2>2. g \in Nat /\ g >= gaps
      BY <1>8, <2>1
  <2>. QED
      BY <1>1, <1>5, <1>8, <2>2, Zenon
<1>10. steady \subseteq stored
    BY <1>2, <1>3, <1>4, SteadyStored, Zenon DEF GoesUp
<1>11. \E found \in SUBSET Keys :
          /\ process_walk(Walker, found)
          /\ found = {} => Cardinality(steady \ visited) <= g
          /\ \A n \in found : n \in Keys /\ at < n /\ Cardinality(missed(n)) <= g
  <2>1. CASE r.op = "FIRSTKEY" /\ at = Nowhere
    <3>1. process_walk(Walker, db_firstkey)
        BY <1>1, <1>5, <2>1 DEF process_op
    <3>2. g = gaps
        BY <1>2, <1>8, <2>1 DEF GoesUp
    <3>3. /\ db_firstkey = {} => Cardinality(steady \ visited) <= g
          /\ \A n \in db_firstkey : n \in Keys /\ at < n /\ Cardinality(missed(n)) <= g
        BY <1>2, <1>10, <2>1, <3>2, FirstMisses, Zenon
    <3>. QED
        BY <3>1, <3>3, Zenon
  <2>2. CASE r.op = "NEXTKEY" /\ r.key = at /\ at # Nowhere
    <3>1. process_walk(Walker, db_nextkey(at))
        BY <1>1, <1>5, <2>2 DEF process_op
    <3>2. g = gaps + IF db[at] = NoVal THEN 1 ELSE 0
        BY <1>8, <2>2
    <3>3. /\ db_nextkey(at) = {} => Cardinality(steady \ visited) <= g
          /\ \A n \in db_nextkey(at) : n \in Keys /\ at < n /\ Cardinality(missed(n)) <= g
        BY <1>2, <1>9, <1>10, <2>2, <3>2, NextMisses, Zenon
    <3>. QED
        BY <3>1, <3>3, Zenon
  <2>. QED
      BY <1>7, <2>1, <2>2
<1>12. PICK found \in SUBSET Keys :
          /\ process_walk(Walker, found)
          /\ found = {} => Cardinality(steady \ visited) <= g
          /\ \A n \in found : n \in Keys /\ at < n /\ Cardinality(missed(n)) <= g
    BY <1>11
<1>13. /\ \A n : missed(n)' = missed(n)
       /\ steady' \ visited' = steady \ visited
    BY <1>1, Zenon DEF missed
<1>14. PICK rep : reply(Walker, rep) /\ Tells(rep)'
  <2>1. has_walk
      BY DEF has_walk
  <2>2. \/ reply(Walker, Mini("ERR_MEM"))
        \/ found = {} /\ reply(Walker, Mini("NOTIN"))
        \/ \E n \in found : reply(Walker, Reply("OK", KeyData(n)))
      BY <1>12, <2>1, Zenon DEF process_walk, no_buffer
  <2>3. CASE reply(Walker, Mini("ERR_MEM"))
      BY <2>3, Zenon DEF Tells
  <2>4. CASE found = {} /\ reply(Walker, Mini("NOTIN"))
    <3>1. Tells(Mini("NOTIN"))'
        BY <1>9, <1>12, <1>13, <2>4, Zenon DEF Tells
    <3>. QED
        BY <2>4, <3>1, Zenon
  <2>5. ASSUME NEW n \in found, reply(Walker, Reply("OK", KeyData(n)))
        PROVE  \E rep : reply(Walker, rep) /\ Tells(rep)'
    <3>1. n \in Keys /\ at' < n /\ Cardinality(missed(n)') <= gaps'
        BY <1>1, <1>9, <1>12, <1>13, Zenon
    <3>2. Tells(Reply("OK", KeyData(n)))'
        BY <3>1, Zenon DEF Tells
    <3>. QED
        BY <2>5, <3>2, Zenon
  <2>. QED
      BY <2>2, <2>3, <2>4, <2>5, Zenon
<1>15. \A i \in DOMAIN inbox'[Walker] : inbox'[Walker][i] = rep
    BY <1>3, <1>6, <1>14, OneReply, Zenon
<1>16. ToldRight'
    BY <1>14, <1>15, ToldMeans, Zenon
<1>. QED
    BY <1>7, <1>9, <1>16, Zenon

LEMMA WProcessWInv ==
    ASSUME Backend = "leveldb", ~DbFaults, WInv, ReplyInv', WProcess
    PROVE  WInv'
<1>1. /\ process_op /\ UNCHANGED <<walk, at, visited, twice, steady>>
      /\ gaps' = gaps + IF Head(queue).req.op = "NEXTKEY" /\ db[Head(queue).req.key] = NoVal
                        THEN 1 ELSE 0
    BY Zenon DEF WProcess
<1>2. /\ TypeInv /\ OneWalks /\ AsksFromHere /\ GoesUp /\ SteadyKept
      /\ Cardinality(missed(at)) <= gaps
    BY Zenon DEF WInv, ReplyInv
<1>3. /\ queue \in Seq(QueueEntry) /\ queue # <<>> /\ queue' = Tail(queue) /\ wait' = wait
      /\ inbox \in [Clients -> Seq(ReplyType)] /\ Walker \in Clients
    BY <1>1, <1>2, WalkerAssumption, Zenon DEF TypeInv, TypeOK, process_op
<1>4. Head(queue) = queue[1] /\ 1 \in DOMAIN queue /\ Head(queue) \in QueueEntry
    BY <1>3
<1>5. OneWalks'
    BY <1>2, <1>3, OneWalksTake, Zenon
<1>6. SteadyKept'
    BY <1>1, <1>2, SteadyTake, Zenon DEF SteadyKept, GoesUp
<1>7. CASE Head(queue).cli = Walker
  <2>1. gaps' \in Nat /\ gaps' >= gaps /\ walk = "on" /\ ToldRight'
      BY <1>7, WalkerServed, Zenon
  <2>2. GoesUp' /\ AsksFromHere'
      BY <1>1, <1>2, <1>3, <2>1, Zenon DEF GoesUp, AsksFromHere
  <2>3. gaps \in Nat /\ missed(at) \in SUBSET Keys
      BY <1>2, Zenon DEF GoesUp, missed
  <2>4. Cardinality(missed(at)) <= gaps'
    <3>1. Cardinality(missed(at)) \in Nat
        BY <2>3, KeysAreNumbers, FS_Subset, FS_CardinalityType
    <3>. QED
        BY <1>2, <2>1, <2>3, <3>1
  <2>5. missed(at)' = missed(at)
      BY <1>1, Zenon DEF missed
  <2>6. walk' # "over"
      BY <1>1, <2>1
  <2>. QED
      BY <1>5, <1>6, <2>1, <2>2, <2>4, <2>5, <2>6, Zenon DEF WInv
<1>8. CASE Head(queue).cli # Walker
  <2>1. ~walks(Head(queue).req)
      BY <1>2, <1>4, <1>8, Zenon DEF OneWalks
  <2>2. gaps' = gaps
    <3>1. Head(queue).req.op # "NEXTKEY" /\ gaps \in Nat
        BY <1>2, <2>1 DEF walks, GoesUp
    <3>. QED
        BY <1>1, <3>1
  <2>3. inbox'[Walker] = inbox[Walker]
    <3>1. Head(queue).cli \in Clients
        BY <1>4 DEF QueueEntry
    <3>2. answers(Head(queue).cli) \/ inbox' = inbox
        BY <1>1, ProcessAnswersOnce
    <3>. QED
        BY <1>3, <1>8, <3>1, <3>2, ReplyAppends DEF answers
  <2>. QED
      BY <1>1, <1>3, <1>5, <1>6, <2>2, <2>3, WalkerLeftAlone, Zenon
<1>. QED
    BY <1>7, <1>8

LEMMA WStep == WInv /\ WNext => Next
<1> SUFFICES ASSUME WInv, WNext PROVE Next
    OBVIOUS
<1>1. Walker \in Clients /\ \A c \in Others : c \in Clients
    BY WalkerAssumption, Zenon DEF Others
<1>2. CASE nmdb_firstkey
    BY <1>1, <1>2, WalkerAssumption, Zenon DEF nmdb_firstkey, Next
<1>3. CASE nmdb_nextkey
  <2>1. at \in Keys
      BY <1>3, Zenon DEF nmdb_nextkey, WInv, GoesUp
  <2>2. Blank("NEXTKEY", at, {}) \in Requests
      BY <2>1, WalkerAssumption, Zenon
  <2>. QED
      BY <1>1, <1>3, <2>2, Zenon DEF nmdb_nextkey, Next
<1>4. CASE WReturn \/ WProcess
    BY <1>1, <1>4, Zenon DEF WReturn, WProcess, Next
<1>5. ASSUME NEW c \in Others, NEW r \in Requests, WWrite(c, r) PROVE Next
    BY <1>1, <1>5, Zenon DEF WWrite, Next
<1>6. ASSUME NEW c \in Others, get_rep(c) PROVE Next
    BY <1>1, <1>6, Zenon DEF Next
<1>7. CASE Dies \/ Down
    BY <1>7, Zenon DEF Next
<1>. QED
    BY <1>2, <1>3, <1>4, <1>5, <1>6, <1>7, Zenon DEF WNext

LEMMA InitWInv == WInit => WInv
<1> SUFFICES ASSUME WInit PROVE WInv
    OBVIOUS
<1>1. /\ Init /\ walk = "off" /\ at = Nowhere
      /\ visited = {} /\ twice = FALSE /\ steady = {} /\ gaps = 0
    BY Zenon DEF WInit
<1>2. Walker \in Clients
    BY WalkerAssumption
<1>3. /\ queue = <<>> /\ wait[Walker] = NoReq /\ inbox[Walker] = <<>>
      /\ DOMAIN <<>> = {}
    BY <1>1, <1>2 DEF Init
<1>4. ReplyInv
  <2>1. OneReplyOwed
      BY <1>1 DEF Init, OneReplyOwed, owed
  <2>. QED
      BY <1>1, <2>1, InitTypeInv DEF ReplyInv
<1>5. OneWalks /\ AsksFromHere /\ SteadyKept /\ ToldRight
    BY <1>1, <1>3, Zenon DEF OneWalks, AsksFromHere, SteadyKept, ToldRight
<1>6. GoesUp
    BY <1>1, <1>3 DEF GoesUp
<1>7. Cardinality(missed(at)) <= gaps
  <2>1. missed(at) = {} /\ Cardinality({}) = 0
      BY <1>1, FS_EmptySet DEF missed
  <2>. QED
      BY <1>1, <2>1
<1>8. walk # "over"
    BY <1>1
<1>. QED
    BY <1>4, <1>5, <1>6, <1>7, <1>8, Zenon DEF WInv

LEMMA NextWInv ==
    ASSUME Backend = "leveldb", ~DbFaults, WInv, [WNext]_<<vars, wvars>>, ~Dies
    PROVE  WInv'
<1>1. CASE UNCHANGED <<vars, wvars>>
  <2>1. ReplyInv'
      BY <1>1, NextReplyInv, Zenon DEF WInv
  <2>2. /\ queue' = queue /\ db' = db /\ inbox' = inbox /\ wait' = wait
        /\ UNCHANGED <<walk, at, visited, twice, steady, gaps>>
      BY <1>1, Zenon DEF vars, wvars
  <2>3. OneWalks'
      BY <2>2, Zenon DEF WInv, OneWalks, walks
  <2>4. SteadyKept'
      BY <2>2, SteadySame, Zenon DEF WInv, SteadyKept
  <2>. QED
      BY <2>1, <2>2, <2>3, <2>4, WalkerLeftAlone, Zenon
<1>2. CASE WNext
  <2>1. ReplyInv'
      BY <1>2, WStep, NextReplyInv, Zenon DEF WInv
  <2>2. ASSUME NEW c \in Others, NEW r \in Requests,
               r.op \notin {"FIRSTKEY", "NEXTKEY"}, WWrite(c, r)
        PROVE  WInv'
    <3>1. ~walks(r)
        BY <2>2, Zenon DEF walks
    <3>. QED
        BY <2>1, <2>2, <3>1, WriteWInv, Zenon
  <2>3. CASE Down /\ UNCHANGED wvars
      BY <1>1, <2>3, Zenon DEF Down
  <2>. QED
      BY <1>2, <2>1, <2>2, <2>3, FirstkeyWInv, NextkeyWInv, WReturnWInv,
         OtherReturnWInv, WProcessWInv, Zenon DEF WNext
<1>. QED
    BY <1>1, <1>2

LEMMA MissesFew == WInv => WalkMissesOnePerGap
<1> SUFFICES ASSUME WInv PROVE WalkMissesOnePerGap
    OBVIOUS
<1> DEFINE passed == {k \in steady : walk = "over" \/ k < at}
<1>1. ~twice
    BY Zenon DEF WInv, GoesUp
<1>2. CASE walk = "over"
  <2>1. passed \ visited = steady \ visited
      BY <1>2, Zenon
  <2>. QED
      BY <1>1, <1>2, <2>1, Zenon DEF WInv, WalkMissesOnePerGap
<1>3. CASE walk # "over"
  <2>1. passed \ visited = missed(at)
      BY <1>3, Zenon DEF missed
  <2>. QED
      BY <1>1, <2>1, Zenon DEF WInv, WalkMissesOnePerGap
<1>. QED
    BY <1>2, <1>3

(* While the server lives. *)
VInv == (up => WInv) /\ WalkMissesOnePerGap

LEMMA NextVInv ==
    ASSUME Backend = "leveldb", ~DbFaults, VInv, [WNext]_<<vars, wvars>>
    PROVE  VInv'
<1>1. CASE up /\ ~Dies
  <2>1. WInv'
      BY <1>1, NextWInv, Zenon DEF VInv
  <2>2. (WInv => WalkMissesOnePerGap)'
      BY MissesFew, PTL
  <2>. QED
      BY <2>1, <2>2, Zenon DEF VInv
<1>2. CASE ~up \/ Dies
  <2>1. ~up' /\ UNCHANGED wvars
    <3>1. CASE ~up
        BY <1>2, <3>1 DEF WNext, nmdb_firstkey, nmdb_nextkey, WReturn, WWrite,
           WProcess, parse_message, process_op, get_rep, Dies, parse_message_dies,
           process_op_dies, Down, vars, wvars
    <3>2. CASE Dies
      <4>1. server_dies
          BY <3>2, Zenon DEF Dies, parse_message_dies, process_op_dies
      <4>2. up /\ ~up'
          BY <3>2, <4>1 DEF Dies, parse_message_dies, process_op_dies, server_dies
      <4>3. UNCHANGED wvars
          BY <4>2 DEF WNext, nmdb_firstkey, nmdb_nextkey, WReturn, WWrite,
             WProcess, parse_message, process_op, get_rep, vars
      <4>. QED
          BY <4>2, <4>3
    <3>. QED
        BY <1>2, <3>1, <3>2
  <2>2. WalkMissesOnePerGap'
      BY <2>1 DEF VInv, WalkMissesOnePerGap, wvars
  <2>. QED
      BY <2>1, <2>2 DEF VInv
<1>. QED
    BY <1>1, <1>2

(* On leveldb, while the backend does not fail, a walk never sees a key    *)
(* twice, and of the keys stored or queued to be stored when it began that *)
(* nobody deleted since it misses, up to where it stands and in the end,   *)
(* at most one for each time the key it stood on was gone when it went on. *)
(* For any number of keys, other clients and queued requests, and with     *)
(* allocations that fail: one that kills the server only stops the walk.   *)
THEOREM WalkMissesFew ==
    ASSUME Backend = "leveldb", ~DbFaults
    PROVE  WSpec => []WalkMissesOnePerGap
<1>1. VInv => WalkMissesOnePerGap
    BY DEF VInv
<1>2. VInv /\ [WNext]_<<vars, wvars>> => VInv'
    BY NextVInv
<1>3. WInit => VInv
    BY InitWInv, MissesFew DEF VInv
<1>. QED
    BY <1>1, <1>2, <1>3, PTL DEF WSpec

=============================================================================
