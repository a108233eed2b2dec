----------------------------- MODULE CacheChain -----------------------------
(***************************************************************************)
(* One bucket of the cache as cache.c keeps it: CHAINLEN entries in an     *)
(* array, the used ones in a doubly linked list, the slots and the buffers *)
(* in them reused whenever sizes allow.                                    *)
(*                                                                         *)
(* A slot is free when its key is Free (ksize == -1 in the code).  Null is *)
(* the NULL pointer, the slots are numbered from 1.  A malloc() that is    *)
(* made may fail when MemFaults; one is made only where the sizes differ.  *)
(***************************************************************************)
EXTENDS Chain

CONSTANTS Keys, Vals,
          ksize, vsize,     \* key -> its size, value -> its size
          MemFaults

ASSUME SizesAssumption ==
    /\ ksize \in [Keys -> Nat]
    /\ vsize \in [Vals -> Nat]
    /\ MemFaults \in BOOLEAN
    /\ "free" \notin Keys      \* no key has the size -1 of a free slot

VARIABLES entries, first, last, len,    \* struct cache_chain
          out,                          \* what the last operation returned
          call,                         \* which operation that was
          crashed,                      \* a NULL pointer was followed
          recent                        \* history: keys by their last set

vars == <<entries, first, last, len, out, call, crashed, recent>>

Null == 0
Free == "free"
NotIn == "not in"

Slots == 1..CHAINLEN
Ptr == Slots \cup {Null}

TypeOK ==
    /\ DOMAIN entries = Slots
    /\ \A s \in Slots : /\ entries[s].key \in Keys \cup {Free}
                        /\ entries[s].val \in Vals \cup {Free}
                        /\ entries[s].prev \in Ptr
                        /\ entries[s].next \in Ptr
    /\ first \in Ptr /\ last \in Ptr /\ len \in 0..CHAINLEN
    /\ crashed \in BOOLEAN

FreeEntry == [key |-> Free, val |-> Free, prev |-> Null, next |-> Null]

cache_create ==
    /\ entries = [s \in Slots |-> FreeEntry]
    /\ first = Null /\ last = Null /\ len = 0
    /\ out = NotIn /\ call = <<>>
    /\ crashed = FALSE
    /\ recent = <<>>

(* The slots a loop meets that starts at e = s and takes n steps to       *)
(* e->next, unless e is NULL before; and those from c->first on (the      *)
(* first CHAINLEN of them, should it go in circles).                      *)
from[n \in 0..CHAINLEN] ==
    [s \in Ptr |-> IF n = 0 \/ s = Null THEN <<>>
                   ELSE <<s>> \o from[n - 1][entries[s].next]]

walk == from[CHAINLEN][first]

find(k) == LET w == walk
               hits == {i \in DOMAIN w : entries[w[i]].key = k}
           IN  IF hits = {} THEN Null ELSE w[Min(hits)]

alloc_entry ==
    Min({s \in Slots : entries[s].key = Free})

(* s->next = to and s->prev = to, left out where s is NULL. *)
link_next(es, s, to) == IF s = Null THEN es ELSE [es EXCEPT ![s].next = to]
link_prev(es, s, to) == IF s = Null THEN es ELSE [es EXCEPT ![s].prev = to]

touch(k) == <<k>> \o RemoveFirst(recent, k)

-----------------------------------------------------------------------------
cache_get(k) ==
    /\ out' = IF find(k) = Null THEN NotIn ELSE entries[find(k)].val
    /\ UNCHANGED <<entries, first, last, len, crashed, recent>>

(* cache_set when the chain is full: evict c->last and reuse its slot. *)
insert_in_full_chain(k, v) ==
    LET e == last
        p == entries[e].prev
        es1 == [entries EXCEPT ![e].key = k, ![e].val = v]
        es2 == link_next(es1, p, Null)
        es3 == [es2 EXCEPT ![e].prev = Null, ![e].next = first]
        es4 == link_prev(es3, first, e)
    IN  /\ p # Null
        /\ entries' = es4
        /\ last' = p /\ first' = e
        /\ out' = "ok" /\ recent' = touch(k)
        /\ UNCHANGED <<len, crashed>>

(* Mutant: the entry is released and stays in the list. *)
insert_in_full_chain_fails_linked(k, v) ==
    /\ MemFaults
    /\ entries' = [entries EXCEPT ![last].key = Free, ![last].val = Free]
    /\ out' = "error"
    /\ UNCHANGED <<first, last, len, crashed, recent>>

(* Its error path: the entry is unlinked and released, c->len stays. *)
insert_in_full_chain_fails(k, v) ==
    LET e == last
        p == entries[e].prev
    IN  /\ MemFaults
        /\ ksize[k] # ksize[entries[e].key] \/ vsize[v] # vsize[entries[e].val]
        /\ p # Null
        /\ entries' = [link_next(entries, p, Null) EXCEPT
                          ![e].key = Free, ![e].val = Free]
        /\ last' = p
        /\ out' = "error"
        /\ UNCHANGED <<first, len, crashed, recent>>

(* Once c->len is ahead of the list, both paths can meet e->prev == NULL, *)
(* and cache_set a chain without a first entry that it takes to have one. *)
null_dereference ==
    /\ \/ len = CHAINLEN /\ entries[last].prev = Null
       \/ len \notin {0, CHAINLEN} /\ first = Null
    /\ crashed' = TRUE
    /\ UNCHANGED <<entries, first, last, len, out, recent>>

(* cache_set when there is room: new_entry, then put it first. *)
insert_in_free_slot(k, v) ==
    LET new == alloc_entry
        es1 == [entries EXCEPT ![new] = [key |-> k, val |-> v,
                                         prev |-> Null, next |-> Null]]
        es2 == [es1 EXCEPT ![new].next = first]
        es3 == link_prev(es2, first, new)
    IN  /\ len = 0 \/ first # Null
        /\ entries' = IF len = 0 THEN es1 ELSE es3
        /\ first' = new
        /\ last' = IF len = 0 THEN new ELSE last
        /\ len' = len + 1
        /\ out' = "ok" /\ recent' = touch(k)
        /\ UNCHANGED crashed

(* new_entry without memory for the value gives the slot back; without    *)
(* memory for the key it calls free() on the slot, which aborts.          *)
new_entry_fails ==
    /\ MemFaults
    /\ \/ /\ entries' = [entries EXCEPT ![alloc_entry].key = Free,
                                        ![alloc_entry].val = Free]
          /\ UNCHANGED crashed
       \/ /\ crashed' = TRUE
          /\ UNCHANGED entries
    /\ out' = "error"
    /\ UNCHANGED <<first, last, len, recent>>

(* Mutant: the value is replaced and the entry left where it stands. *)
replace_in_place(e, k, v) ==
    /\ entries' = [entries EXCEPT ![e].val = v]
    /\ out' = "ok" /\ recent' = touch(k)
    /\ UNCHANGED <<first, last, len, crashed>>

(* cache_set when the key is there: replace the value, promote the entry. *)
replace_and_promote(e, k, v) ==
    LET es1 == [entries EXCEPT ![e].val = v]
        p == entries[e].prev
        n == entries[e].next
        es2 == link_next(es1, p, n)
        es3 == link_prev(es2, n, p)
        es4 == [es3 EXCEPT ![e].prev = Null, ![e].next = first]
        es5 == link_prev(es4, first, e)
    IN  /\ entries' = IF first # e THEN es5 ELSE es1
        /\ last' = IF first # e /\ last = e THEN p ELSE last
        /\ first' = e
        /\ out' = "ok" /\ recent' = touch(k)
        /\ UNCHANGED <<len, crashed>>

replace_fails(e, v) ==
    /\ MemFaults
    /\ vsize[v] # vsize[entries[e].val]
    /\ out' = "error"
    /\ UNCHANGED <<entries, first, last, len, crashed, recent>>

cache_set(k, v) ==
    LET e == find(k)
    IN  \/ /\ e = Null /\ len = CHAINLEN
           /\ \/ insert_in_full_chain(k, v)
              \/ insert_in_full_chain_fails(k, v)
              \/ null_dereference
        \/ /\ e = Null /\ len # CHAINLEN
           /\ \/ insert_in_free_slot(k, v)
              \/ new_entry_fails
              \/ null_dereference
        \/ /\ e # Null
           /\ \/ replace_and_promote(e, k, v)
              \/ replace_fails(e, v)

(* Mutant: c->len goes down although nothing was removed. *)
cache_del_miss_counted(k) ==
    /\ find(k) = Null
    /\ len' = len - 1
    /\ out' = NotIn /\ recent' = RemoveFirst(recent, k)
    /\ UNCHANGED <<entries, first, last, crashed>>

cache_del_miss(k) ==
    /\ find(k) = Null
    /\ out' = NotIn /\ recent' = RemoveFirst(recent, k)
    /\ UNCHANGED <<entries, first, last, len, crashed>>

cache_del_hit(k) ==
    LET e == find(k)
        p == entries[e].prev
        n == entries[e].next
        es1 == IF first = e THEN link_prev(entries, n, Null)
               ELSE link_prev(link_next(entries, p, n), n, p)
    IN  /\ e # Null
        /\ entries' = [es1 EXCEPT ![e].key = Free, ![e].val = Free]
        /\ first' = IF first = e THEN n ELSE first
        /\ last' = IF last = e THEN p ELSE last
        /\ len' = len - 1
        /\ out' = "ok" /\ recent' = RemoveFirst(recent, k)
        /\ UNCHANGED crashed

(* Mutant: the size is compared, the bytes are not. *)
cache_cas_unmatched(k, old, new) ==
    LET e == find(k)
    IN  /\ \/ e = Null /\ out' = NotIn /\ UNCHANGED entries
           \/ e # Null /\ out' = "ok" /\ entries' = [entries EXCEPT ![e].val = new]
        /\ UNCHANGED <<first, last, len, crashed, recent>>

(* cache_cas; cache_incr is the same with the value it finds as "old". *)
cache_cas(k, old, new) ==
    LET e == find(k)
    IN  /\ \/ e = Null /\ out' = NotIn /\ UNCHANGED entries
           \/ e # Null /\ entries[e].val # old
              /\ out' = "no match" /\ UNCHANGED entries
           \/ e # Null /\ entries[e].val = old
              /\ out' = "ok" /\ entries' = [entries EXCEPT ![e].val = new]
           \/ e # Null /\ entries[e].val = old
              /\ MemFaults /\ vsize[old] # vsize[new]
              /\ out' = "error" /\ UNCHANGED entries
        /\ UNCHANGED <<first, last, len, crashed, recent>>

Next ==
    /\ ~crashed
    /\ \E k \in Keys :
          \/ cache_get(k) /\ call' = <<"get", k>>
          \/ cache_del_miss(k) /\ call' = <<"del", k>>
          \/ cache_del_hit(k) /\ call' = <<"del", k>>
          \/ \E v \in Vals : cache_set(k, v) /\ call' = <<"set", k, v>>
          \/ \E old, new \in Vals : /\ cache_cas(k, old, new)
                                    /\ call' = <<"cas", k, old, new>>

Spec == cache_create /\ [][Next]_vars

-----------------------------------------------------------------------------
(* The list as the sequence it stands for. *)
list == LET w == walk
        IN  [i \in DOMAIN w |-> [key |-> entries[w[i]].key,
                                 val |-> entries[w[i]].val]]

L == INSTANCE ChainList WITH ch <- list, dead <- crashed,
                             cap <- CHAINLEN - (len - Len(list))

(* The linked list with its reused slots behaves as the sequence of       *)
(* Chain: no operation of cache.c loses, repeats or misplaces an entry,   *)
(* or returns anything but what it would return there.  Where a malloc()  *)
(* fails in insert_in_full_chain, c->len is not taken down with the       *)
(* evicted entry: the slot is lost, and nothing else goes wrong until one *)
(* slot is left.                                                          *)
ImplementsList == L!Spec

(* Read backwards from c->last the list is the one read forwards from     *)
(* c->first, and the slots outside it are the free ones: every used slot  *)
(* can be found and evicted, also after a malloc() that failed.           *)
LinksAgree ==
    LET w == walk IN
    /\ \A i, j \in DOMAIN w : w[i] = w[j] => i = j
    /\ last = IF w = <<>> THEN Null ELSE w[Len(w)]
    /\ \A i \in DOMAIN w :
          entries[w[i]].prev = IF i = 1 THEN Null ELSE w[i - 1]
    /\ \A s \in Slots : entries[s].key # Free <=> s \in ToSet(w)

(* Whatever was deleted or swapped meanwhile, the chain holds the keys    *)
(* set most recently, newest first: insert_in_full_chain never drops a    *)
(* key that was set after one it keeps.  (doc/design.rst:173 has lookups  *)
(* promote an entry; cache_get does not.)                                 *)
KeepsRecentSets == IsPrefix([i \in DOMAIN list |-> list[i].key], recent)

=============================================================================
