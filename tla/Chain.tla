------------------------------- MODULE Chain -------------------------------
(***************************************************************************)
(* One bucket of the cache (struct cache_chain) as the sequence of its     *)
(* entries, c->first at the left, and what cache.c's operations do to it.  *)
(* CacheChain shows that the linked list in the code is this sequence.     *)
(***************************************************************************)
EXTENDS Naturals, Sequences, SequencesExt

CONSTANT CHAINLEN       \* slots in a bucket, 4 in cache.h

ASSUME ChainLenAssumption == CHAINLEN \in Nat \ {0, 1}

in_chain(ch, k) == \E i \in DOMAIN ch : ch[i].key = k
find_in_chain(ch, k) == CHOOSE i \in DOMAIN ch : ch[i].key = k

(* Mutant: a full chain is not told from one with room. *)
chain_set_no_evict(ch, cap, k, v) ==
    <<[key |-> k, val |-> v]>> \o
        (IF in_chain(ch, k) THEN RemoveAt(ch, find_in_chain(ch, k)) ELSE ch)

(* Replace and promote, evict the last entry, or take a free slot.  "cap" *)
(* is the number of slots in use: CHAINLEN until a set has lost one.      *)
chain_set(ch, cap, k, v) ==
    LET new == [key |-> k, val |-> v]
    IN  IF in_chain(ch, k) THEN <<new>> \o RemoveAt(ch, find_in_chain(ch, k))
        ELSE IF Len(ch) = cap THEN <<new>> \o Front(ch)
        ELSE <<new>> \o ch

(* A set of a new key follows c->first or c->last->prev, NULL in a chain  *)
(* that has lost slots and has no entry or no other.                      *)
chain_unusable(ch, cap) == cap < CHAINLEN /\ (ch = <<>> \/ (Len(ch) = cap /\ cap = 1))

chain_del(ch, k) ==
    IF in_chain(ch, k) THEN RemoveAt(ch, find_in_chain(ch, k)) ELSE ch

(* cache_cas and cache_incr overwrite the value where the entry stands. *)
chain_update(ch, k, v) ==
    ReplaceAt(ch, find_in_chain(ch, k), [key |-> k, val |-> v])

=============================================================================
