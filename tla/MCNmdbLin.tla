----------------------------- MODULE MCNmdbLin -----------------------------
(* Instances of NmdbLin. *)
EXTENDS NmdbLin, TLC

raw == [fmt |-> "raw", num |-> 1]
int == [fmt |-> "int", num |-> 1]
word == [fmt |-> "word", num |-> 1]
pad == [fmt |-> "pad", num |-> -2]

(* All keys share the one chain of two entries, so that sets evict. *)
OneChain == [k \in Keys |-> 1]

(* Key 1 is read, written, deleted, swapped and incremented in every mode *)
(* that reaches the database.  Keys 2 and 3, one in the database and one  *)
(* only in the cache, compete with it for the slots.                      *)
StoreRequests ==
    {Get(1, {}), Del(1, {"SYNC"}), Del(1, {}), Incr(1, 1, {})} \cup
    {Set(1, raw, {"SYNC"}), Set(1, word, {})} \cup
    {Cas(1, raw, int, {}), Cas(1, pad, raw, {})} \cup
    {Set(2, raw, {}), Set(3, raw, {"CACHE_ONLY"}), Del(3, {"CACHE_ONLY"})} \cup
    {Blank("NEXTKEY", 1, {})}

(* Key 1 in every way there is, a key 2 that must not suffer from it, and *)
(* a key 3 that fills the chain and competes with both for a slot.        *)
AllRequests ==
    {Get(1, fl) : fl \in {{}, {"CACHE_ONLY"}}} \cup
    {Set(1, int, fl) : fl \in {{}, {"CACHE_ONLY"}, {"SYNC"}}} \cup
    {Del(1, fl) : fl \in {{}, {"CACHE_ONLY"}, {"SYNC"}}} \cup
    {Set(2, raw, {"SYNC"}), Set(3, raw, {"CACHE_ONLY"})} \cup
    {Cas(1, int, raw, fl) : fl \in {{}, {"CACHE_ONLY"}}} \cup
    {Incr(1, 1, fl) : fl \in {{}, {"CACHE_ONLY"}}} \cup
    {Blank(op, 1, {}) : op \in {"FIRSTKEY", "UNKNOWN", "OLDVERSION", "BROKEN"}}

(* What later steps and the properties of the run with faults depend on:  *)
(* not the results of past calls, nor what an answer on its way says and  *)
(* to which request, nor the promises about a spoilt key.                 *)
FaultsView ==
    <<up, cache, cap, queue, db, read_only, spoilt,
      [i \in DOMAIN snap |-> [k \in Keys \ spoilt |-> snap[i][k]]],
      [c \in Clients |->
          IF inbox[c] # <<>> THEN <<Len(inbox[c]), wait[c] # NoReq>>
          ELSE <<0, wait[c],
                 IF wait[c] # NoReq /\ wait[c].key \in spoilt THEN A!NoPend
                 ELSE pend[c]>>]>>

EmptyDb == {[k \in Keys |-> NoVal]}
ClientSymmetry == Permutations(Clients)
=============================================================================
