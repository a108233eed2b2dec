----------------------------- MODULE MCNmdbWalk -----------------------------
(* An instance of NmdbWalk: a walker and a client that writes. *)
EXTENDS NmdbWalk

raw == [fmt |-> "raw", num |-> 1]

OneChain == [k \in Keys |-> 1]

(* Keys come behind the walk and ahead of it, and all of them may go. *)
WalkRequests ==
    {Blank("FIRSTKEY", Min(Keys), {})} \cup {Blank("NEXTKEY", k, {}) : k \in Keys} \cup
    {Set(1, raw, {"SYNC"}), Set(3, raw, {})} \cup
    {Del(1, {}), Del(2, {"SYNC"}), Del(3, {})} \cup
    {Get(1, {})}

AnyDb == [Keys -> {NoVal, raw}]
=============================================================================
