----------------------------- MODULE ChainList -----------------------------
(***************************************************************************)
(* What a bucket of the cache promises its callers: a short list of        *)
(* entries that forgets the one set longest ago when a new key needs room, *)
(* and what is left of that promise once malloc() has failed: a set that   *)
(* fails for a new key in a full bucket costs the oldest entry and one of  *)
(* the bucket's slots, and the last slot cannot be used any more.          *)
(***************************************************************************)
EXTENDS Chain

CONSTANTS Keys, Vals,
          MemFaults     \* may a call run out of memory?

VARIABLES ch,       \* the entries
          cap,      \* the slots still in use, CHAINLEN at first
          dead,     \* the process has gone down
          out,      \* what the last operation returned
          call      \* and which one it was

NotIn == "not in"

found(k) == IF in_chain(ch, k) THEN ch[find_in_chain(ch, k)].val ELSE NotIn

Init == ch = <<>> /\ cap = CHAINLEN /\ dead = FALSE /\ out = NotIn /\ call = <<>>

Get(k) == out' = found(k) /\ UNCHANGED <<ch, cap, dead>>

full == Len(ch) = cap

unusable == chain_unusable(ch, cap)

Set(k, v) ==
    /\ in_chain(ch, k) \/ ~unusable
    /\ ch' = chain_set(ch, cap, k, v)
    /\ out' = "ok"
    /\ UNCHANGED <<cap, dead>>

SetFails(k) ==
    /\ MemFaults
    /\ out' = "error"
    /\ \/ (in_chain(ch, k) \/ ~full) /\ UNCHANGED <<ch, cap>>
       \/ /\ ~in_chain(ch, k) /\ full /\ ~unusable
          /\ ch' = Front(ch) /\ cap' = cap - 1
    /\ UNCHANGED dead

SetKills(k) ==
    /\ MemFaults \/ unusable
    /\ ~in_chain(ch, k) /\ (unusable \/ ~full)
    /\ dead' = TRUE
    /\ out' \in {out, "error"}
    /\ UNCHANGED <<ch, cap>>

Del(k) ==
    /\ ch' = chain_del(ch, k)
    /\ out' = IF in_chain(ch, k) THEN "ok" ELSE NotIn
    /\ UNCHANGED <<cap, dead>>

(* cache_cas, and cache_incr with the new value depending on the old. *)
Swap(k, old, new) ==
    /\ \/ ~in_chain(ch, k) /\ out' = NotIn /\ UNCHANGED ch
       \/ /\ in_chain(ch, k) /\ found(k) # old
          /\ out' = "no match" /\ UNCHANGED ch
       \/ /\ in_chain(ch, k) /\ found(k) = old
          /\ out' = "ok" /\ ch' = chain_update(ch, k, new)
       \/ /\ MemFaults /\ in_chain(ch, k) /\ found(k) = old /\ old # new
          /\ out' = "error" /\ UNCHANGED ch
    /\ UNCHANGED <<cap, dead>>

Next ==
    /\ ~dead
    /\ \E k \in Keys :
        \/ Get(k) /\ call' = <<"get", k>>
        \/ Del(k) /\ call' = <<"del", k>>
        \/ \E v \in Vals : /\ Set(k, v) \/ SetFails(k) \/ SetKills(k)
                           /\ call' = <<"set", k, v>>
        \/ \E old, new \in Vals : Swap(k, old, new) /\ call' = <<"cas", k, old, new>>

Spec == Init /\ [][Next]_<<ch, cap, dead, out, call>>

=============================================================================
