---------------------------- MODULE MCCacheChain ----------------------------
(* Instances of CacheChain: more keys than slots. *)
EXTENDS CacheChain

(* Sizes matter to malloc() only.  No two keys and no two values have the  *)
(* same size, so that every malloc() the code can make is made; which is   *)
(* the larger matters nowhere, so they are interchangeable all the same.   *)
OwnSize(S) == CHOOSE f \in [S -> 1..Cardinality(S)] : IsInjective(f)

OwnKeySizes == OwnSize(Keys)
OwnValSizes == OwnSize(Vals)

Interchangeable == Permutations(Keys) \cup Permutations(Vals)
=============================================================================
