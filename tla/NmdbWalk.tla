------------------------------ MODULE NmdbWalk ------------------------------
(***************************************************************************)
(* A client that walks the database with nmdb_firstkey and nmdb_nextkey,   *)
(* one request per key, while other clients go on writing.  The server     *)
(* keeps nothing between two of the walk's requests: nextkey starts from   *)
(* the key it is given, whatever has become of it.                         *)
(***************************************************************************)
EXTENDS Nmdb, FiniteSetsExt

CONSTANT Walker     \* the client that walks

ASSUME WalkerAssumption ==
    /\ Walker \in Clients /\ IsFiniteSet(Keys) /\ 0 \notin Keys
    /\ Blank("FIRSTKEY", Min(Keys), {}) \in Requests
    /\ \A k \in Keys : Blank("NEXTKEY", k, {}) \in Requests

VARIABLES walk,     \* "off", "on", or how the walk ended; there is one walk
          at,       \* the key it was given last, or Nowhere
          (* history *)
          visited,  \* the keys it was given
          twice,    \* was it given one of them again?
          steady,   \* keys there since before the walk that nobody deleted
          gaps      \* times the walk went on from a key that was gone

wvars == <<walk, at, visited, twice, steady, gaps>>

Nowhere == 0    \* no key

WInit ==
    /\ Init
    /\ walk = "off" /\ at = Nowhere
    /\ visited = {} /\ twice = FALSE /\ steady = {} /\ gaps = 0

(* k is in the database once the queue, as it is now, has drained. *)
to_be_stored(k) ==
    LET later == {i \in DOMAIN queue : /\ queue[i].req.key = k
                                       /\ queue[i].req.op \in {"SET", "DEL"}}
    IN  IF later = {} THEN db[k] # NoVal
                      ELSE queue[Max(later)].req.op = "SET"

nmdb_firstkey ==
    /\ walk = "off"
    /\ parse_message(Walker, Blank("FIRSTKEY", Min(Keys), {}))
    /\ walk' = "on" /\ UNCHANGED <<at, visited, twice, gaps>>
    /\ steady' = {k \in Keys : to_be_stored(k)}

nmdb_nextkey ==
    /\ walk = "on" /\ at # Nowhere
    /\ parse_message(Walker, Blank("NEXTKEY", at, {}))
    /\ UNCHANGED wvars

(* The call returns a key, "no more keys", or an error. *)
WReturn ==
    /\ get_rep(Walker)
    /\ \/ /\ ret'[Walker].rc = 0
          /\ at' = ret'[Walker].data.num
          /\ visited' = visited \cup {at'}
          /\ twice' = (twice \/ at' \in visited)
          /\ UNCHANGED walk
       \/ /\ ret'[Walker].rc = -1 /\ walk' = "over"
          /\ UNCHANGED <<at, visited, twice>>
       \/ /\ ret'[Walker].rc = -2 /\ walk' = "failed"
          /\ UNCHANGED <<at, visited, twice>>
    /\ UNCHANGED <<steady, gaps>>

Others == Clients \ {Walker}

WWrite(c, r) ==
    /\ parse_message(c, r)
    /\ steady' = steady \ {k \in {r.key} : r.op = "DEL" /\ queue' # queue}
    /\ UNCHANGED <<walk, at, visited, twice, gaps>>

WProcess ==
    /\ process_op
    /\ LET r == Head(queue).req
       IN  gaps' = gaps + IF r.op = "NEXTKEY" /\ db[r.key] = NoVal THEN 1 ELSE 0
    /\ UNCHANGED <<walk, at, visited, twice, steady>>

WNext ==
    \/ nmdb_firstkey
    \/ nmdb_nextkey
    \/ WReturn
    \/ \E c \in Others, r \in Requests :
          r.op \notin {"FIRSTKEY", "NEXTKEY"} /\ WWrite(c, r)
    \/ \E c \in Others : get_rep(c) /\ UNCHANGED wvars
    \/ WProcess
    \/ (Dies \/ Down) /\ UNCHANGED wvars

WSpec == WInit /\ [][WNext]_<<vars, wvars>>

(* Fairness is Nmdb's.  Nothing obliges the walker to go on. *)
WLiveSpec ==
    /\ WSpec
    /\ WF_<<vars, wvars>>(WProcess)
    /\ WF_<<vars, wvars>>(WReturn)
    /\ \A c \in Others : WF_<<vars, wvars>>(get_rep(c) /\ UNCHANGED wvars)

-----------------------------------------------------------------------------
(* The walk sees every key that was stored, acknowledged or only accepted, *)
(* when it began and that stayed there, but for one key for each time the  *)
(* key it stood on was deleted under it: leveldb's nextkey then steps over *)
(* one ("the walk can result in skipping nodes", nmdb.h).  It never sees a *)
(* key twice on this backend.                                              *)
WalkMissesOnePerGap ==
    LET passed == {k \in steady : walk = "over" \/ k < at}
    IN  Cardinality(passed \ visited) <= gaps /\ ~twice

=============================================================================
