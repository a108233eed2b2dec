------------------------------- MODULE Store -------------------------------
(***************************************************************************)
(* The data nmdb works on, abstracted to what its code tells apart, and    *)
(* the vocabulary shared by the server (Nmdb), by the promise it makes     *)
(* (AtomicStore) and by the client library (libnmdb).                      *)
(*                                                                         *)
(* Keys are numbers: the order in which the backend walks them.            *)
(*                                                                         *)
(* A value is [fmt, num].  The server looks inside a value in one place    *)
(* only, INCR, so "fmt" says what INCR would find there:                   *)
(*   "raw"   the last byte is not NUL, INCR refuses it                     *)
(*   "word"  NUL-terminated text that is not a number                      *)
(*   "int"   a NUL-terminated decimal number shorter than 24 bytes         *)
(*   "pad"   the 24 bytes written by snprintf("%23lld")                    *)
(* "num" is the number written there, or tells two texts apart.  Values    *)
(* of length zero and values longer than 24 bytes are left out.            *)
(***************************************************************************)
EXTENDS Integers

CONSTANTS Keys,     \* the keys clients use
          IntMod    \* the number of int64_t values: 2^64 in the code

ASSUME KeysAssumption == Keys \subseteq Nat
ASSUME IntModAssumption == IntMod \in Nat \ {0}

Formats == {"raw", "word", "int", "pad"}
Value == [fmt : Formats, num : Int]
NoVal == [fmt |-> "none", num |-> 0]
MaybeValue == Value \cup {NoVal}

(* Numbers and keys travel in replies too. *)
Number(n) == [fmt |-> "num", num |-> n]
KeyData(k) == [fmt |-> "key", num |-> k]
Data == [fmt : Formats \cup {"none", "num", "key"}, num : Int]

(***************************************************************************)
(* INCR.  cache_incr (the event thread) and process_op (the DB thread)     *)
(* carry the same code twice; it is one set of definitions here.           *)
(***************************************************************************)
nul_terminated(v) == v.fmt # "raw"

strtoll(v) == IF v.fmt = "word" THEN 0 ELSE v.num

(* int64_t addition in two's complement. *)
Wrap(n) == ((n + IntMod \div 2) % IntMod) - IntMod \div 2

(* Mutant: the number is stored as it is, not as text. *)
incremented_binary(v, increment) == Number(Wrap(strtoll(v) + increment))

incremented(v, increment) ==
    [fmt |-> "pad", num |-> Wrap(strtoll(v) + increment)]

(***************************************************************************)
(* Requests: one record for all the operations, unused fields blank.       *)
(***************************************************************************)
Ops == {"GET", "SET", "DEL", "CAS", "INCR", "FIRSTKEY", "NEXTKEY",
        "UNKNOWN", "OLDVERSION", "BROKEN"}
Writes == {"SET", "DEL", "CAS", "INCR"}
Flags == {"CACHE_ONLY", "SYNC"}

RequestType == [op : Ops, key : Keys, val : MaybeValue, new : MaybeValue,
                inc : Int, flags : SUBSET Flags]

(* SET carries a value, CAS the value to compare with and the new one. *)
WellFormed(r) == /\ r.op \in {"SET", "CAS"} => r.val \in Value
                 /\ r.op = "CAS" => r.new \in Value

cache_only(r) == "CACHE_ONLY" \in r.flags
sync(r) == "SYNC" \in r.flags

Blank(op, k, fl) == [op |-> op, key |-> k, val |-> NoVal, new |-> NoVal,
                     inc |-> 0, flags |-> fl]
Get(k, fl) == Blank("GET", k, fl)
Set(k, v, fl) == [Blank("SET", k, fl) EXCEPT !.val = v]
Del(k, fl) == Blank("DEL", k, fl)
Cas(k, old, new, fl) == [Blank("CAS", k, fl) EXCEPT !.val = old, !.new = new]
Incr(k, i, fl) == [Blank("INCR", k, fl) EXCEPT !.inc = i]

(***************************************************************************)
(* Replies, and what the library's functions return for them.  "rc" is the *)
(* C return value; 0 for a get, firstkey or nextkey that found something   *)
(* stands for the size of what it found.                                   *)
(***************************************************************************)
Codes == {"OK", "CACHE_HIT", "CACHE_MISS", "NOTIN", "NOMATCH", "ERR_MEM",
          "ERR_DB", "ERR_RO", "ERR_VER", "ERR_UNKREQ", "ERR_BROKEN"}
ReplyType == [code : Codes, data : Data]
Reply(code, data) == [code |-> code, data |-> data]
Mini(code) == Reply(code, NoVal)

ResultType == [rc : Int, data : Data]
Result(rc, data) == [rc |-> rc, data |-> data]

do_get(rep) ==
    CASE rep.code \in {"OK", "CACHE_HIT"} -> Result(0, rep.data)
      [] rep.code \in {"CACHE_MISS", "NOTIN"} -> Result(-1, NoVal)
      [] OTHER -> Result(-2, NoVal)

do_set(rep) == Result(IF rep.code = "OK" THEN 1 ELSE -1, NoVal)

do_del(rep) ==
    CASE rep.code = "OK" -> Result(1, NoVal)
      [] rep.code = "NOTIN" -> Result(0, NoVal)
      [] OTHER -> Result(-1, NoVal)

do_cas(rep) ==
    CASE rep.code = "OK" -> Result(2, NoVal)
      [] rep.code = "NOMATCH" -> Result(1, NoVal)
      [] rep.code = "NOTIN" -> Result(0, NoVal)
      [] OTHER -> Result(-1, NoVal)

do_incr(rep) ==
    CASE rep.code = "OK" -> Result(2, rep.data)
      [] rep.code = "NOMATCH" -> Result(1, NoVal)
      [] rep.code = "NOTIN" -> Result(0, NoVal)
      [] OTHER -> Result(-1, NoVal)

nmdb_walk(rep) ==
    CASE rep.code = "OK" -> Result(0, rep.data)
      [] rep.code = "NOTIN" -> Result(-1, NoVal)
      [] OTHER -> Result(-2, NoVal)

LibResult(op, rep) ==
    CASE op = "GET" -> do_get(rep)
      [] op = "SET" -> do_set(rep)
      [] op = "DEL" -> do_del(rep)
      [] op = "CAS" -> do_cas(rep)
      [] op = "INCR" -> do_incr(rep)
      [] op \in {"FIRSTKEY", "NEXTKEY"} -> nmdb_walk(rep)
      [] OTHER -> Result(-1, NoVal)

=============================================================================
