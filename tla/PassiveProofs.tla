--------------------------- MODULE PassiveProofs ---------------------------
(***************************************************************************)
(* Theorems about Passive, for any number of servers, clients, keys, calls *)
(* and switches.                                                           *)
(***************************************************************************)
EXTENDS Passive, FiniteSetTheorems, TLAPS

Request == [cli : Clients, n : Nat, op : {"SET", "GET"}, key : Keys]
Value == [cli : Clients \cup {"none"}, n : Nat]
Reply == [n : Nat, val : Value]
Entry == [cli : Clients, rep : Reply]

Links == [Clients -> Seq(Request)]
Store == [Keys -> Value]

Shape ==
    /\ up \subseteq Servers /\ passive \in [Servers -> BOOLEAN]
    /\ link \in [Servers -> Links] /\ store \in [Servers -> Store]
    /\ due \in [Servers -> Seq(Entry)]
    /\ wait \in [Clients -> Request \cup {NoReq}]
    /\ inbox \in [Clients -> Seq(Reply)]
    /\ calls \in [Clients -> Nat]
    /\ returned \in [Keys -> SUBSET Value] /\ replaced \in [Keys -> SUBSET Value]
    /\ before \in [Clients -> SUBSET Value]
    /\ raced \subseteq Keys /\ disturbed \in BOOLEAN /\ wrong \in BOOLEAN

-----------------------------------------------------------------------------
(* The copies.  The i-th request under way from c to s is a write to k. *)
pending(s, c, i, k) ==
    /\ i \in 1..Len(link[s][c])
    /\ link[s][c][i].op = "SET" /\ link[s][c][i].key = k

(* What s will hold under k once it has all requests under way to it. *)
Final(s, k, v) ==
    \/ /\ \A c \in Clients, i \in Nat : ~pending(s, c, i, k)
       /\ v = store[s][k]
    \/ \E c \in Clients, i \in Nat :
          /\ pending(s, c, i, k) /\ v = [cli |-> c, n |-> link[s][c][i].n]
          /\ \A j \in Nat : pending(s, c, j, k) => j <= i

OwnRequests ==
    \A s \in Servers, c \in Clients : \A i \in 1..Len(link[s][c]) :
        link[s][c][i].cli = c

OneWriter ==
    \A s \in up, k \in Keys \ raced, c, d \in Clients, i, j \in Nat :
        pending(s, c, i, k) /\ pending(s, d, j, k) => c = d

Agree ==
    \A s, t \in up, k \in Keys \ raced, v, w \in Value :
        Final(s, k, v) /\ Final(t, k, w) => v = w

CopyInv == Shape /\ OwnRequests /\ OneWriter /\ Agree

-----------------------------------------------------------------------------
(* The calls, as long as nothing has disturbed them. *)
HasTurn ==
    /\ traffic => \E a \in up : active = {a}
    /\ \A c \in Clients : wait[c] # NoReq => wait[c].cli = c /\ wait[c].n = calls[c]

(* What has returned began before what is under way. *)
Past ==
    /\ \A k \in Keys : \A w \in returned[k] :
          /\ w.cli \in Clients => w.n <= calls[w.cli]
          /\ w.cli \in Clients /\ wait[w.cli] # NoReq => w.n < calls[w.cli]
    /\ \A k \in Keys : replaced[k] \subseteq returned[k]
    /\ \A c \in Clients : wait[c] # NoReq =>
          /\ before[c] \subseteq returned[wait[c].key]
          /\ wait[c].op = "GET" => before[c] \subseteq replaced[wait[c].key]

Good(c, rep) ==
    /\ wait[c] # NoReq /\ rep.n = wait[c].n
    /\ wait[c].op = "GET" /\ wait[c].key \notin raced => rep.val \notin before[c]

(* At the active server a call is in one place: its request is under way, *)
(* its answer is due or its reply is there.                               *)
owes(a, c) == \E i \in 1..Len(due[a]) : due[a][i].cli = c

Place(a, c) ==
    /\ link[a][c] # <<>> =>
          /\ wait[c] # NoReq /\ link[a][c] = <<wait[c]>>
          /\ ~owes(a, c) /\ inbox[c] = <<>>
    /\ \A i \in 1..Len(due[a]) : due[a][i].cli = c =>
          /\ Good(c, due[a][i].rep) /\ inbox[c] = <<>>
          /\ \A j \in 1..Len(due[a]) : due[a][j].cli = c => j = i
    /\ inbox[c] # <<>> => Len(inbox[c]) = 1 /\ Good(c, inbox[c][1])

(* A write it has handled it has not lost. *)
Kept(a, c) ==
    wait[c] # NoReq /\ wait[c].op = "SET" /\ link[a][c] = <<>> =>
        store[a][wait[c].key] \notin before[c]

Fresh(s) == \A k \in Keys \ raced : store[s][k] \notin replaced[k]

Judged ==
    /\ HasTurn /\ Past
    /\ \A a \in active : Fresh(a) /\ \A c \in Clients : Place(a, c) /\ Kept(a, c)
    /\ ~traffic => \A s \in up : Fresh(s)

QInv == CopyInv /\ ~wrong /\ (~disturbed => Judged)

-----------------------------------------------------------------------------
LEMMA RequestMeans ==
    /\ \A r \in Request : /\ r.cli \in Clients /\ r.n \in Nat /\ r.key \in Keys
                          /\ r.op \in {"SET", "GET"}
    /\ \A c \in Clients, n \in Nat, op \in {"SET", "GET"}, k \in Keys :
          LET r == [cli |-> c, n |-> n, op |-> op, key |-> k]
          IN  r \in Request /\ r.cli = c /\ r.n = n /\ r.op = op /\ r.key = k
BY DEF Request

LEMMA ValueMeans ==
    /\ NoValue \in Value /\ \A v \in Value : v.n \in Nat
    /\ \A c \in Clients, n \in Nat : [cli |-> c, n |-> n] \in Value
BY DEF Value, NoValue

LEMMA AppendMeans ==
    ASSUME NEW S, NEW s \in Seq(S), NEW x \in S
    PROVE  /\ Append(s, x) \in Seq(S) /\ Len(Append(s, x)) = Len(s) + 1
           /\ Append(s, x)[Len(s) + 1] = x /\ Len(s) \in Nat
           /\ \A i \in 1..Len(s) : Append(s, x)[i] = s[i]
OBVIOUS

LEMMA TailMeans ==
    ASSUME NEW S, NEW s \in Seq(S), s # <<>>
    PROVE  /\ Tail(s) \in Seq(S) /\ Len(Tail(s)) = Len(s) - 1
           /\ \A i \in 1..(Len(s) - 1) : Tail(s)[i] = s[i + 1]
           /\ Head(s) = s[1] /\ Head(s) \in S /\ Len(s) \in Nat \ {0}
OBVIOUS

(* Reading link and store. *)
LEMMA LinkType ==
    ASSUME Shape, NEW s \in Servers, NEW c \in Clients
    PROVE  /\ link[s] \in Links /\ link[s][c] \in Seq(Request)
           /\ Len(link[s][c]) \in Nat
           /\ \A i \in 1..Len(link[s][c]) : link[s][c][i] \in Request
BY DEF Shape, Links

LEMMA StoreType ==
    ASSUME Shape, NEW s \in Servers, NEW k \in Keys
    PROVE  store[s] \in Store /\ store[s][k] \in Value
BY DEF Shape, Store

-----------------------------------------------------------------------------
(* The copies agree. *)

(* Nothing about k changes at s. *)
LEMMA FinalFrame ==
    ASSUME NEW s, NEW k, store'[s][k] = store[s][k],
           \A c \in Clients, i \in Nat :
              /\ pending(s, c, i, k)' <=> pending(s, c, i, k)
              /\ pending(s, c, i, k) => link'[s][c][i].n = link[s][c][i].n
    PROVE  \A v : Final(s, k, v)' <=> Final(s, k, v)
BY DEF Final

LEMMA SendShape ==
    ASSUME Shape, NEW c \in Clients, NEW op \in {"SET", "GET"}, NEW k \in Keys,
           tipc_srv_send(c, op, k)
    PROVE  /\ Shape'
           /\ \E r \in Request :
                 /\ r = [cli |-> c, n |-> calls[c] + 1, op |-> op, key |-> k]
                 /\ wait' = [wait EXCEPT ![c] = r] /\ r.op = op /\ r.key = k
                 /\ r.cli = c /\ r.n = calls[c] + 1
                 /\ \A s \in up, d \in Clients :
                       link'[s][d] = IF d = c THEN Append(link[s][c], r) ELSE link[s][d]
                 /\ \A s \in Servers \ up : link'[s] = link[s]
<1> DEFINE r == [cli |-> c, n |-> calls[c] + 1, op |-> op, key |-> k]
<1>1. calls[c] \in Nat /\ calls[c] + 1 \in Nat
    BY DEF Shape
<1>2. r \in Request /\ r.cli = c /\ r.n = calls[c] + 1 /\ r.op = op /\ r.key = k
    BY <1>1, RequestMeans
<1>3. /\ wait' = [wait EXCEPT ![c] = r] /\ calls' = [calls EXCEPT ![c] = calls[c] + 1]
      /\ link' = [s \in Servers |->
                     IF s \in up THEN [link[s] EXCEPT ![c] = Append(link[s][c], r)]
                     ELSE link[s]]
      /\ raced' \subseteq Keys
      /\ UNCHANGED <<up, passive, store, due, inbox, wrong>>
    BY DEF tipc_srv_send, Shape
<1>4. /\ returned' \in [Keys -> SUBSET Value] /\ replaced' \in [Keys -> SUBSET Value]
      /\ before' \in [Clients -> SUBSET Value] /\ disturbed' \in BOOLEAN
    BY DEF tipc_srv_send, keep_or_drop_history, history, Shape
<1> HIDE DEF r
<1>5. \A s \in up : [link[s] EXCEPT ![c] = Append(link[s][c], r)] \in Links
    BY <1>2, LinkType, AppendMeans DEF Shape, Links
<1>6. link' \in [Servers -> Links]
    BY <1>3, <1>5, LinkType
<1>7. Shape'
    BY <1>1, <1>2, <1>3, <1>4, <1>6 DEF Shape
<1>8. \A s \in up : /\ s \in Servers
                    /\ link'[s] = [link[s] EXCEPT ![c] = Append(link[s][c], r)]
    BY <1>3 DEF Shape
<1>9. \A s \in up, d \in Clients :
         link'[s][d] = IF d = c THEN Append(link[s][c], r) ELSE link[s][d]
  <2>1. ASSUME NEW s \in up, NEW d \in Clients
        PROVE  link'[s][d] = IF d = c THEN Append(link[s][c], r) ELSE link[s][d]
    <3>1. s \in Servers /\ link[s] \in [Clients -> Seq(Request)]
        BY <1>8, LinkType DEF Links
    <3>. QED
        BY <1>8, <3>1
  <2>. QED
      BY <2>1
<1>10. \A s \in Servers \ up : link'[s] = link[s]
    BY <1>3
<1>. QED
    BY <1>2, <1>3, <1>7, <1>9, <1>10 DEF r

LEMMA SendCopies ==
    ASSUME CopyInv, NEW c \in Clients, NEW op \in {"SET", "GET"}, NEW k \in Keys,
           tipc_srv_send(c, op, k)
    PROVE  CopyInv'
<1>1. Shape /\ Shape'
    BY SendShape DEF CopyInv
<1>2. PICK r \in Request :
         /\ r.op = op /\ r.key = k /\ r.cli = c
         /\ \A s \in up, d \in Clients :
               link'[s][d] = IF d = c THEN Append(link[s][c], r) ELSE link[s][d]
         /\ \A s \in Servers \ up : link'[s] = link[s]
    BY <1>1, SendShape
<1>3. up' = up /\ store' = store /\ raced \subseteq raced'
    BY DEF tipc_srv_send
<1>4. \A s \in up, d \in Clients :
         /\ s \in Servers /\ Len(link[s][d]) \in Nat
         /\ d # c => link'[s][d] = link[s][d]
         /\ d = c => /\ Len(link'[s][d]) = Len(link[s][d]) + 1
                     /\ link'[s][d][Len(link[s][d]) + 1] = r
                     /\ \A i \in 1..Len(link[s][d]) : link'[s][d][i] = link[s][d][i]
  <2>1. ASSUME NEW s \in up, NEW d \in Clients
        PROVE  /\ s \in Servers /\ link[s][d] \in Seq(Request)
               /\ link'[s][d] = IF d = c THEN Append(link[s][d], r) ELSE link[s][d]
    <3>1. s \in Servers
        BY <1>1 DEF Shape
    <3>. QED
        BY <1>1, <1>2, <3>1, LinkType
  <2>2. \A q \in Seq(Request) :
           /\ Len(Append(q, r)) = Len(q) + 1 /\ Len(q) \in Nat
           /\ Append(q, r)[Len(q) + 1] = r
           /\ \A i \in 1..Len(q) : Append(q, r)[i] = q[i]
      BY AppendMeans
  <2>3. ASSUME NEW s \in up, link'[s][c] = Append(link[s][c], r), link[s][c] \in Seq(Request)
        PROVE  /\ Len(link'[s][c]) = Len(link[s][c]) + 1
               /\ link'[s][c][Len(link[s][c]) + 1] = r
               /\ \A i \in 1..Len(link[s][c]) : link'[s][c][i] = link[s][c][i]
      BY <2>2, <2>3
  <2>4. \A s \in up, d \in Clients :
           s \in Servers /\ Len(link[s][d]) \in Nat /\ (d # c => link'[s][d] = link[s][d])
      BY <2>1
  <2>5. \A s \in up :
           /\ Len(link'[s][c]) = Len(link[s][c]) + 1
           /\ link'[s][c][Len(link[s][c]) + 1] = r
           /\ \A i \in 1..Len(link[s][c]) : link'[s][c][i] = link[s][c][i]
      BY <2>1, <2>3
  <2>. QED
      BY <2>4, <2>5
<1>5. OwnRequests'
  <2>1. ASSUME NEW s \in Servers, NEW d \in Clients, NEW i \in 1..Len(link'[s][d])
        PROVE  link'[s][d][i].cli = d
    <3>1. CASE s \in up /\ d = c
      <4>1. i \in 1..Len(link[s][d]) \/ i = Len(link[s][d]) + 1
          BY <1>4, <3>1
      <4>. QED
          BY <1>2, <1>4, <3>1, <4>1, SMTT(30) DEF CopyInv, OwnRequests
    <3>2. CASE ~(s \in up /\ d = c)
        BY <1>2, <1>4, <2>1, <3>2 DEF CopyInv, OwnRequests
    <3>. QED
        BY <3>1, <3>2
  <2>. QED
      BY <2>1 DEF OwnRequests
(* Writes to other keys, and all of them when c only reads. *)
<1>6. ASSUME NEW s \in up, NEW j \in Keys, op = "GET" \/ j # k
      PROVE  /\ \A d \in Clients, i \in Nat :
                   /\ pending(s, d, i, j)' <=> pending(s, d, i, j)
                   /\ pending(s, d, i, j) => link'[s][d][i].n = link[s][d][i].n
             /\ \A v : Final(s, j, v)' <=> Final(s, j, v)
  <2>1. ASSUME NEW d \in Clients, NEW i \in Nat
        PROVE  /\ pending(s, d, i, j)' <=> pending(s, d, i, j)
               /\ pending(s, d, i, j) => link'[s][d][i] = link[s][d][i]
    <3>1. CASE d = c /\ i = Len(link[s][d]) + 1
        BY <1>2, <1>4, <1>6, <3>1, SMTT(30) DEF pending
    <3>2. CASE d = c /\ i # Len(link[s][d]) + 1
      <4>1. i \in 1..Len(link'[s][d]) <=> i \in 1..Len(link[s][d])
          BY <1>4, <3>2
      <4>. QED
          BY <1>4, <3>2, <4>1 DEF pending
    <3>3. CASE d # c
        BY <1>4, <3>3 DEF pending
    <3>. QED
        BY <3>1, <3>2, <3>3
  <2>2. store'[s][j] = store[s][j]
      BY <1>3
  <2>3. \A d \in Clients, i \in Nat :
           /\ pending(s, d, i, j)' <=> pending(s, d, i, j)
           /\ pending(s, d, i, j) => link'[s][d][i].n = link[s][d][i].n
      BY <2>1
  <2>. QED
      BY <2>2, <2>3, FinalFrame
<1>7. ASSUME NEW s \in up, op = "SET", k \notin raced'
      PROVE  /\ \A d \in Clients, i \in Nat : pending(s, d, i, k)' => d = c
             /\ \A v : Final(s, k, v)' => v = [cli |-> c, n |-> r.n]
  <2>1. under_way(s, k) \ {c} = {}
      BY <1>3, <1>7 DEF tipc_srv_send
  <2>2. ASSUME NEW d \in Clients, NEW i \in Nat, pending(s, d, i, k)', d # c
        PROVE  FALSE
    <3>1. pending(s, d, i, k)
        BY <1>4, <2>2 DEF pending
    <3>2. d \in under_way(s, k)
        BY <1>1, <1>4, <3>1, LinkType DEF pending, under_way
    <3>. QED
        BY <2>1, <2>2, <3>2
  <2>3. PICK m \in Nat : m = Len(link[s][c]) + 1
      BY <1>4
  <2>5. pending(s, c, m, k)'
      BY <1>2, <1>4, <1>7, <2>3 DEF pending
  <2>4. ASSUME NEW v, Final(s, k, v)' PROVE v = [cli |-> c, n |-> r.n]
    <3>2. PICK d \in Clients, i \in Nat :
             /\ pending(s, d, i, k)' /\ v = [cli |-> d, n |-> link'[s][d][i].n]
             /\ \A j \in Nat : pending(s, d, j, k)' => j <= i
        BY <2>4, <2>5 DEF Final
    <3>3. d = c /\ m <= i
        BY <2>2, <2>5, <3>2
    <3>4. i \in 1..Len(link'[s][c])
        BY <3>2, <3>3 DEF pending
    <3>5. i = Len(link[s][c]) + 1
        BY <1>4, <2>3, <3>3, <3>4
    <3>. QED
        BY <1>4, <3>2, <3>3, <3>5
  <2>. QED
      BY <2>2, <2>4
<1>8. OneWriter'
  <2>1. ASSUME NEW s \in up, NEW j \in Keys \ raced', NEW d \in Clients, NEW e \in Clients,
               NEW x \in Nat, NEW y \in Nat, pending(s, d, x, j)', pending(s, e, y, j)'
        PROVE  d = e
    <3>1. CASE op = "GET" \/ j # k
      <4>1. pending(s, d, x, j) /\ pending(s, e, y, j)
          BY <1>6, <2>1, <3>1
      <4>. QED
          BY <1>3, <4>1 DEF CopyInv, OneWriter
    <3>2. CASE ~(op = "GET" \/ j # k)
      <4>1. d = c /\ e = c
          BY <1>7, <2>1, <3>2
      <4>. QED
          BY <4>1
    <3>. QED
        BY <3>1, <3>2
  <2>. QED
      BY <1>3, <2>1 DEF OneWriter
<1>9. Agree'
  <2>1. ASSUME NEW s \in up, NEW t \in up, NEW j \in Keys \ raced',
               NEW v \in Value, NEW w \in Value, Final(s, j, v)', Final(t, j, w)'
        PROVE  v = w
    <3>1. CASE op = "GET" \/ j # k
      <4>1. Final(s, j, v) /\ Final(t, j, w)
          BY <1>6, <2>1, <3>1
      <4>. QED
          BY <1>3, <4>1 DEF CopyInv, Agree
    <3>2. CASE ~(op = "GET" \/ j # k)
      <4>1. v = [cli |-> c, n |-> r.n] /\ w = [cli |-> c, n |-> r.n]
          BY <1>7, <2>1, <3>2
      <4>. QED
          BY <4>1
    <3>. QED
        BY <3>1, <3>2
  <2>. QED
      BY <1>3, <2>1 DEF Agree
<1>. QED
    BY <1>1, <1>5, <1>8, <1>9 DEF CopyInv


(* What tipc_recv does with the request r that is first on the link. *)
Takes(s, c, r) ==
    /\ link[s][c] # <<>> /\ r = Head(link[s][c]) /\ r \in Request
    /\ link'[s][c] = Tail(link[s][c])
    /\ \A t \in Servers, d \in Clients : t # s \/ d # c => link'[t][d] = link[t][d]
    /\ r.op = "SET" => store'[s][r.key] = [cli |-> r.cli, n |-> r.n]
    /\ \A t \in Servers, k \in Keys :
          t # s \/ k # r.key \/ r.op # "SET" => store'[t][k] = store[t][k]

LEMMA RecvShape ==
    ASSUME Shape, NEW s \in Servers, NEW c \in Clients, tipc_recv(s, c)
    PROVE  Shape' /\ \E r \in Request : Takes(s, c, r)
<1> DEFINE r == Head(link[s][c])
           rep == [n |-> r.n, val |-> store[s][r.key]]
<1>1. /\ link[s] \in [Clients -> Seq(Request)] /\ link[s][c] # <<>>
      /\ link' = [link EXCEPT ![s] = [link[s] EXCEPT ![c] = Tail(link[s][c])]]
      /\ store' = effect(s, r)
      /\ \/ tipc_reply(s, c, rep) /\ UNCHANGED due
         \/ /\ due' = [due EXCEPT ![s] = Append(due[s], [cli |-> c, rep |-> rep])]
            /\ UNCHANGED inbox
      /\ UNCHANGED <<up, passive, wait, calls, history, raced, disturbed, wrong>>
    BY LinkType DEF tipc_recv, Links
<1>2. r \in Request /\ Tail(link[s][c]) \in Seq(Request)
    BY <1>1, TailMeans
<1>3. rep \in Reply /\ r.key \in Keys /\ [cli |-> c, rep |-> rep] \in Entry
    BY <1>2, RequestMeans, StoreType DEF Reply, Entry
<1>4. [cli |-> r.cli, n |-> r.n] \in Value
    BY <1>2, RequestMeans, ValueMeans
<1> HIDE DEF r, rep
<1>5. /\ link' \in [Servers -> Links] /\ link'[s][c] = Tail(link[s][c])
      /\ \A t \in Servers, d \in Clients : t # s \/ d # c => link'[t][d] = link[t][d]
  <2>1. [link[s] EXCEPT ![c] = Tail(link[s][c])] \in Links
      BY <1>1, <1>2 DEF Links
  <2>. QED
      BY <1>1, <2>1 DEF Shape
<1>6. /\ store' \in [Servers -> Store]
      /\ r.op = "SET" => store'[s][r.key] = [cli |-> r.cli, n |-> r.n]
      /\ \A t \in Servers, k \in Keys :
            t # s \/ k # r.key \/ r.op # "SET" => store'[t][k] = store[t][k]
  <2>1. CASE r.op = "SET"
    <3>1. store' = [store EXCEPT ![s] =
                       [store[s] EXCEPT ![r.key] = [cli |-> r.cli, n |-> r.n]]]
        BY <1>1, <2>1 DEF effect
    <3>2. store[s] \in [Keys -> Value] /\ store \in [Servers -> Store]
        BY StoreType, <1>3 DEF Store, Shape
    <3>3. [store[s] EXCEPT ![r.key] = [cli |-> r.cli, n |-> r.n]] \in Store
        BY <1>4, <3>2 DEF Store
    <3>. QED
        BY <1>3, <2>1, <3>1, <3>2, <3>3
  <2>2. CASE r.op # "SET"
      BY <1>1, <2>2 DEF effect, Shape
  <2>. QED
      BY <2>1, <2>2
<1>7. inbox' \in [Clients -> Seq(Reply)] /\ due' \in [Servers -> Seq(Entry)]
  <2>1. Append(inbox[c], rep) \in Seq(Reply) /\ inbox \in [Clients -> Seq(Reply)]
      BY <1>3, AppendMeans DEF Shape
  <2>2. /\ Append(due[s], [cli |-> c, rep |-> rep]) \in Seq(Entry)
        /\ due \in [Servers -> Seq(Entry)]
      BY <1>3, AppendMeans DEF Shape
  <2>. QED
      BY <1>1, <2>1, <2>2 DEF tipc_reply
<1>8. Shape'
    BY <1>1, <1>5, <1>6, <1>7 DEF Shape, history
<1>9. Takes(s, c, r)
    BY <1>1, <1>2, <1>5, <1>6 DEF Takes, r
<1>. QED
    BY <1>2, <1>8, <1>9

LEMMA RecvCopies ==
    ASSUME CopyInv, NEW s \in Servers, NEW c \in Clients, tipc_recv(s, c)
    PROVE  CopyInv'
<1>1. Shape /\ Shape' /\ s \in up
    BY RecvShape DEF CopyInv, tipc_recv
<1>2. PICK r \in Request : Takes(s, c, r)
    BY <1>1, RecvShape
<1>3. up' = up /\ raced' = raced /\ up \subseteq Servers
    BY <1>1 DEF tipc_recv, Shape
<1>4. /\ Len(link[s][c]) \in Nat \ {0} /\ Len(link'[s][c]) = Len(link[s][c]) - 1
      /\ \A i \in 1..(Len(link[s][c]) - 1) : link'[s][c][i] = link[s][c][i + 1]
      /\ r = link[s][c][1] /\ r.cli = c
  <2>1. link[s][c] \in Seq(Request) /\ link[s][c] # <<>>
      BY <1>1, <1>2, LinkType DEF Takes
  <2>2. /\ Len(link[s][c]) \in Nat \ {0} /\ Len(link'[s][c]) = Len(link[s][c]) - 1
        /\ \A i \in 1..(Len(link[s][c]) - 1) : link'[s][c][i] = link[s][c][i + 1]
        /\ r = link[s][c][1]
      BY <1>2, <2>1, TailMeans DEF Takes
  <2>. QED
      BY <2>2 DEF CopyInv, OwnRequests
<1>5. OwnRequests'
  <2>1. ASSUME NEW t \in Servers, NEW d \in Clients, NEW i \in 1..Len(link'[t][d])
        PROVE  link'[t][d][i].cli = d
    <3>1. CASE t = s /\ d = c
      <4>1. i \in 1..(Len(link[s][c]) - 1) /\ i + 1 \in 1..Len(link[s][c])
          BY <1>4, <2>1, <3>1
      <4>. QED
          BY <1>4, <3>1, <4>1, SMTT(30) DEF CopyInv, OwnRequests
    <3>2. CASE t # s \/ d # c
        BY <1>2, <2>1, <3>2 DEF CopyInv, OwnRequests, Takes
    <3>. QED
        BY <3>1, <3>2
  <2>. QED
      BY <2>1 DEF OwnRequests
<1>6. ASSUME NEW d \in Clients, NEW i \in Nat, NEW k \in Keys
      PROVE  /\ d # c => /\ pending(s, d, i, k)' <=> pending(s, d, i, k)
                         /\ link'[s][d] = link[s][d]
             /\ d = c => /\ pending(s, d, i, k)' => pending(s, d, i + 1, k)
                         /\ pending(s, d, i + 1, k) /\ i # 0 => pending(s, d, i, k)'
                         /\ pending(s, d, i, k)' =>
                               link'[s][d][i] = link[s][d][i + 1]
  <2>1. CASE d # c
      BY <1>2, <2>1 DEF pending, Takes
  <2>2. CASE d = c
    <3>1. /\ i \in 1..Len(link'[s][c]) => i \in 1..(Len(link[s][c]) - 1)
          /\ i \in 1..(Len(link[s][c]) - 1) => i + 1 \in 1..Len(link[s][c])
          /\ i + 1 \in 1..Len(link[s][c]) /\ i # 0 =>
                i \in 1..(Len(link[s][c]) - 1) /\ i \in 1..Len(link'[s][c])
        BY <1>4
    <3>. QED
        BY <1>4, <2>2, <3>1 DEF pending
  <2>. QED
      BY <2>1, <2>2
(* What s will hold it would have held before. *)
<1>7. ASSUME NEW k \in Keys \ raced, NEW v \in Value, Final(s, k, v)'
      PROVE  Final(s, k, v)
  <2>1. CASE \E d \in Clients, i \in Nat :
                /\ pending(s, d, i, k)' /\ v = [cli |-> d, n |-> link'[s][d][i].n]
                /\ \A j \in Nat : pending(s, d, j, k)' => j <= i
    <3>1. PICK d \in Clients, i \in Nat :
                /\ pending(s, d, i, k)' /\ v = [cli |-> d, n |-> link'[s][d][i].n]
                /\ \A j \in Nat : pending(s, d, j, k)' => j <= i
        BY <2>1
    <3>2. CASE d # c
      <4>1. /\ pending(s, d, i, k) /\ v = [cli |-> d, n |-> link[s][d][i].n]
            /\ \A j \in Nat : pending(s, d, j, k) => j <= i
          BY <1>6, <3>1, <3>2
      <4>. QED
          BY <4>1 DEF Final
    <3>3. CASE d = c
      <4>1. pending(s, d, i + 1, k) /\ v = [cli |-> d, n |-> link[s][d][i + 1].n]
          BY <1>6, <3>1, <3>3
      <4>2. ASSUME NEW j \in Nat, pending(s, d, j, k) PROVE j <= i + 1
        <5>1. CASE j = 0 \/ j = 1
            BY <3>1, <5>1
        <5>2. CASE j # 0 /\ j # 1
          <6>1. PICK h \in Nat : j = h + 1 /\ h # 0
              BY <5>2
          <6>2. pending(s, d, h, k)'
              BY <1>6, <3>3, <4>2, <6>1
          <6>. QED
              BY <3>1, <6>1, <6>2
        <5>. QED
            BY <5>1, <5>2
      <4>3. i + 1 \in Nat
          OBVIOUS
      <4>. QED
          BY <4>1, <4>2, <4>3 DEF Final
    <3>. QED
        BY <3>2, <3>3
  <2>2. CASE /\ \A d \in Clients, i \in Nat : ~pending(s, d, i, k)'
             /\ v = store'[s][k]
    <3>1. CASE r.op = "SET" /\ r.key = k
      <4>1. pending(s, c, 1, k) /\ v = [cli |-> c, n |-> link[s][c][1].n]
          BY <1>2, <1>4, <2>2, <3>1 DEF pending, Takes
      <4>2. ASSUME NEW j \in Nat, pending(s, c, j, k) PROVE j <= 1
        <5>1. CASE j # 0 /\ j # 1
          <6>1. PICK h \in Nat : j = h + 1 /\ h # 0
              BY <5>1
          <6>. QED
              BY <1>6, <2>2, <4>2, <6>1
        <5>. QED
            BY <5>1
      <4>. QED
          BY <4>1, <4>2 DEF Final
    <3>2. CASE ~(r.op = "SET" /\ r.key = k)
      <4>1. v = store[s][k]
          BY <1>2, <2>2, <3>2 DEF Takes
      <4>2. ASSUME NEW d \in Clients, NEW j \in Nat, pending(s, d, j, k) PROVE FALSE
        <5>1. CASE d # c
            BY <1>6, <2>2, <4>2, <5>1
        <5>2. CASE d = c
          <6>1. j # 0 /\ j # 1
              BY <1>4, <3>2, <4>2, <5>2 DEF pending
          <6>2. PICK h \in Nat : j = h + 1 /\ h # 0
              BY <6>1
          <6>. QED
              BY <1>6, <2>2, <4>2, <5>2, <6>2
        <5>. QED
            BY <5>1, <5>2
      <4>. QED
          BY <4>1, <4>2 DEF Final
    <3>. QED
        BY <3>1, <3>2
  <2>. QED
      BY <1>7, <2>1, <2>2 DEF Final
<1>8. ASSUME NEW t \in up, t # s, NEW k \in Keys
      PROVE  /\ \A d \in Clients, i \in Nat : pending(t, d, i, k)' <=> pending(t, d, i, k)
             /\ \A v : Final(t, k, v)' <=> Final(t, k, v)
  <2>1. \A d \in Clients : link'[t][d] = link[t][d]
      BY <1>2, <1>3, <1>8 DEF Takes
  <2>2. store'[t][k] = store[t][k]
      BY <1>2, <1>3, <1>8 DEF Takes
  <2>3. \A d \in Clients, i \in Nat : pending(t, d, i, k)' <=> pending(t, d, i, k)
      BY <2>1 DEF pending
  <2>. QED
      BY <2>1, <2>2, <2>3, FinalFrame
<1>9. OneWriter'
  <2>1. ASSUME NEW t \in up, NEW k \in Keys \ raced, NEW d \in Clients, NEW e \in Clients,
               NEW x \in Nat, NEW y \in Nat, pending(t, d, x, k)', pending(t, e, y, k)'
        PROVE  d = e
    <3>1. \E i, j \in Nat : pending(t, d, i, k) /\ pending(t, e, j, k)
      <4>1. CASE t # s
          BY <1>8, <2>1, <4>1
      <4>2. CASE t = s
        <5>1. x + 1 \in Nat /\ y + 1 \in Nat
            OBVIOUS
        <5>2. /\ pending(s, d, x, k) \/ pending(s, d, x + 1, k)
              /\ pending(s, e, y, k) \/ pending(s, e, y + 1, k)
            BY <1>6, <2>1, <4>2
        <5>. QED
            BY <4>2, <5>1, <5>2
      <4>. QED
          BY <4>1, <4>2
    <3>. QED
        BY <3>1 DEF CopyInv, OneWriter
  <2>. QED
      BY <1>3, <2>1 DEF OneWriter
<1>10. Agree'
  <2>1. ASSUME NEW t \in up, NEW k \in Keys \ raced, NEW v \in Value, Final(t, k, v)'
        PROVE  Final(t, k, v)
      BY <1>7, <1>8, <2>1
  <2>. QED
      BY <1>3, <2>1 DEF CopyInv, Agree
<1>. QED
    BY <1>1, <1>5, <1>9, <1>10, SMTT(30) DEF CopyInv

(* The other actions leave the requests under way and the stores alone, *)
(* or take a server out.                                                *)
LEMMA CopyFrame ==
    ASSUME CopyInv, Shape', up' \subseteq up, raced' = raced, store' = store,
           \A s \in Servers, d \in Clients : link'[s][d] = link[s][d] \/ link'[s][d] = <<>>,
           \A s \in up' : link'[s] = link[s]
    PROVE  CopyInv'
<1>1. OwnRequests'
    BY DEF CopyInv, OwnRequests
<1>2. ASSUME NEW s \in up', NEW k \in Keys
      PROVE  /\ \A d \in Clients, i \in Nat : pending(s, d, i, k)' <=> pending(s, d, i, k)
             /\ \A v : Final(s, k, v)' <=> Final(s, k, v)
  <2>1. \A d \in Clients, i \in Nat : pending(s, d, i, k)' <=> pending(s, d, i, k)
      BY <1>2 DEF pending
  <2>. QED
      BY <1>2, <2>1, FinalFrame
<1>3. OneWriter'
    BY <1>2 DEF CopyInv, OneWriter
<1>4. Agree'
    BY <1>2 DEF CopyInv, Agree
<1>. QED
    BY <1>1, <1>3, <1>4 DEF CopyInv

LEMMA GetRepShape ==
    ASSUME Shape, NEW c \in Clients, tipc_get_rep(c)
    PROVE  Shape' /\ wait[c] \in Request /\ wait[c].key \in Keys
<1>1. /\ wait[c] \in Request /\ wait[c].key \in Keys /\ wait[c].n \in Nat
      /\ inbox[c] \in Seq(Reply) /\ inbox[c] # <<>>
    BY RequestMeans DEF tipc_get_rep, Shape
<1>2. Tail(inbox[c]) \in Seq(Reply) /\ [cli |-> c, n |-> wait[c].n] \in Value
    BY <1>1, TailMeans, ValueMeans
<1>3. returned' \in [Keys -> SUBSET Value] /\ replaced' \in [Keys -> SUBSET Value]
  <2>1. CASE wait[c].op = "SET" /\ ~disturbed
    <3>1. /\ returned' = [returned EXCEPT ![wait[c].key] =
                             returned[wait[c].key] \cup {[cli |-> c, n |-> wait[c].n]}]
          /\ replaced' = [replaced EXCEPT ![wait[c].key] =
                             replaced[wait[c].key] \cup before[c]]
        BY <2>1 DEF tipc_get_rep
    <3>2. /\ returned[wait[c].key] \cup {[cli |-> c, n |-> wait[c].n]} \in SUBSET Value
          /\ replaced[wait[c].key] \cup before[c] \in SUBSET Value
        BY <1>1, <1>2 DEF Shape
    <3>. QED
        BY <3>1, <3>2 DEF Shape
  <2>2. CASE ~(wait[c].op = "SET" /\ ~disturbed)
      BY <2>2 DEF tipc_get_rep, Shape
  <2>. QED
      BY <2>1, <2>2
<1>4. before' \in [Clients -> SUBSET Value] /\ wrong' \in BOOLEAN
    BY DEF tipc_get_rep, Shape
<1>5. inbox' \in [Clients -> Seq(Reply)] /\ wait' \in [Clients -> Request \cup {NoReq}]
    BY <1>2 DEF tipc_get_rep, Shape
<1>6. UNCHANGED <<up, passive, link, store, due, calls, raced, disturbed>>
    BY DEF tipc_get_rep
<1>. QED
    BY <1>1, <1>3, <1>4, <1>5, <1>6 DEF Shape

LEMMA ProcessShape ==
    ASSUME Shape, NEW s \in Servers, process_op(s)
    PROVE  Shape'
<1>1. /\ due[s] \in Seq(Entry) /\ due[s] # <<>>
      /\ due' = [due EXCEPT ![s] = Tail(due[s])]
      /\ tipc_reply(s, Head(due[s]).cli, Head(due[s]).rep)
      /\ UNCHANGED <<up, passive, link, store, wait, calls, history, raced,
                     disturbed, wrong>>
    BY DEF process_op, Shape
<1>2. Tail(due[s]) \in Seq(Entry) /\ Head(due[s]) \in Entry
    BY <1>1, TailMeans
<1>3. Head(due[s]).cli \in Clients /\ Head(due[s]).rep \in Reply
    BY <1>2 DEF Entry
<1>4. Append(inbox[Head(due[s]).cli], Head(due[s]).rep) \in Seq(Reply)
    BY <1>3, AppendMeans DEF Shape
<1>5. inbox' \in [Clients -> Seq(Reply)]
    BY <1>1, <1>3, <1>4 DEF tipc_reply, Shape
<1>6. due' \in [Servers -> Seq(Entry)]
    BY <1>1, <1>2 DEF Shape
<1>. QED
    BY <1>1, <1>5, <1>6 DEF Shape, history

LEMMA SwitchShape ==
    ASSUME Shape, NEW s \in Servers, passive_to_active_sighandler(s) \/ crash(s)
    PROVE  Shape'
<1>1. /\ returned' \in [Keys -> SUBSET Value] /\ replaced' \in [Keys -> SUBSET Value]
      /\ before' \in [Clients -> SUBSET Value]
    BY DEF passive_to_active_sighandler, crash, keep_or_drop_history, history, Shape
<1>2. disturbed' \in BOOLEAN /\ raced' = raced /\ wrong' = wrong
    BY DEF passive_to_active_sighandler, crash, Shape
<1>3. /\ up' \subseteq Servers /\ passive' \in [Servers -> BOOLEAN]
      /\ UNCHANGED <<store, wait, inbox, calls>>
    BY DEF passive_to_active_sighandler, crash, Shape
<1>4. link' \in [Servers -> Links] /\ due' \in [Servers -> Seq(Entry)]
  <2>1. [c \in Clients |-> <<>>] \in Links /\ <<>> \in Seq(Entry)
      BY DEF Links
  <2>2. CASE passive_to_active_sighandler(s)
      BY <2>2 DEF passive_to_active_sighandler, Shape
  <2>3. CASE crash(s)
    <3>1. /\ link' = [link EXCEPT ![s] = [c \in Clients |-> <<>>]]
          /\ due' = [due EXCEPT ![s] = <<>>]
        BY <2>3 DEF crash
    <3>. QED
        BY <2>1, <3>1 DEF Shape
  <2>. QED
      BY <2>2, <2>3
<1>. QED
    BY <1>1, <1>2, <1>3, <1>4 DEF Shape

LEMMA InitCopies == Init => CopyInv
<1> SUFFICES ASSUME Init PROVE CopyInv
    OBVIOUS
<1>1. Shape
  <2>1. [c \in Clients |-> <<>>] \in Links /\ [k \in Keys |-> NoValue] \in Store
      BY ValueMeans DEF Links, Store
  <2>2. /\ link \in [Servers -> Links] /\ store \in [Servers -> Store]
        /\ up \subseteq Servers /\ passive \in [Servers -> BOOLEAN]
      BY <2>1 DEF Init
  <2>3. /\ returned \in [Keys -> SUBSET Value] /\ replaced \in [Keys -> SUBSET Value]
        /\ before \in [Clients -> SUBSET Value] /\ raced \subseteq Keys
        /\ disturbed \in BOOLEAN /\ wrong \in BOOLEAN
      BY ValueMeans DEF Init
  <2>4. /\ due \in [Servers -> Seq(Entry)] /\ inbox \in [Clients -> Seq(Reply)]
        /\ wait \in [Clients -> Request \cup {NoReq}] /\ calls \in [Clients -> Nat]
      BY DEF Init
  <2>. QED
      BY <2>2, <2>3, <2>4 DEF Shape
<1>2. \A s \in Servers, c \in Clients : link[s][c] = <<>> /\ Len(link[s][c]) = 0
    BY DEF Init
<1>3. \A s \in Servers, c \in Clients, i \in Nat : \A k : ~pending(s, c, i, k)
    BY <1>2 DEF pending
<1>4. \A s \in up, k \in Keys : \A v : Final(s, k, v) => v = NoValue
    BY <1>3 DEF Init, Final
<1>. QED
    BY <1>1, <1>2, <1>3, <1>4 DEF CopyInv, OwnRequests, OneWriter, Agree, Shape

LEMMA NextCopies == CopyInv /\ [Next]_vars => CopyInv'
<1> SUFFICES ASSUME CopyInv, [Next]_vars PROVE CopyInv'
    OBVIOUS
<1>1. Shape
    BY DEF CopyInv
<1>2. CASE UNCHANGED vars
    BY <1>1, <1>2, CopyFrame DEF vars, Shape
<1>3. ASSUME NEW c \in Clients, tipc_get_rep(c) PROVE CopyInv'
    BY <1>1, <1>3, GetRepShape, CopyFrame DEF tipc_get_rep
<1>4. ASSUME NEW s \in Servers, process_op(s) PROVE CopyInv'
    BY <1>1, <1>4, ProcessShape, CopyFrame DEF process_op
<1>5. ASSUME NEW s \in Servers, passive_to_active_sighandler(s) PROVE CopyInv'
    BY <1>1, <1>5, SwitchShape, CopyFrame DEF passive_to_active_sighandler
<1>6. ASSUME NEW s \in Servers, crash(s) PROVE CopyInv'
  <2>1. /\ up' = up \ {s} /\ raced' = raced /\ store' = store
        /\ link' = [link EXCEPT ![s] = [c \in Clients |-> <<>>]]
      BY <1>6 DEF crash
  <2>2. /\ \A t \in up' : link'[t] = link[t]
        /\ \A t \in Servers, d \in Clients : link'[t][d] = link[t][d] \/ link'[t][d] = <<>>
      BY <1>1, <2>1 DEF Shape
  <2>. QED
      BY <1>1, <1>6, <2>1, <2>2, SwitchShape, CopyFrame
<1>. QED
    BY <1>2, <1>3, <1>4, <1>5, <1>6, SendCopies, RecvCopies DEF Next

(* A server without requests under way holds what it will hold. *)
LEMMA QuietIsFinal ==
    ASSUME NEW s, \A c \in Clients : link[s][c] = <<>>, NEW k
    PROVE  Final(s, k, store[s][k])
<1>1. \A c \in Clients, i \in Nat : ~pending(s, c, i, k)
    BY DEF pending
<1>. QED
    BY <1>1 DEF Final

LEMMA QuietAgree ==
    ASSUME CopyInv, NEW s \in up, NEW t \in up, NEW k \in Keys \ raced,
           \A c \in Clients : link[s][c] = <<>> /\ link[t][c] = <<>>
    PROVE  store[s][k] = store[t][k]
<1>1. Final(s, k, store[s][k]) /\ Final(t, k, store[t][k])
    BY QuietIsFinal
<1>2. store[s][k] \in Value /\ store[t][k] \in Value
    BY StoreType DEF CopyInv, Shape
<1>. QED
    BY <1>1, <1>2 DEF CopyInv, Agree

(* Whichever server was passive and however they were switched, servers   *)
(* that have all requests hold the same values, under every key that no   *)
(* two clients wrote at a time.                                           *)
THEOREM CopiesStayEqual == Spec => []CopiesAgree
<1>1. CopyInv => CopiesAgree
    BY QuietAgree DEF CopiesAgree
<1>. QED
    BY <1>1, InitCopies, NextCopies, PTL DEF Spec

-----------------------------------------------------------------------------
(* Undisturbed calls. *)

QuietServersAgree ==
    \A s, t \in up, k \in Keys \ raced :
        (\A c \in Clients : link[s][c] = <<>> /\ link[t][c] = <<>>)
            => store[s][k] = store[t][k]

LEMMA QuietCopies == CopyInv' => QuietServersAgree'
<1>1. CopyInv => QuietServersAgree
    BY QuietAgree DEF QuietServersAgree
<1>. QED
    BY <1>1, PTL

LEMMA QuietAgreeNext ==
    ASSUME CopyInv', NEW s \in up', NEW t \in up', NEW k \in Keys \ raced',
           \A c \in Clients : link'[s][c] = <<>> /\ link'[t][c] = <<>>
    PROVE  store'[s][k] = store'[t][k]
<1>1. QuietServersAgree'
    BY QuietCopies
<1>. QED
    BY <1>1 DEF QuietServersAgree

(* Once all is quiet, every server is as fresh as the active one was. *)
LEMMA FreshSpreads ==
    ASSUME CopyInv', NEW a \in up', Fresh(a)', ~traffic'
    PROVE  \A s \in up' : Fresh(s)'
<1>1. \A s \in up', c \in Clients : link'[s][c] = <<>>
    BY DEF traffic
<1>2. ASSUME NEW s \in up', NEW k \in Keys \ raced' PROVE store'[s][k] = store'[a][k]
    BY <1>1, QuietAgreeNext
<1>. QED
    BY <1>2 DEF Fresh

LEMMA GoodFrame ==
    ASSUME NEW c, NEW rep, Good(c, rep), wait'[c] = wait[c], before'[c] = before[c],
           raced \subseteq raced'
    PROVE  Good(c, rep)'
BY DEF Good

(* c's answers that are due at a are the same, perhaps at other places. *)
SameDue(a, c) ==
    /\ \A i \in 1..Len(due'[a]) : due'[a][i].cli = c =>
          \E j \in 1..Len(due[a]) : due[a][j] = due'[a][i]
    /\ \A i, j \in 1..Len(due'[a]) : due'[a][i].cli = c /\ due'[a][j].cli = c => i = j

LEMMA PlaceFrame ==
    ASSUME NEW a, NEW c, Place(a, c), SameDue(a, c), link'[a][c] = link[a][c],
           inbox'[c] = inbox[c], wait'[c] = wait[c], before'[c] = before[c],
           raced \subseteq raced'
    PROVE  Place(a, c)'
<1>1. owes(a, c)' => owes(a, c)
    BY DEF SameDue, owes
<1>2. link'[a][c] # <<>> =>
          /\ wait'[c] # NoReq /\ link'[a][c] = <<wait'[c]>>
          /\ ~owes(a, c)' /\ inbox'[c] = <<>>
    BY <1>1 DEF Place
<1>3. ASSUME NEW i \in 1..Len(due'[a]), due'[a][i].cli = c
      PROVE  /\ Good(c, due[a][i].rep)' /\ inbox'[c] = <<>>
             /\ \A j \in 1..Len(due'[a]) : due'[a][j].cli = c => j = i
  <2>1. PICK j \in 1..Len(due[a]) : due[a][j] = due'[a][i]
      BY <1>3 DEF SameDue
  <2>2. Good(c, due'[a][i].rep) /\ inbox[c] = <<>>
      BY <1>3, <2>1 DEF Place
  <2>3. Good(c, due[a][i].rep)'
      BY <2>2 DEF Good
  <2>. QED
      BY <1>3, <2>2, <2>3 DEF SameDue
<1>4. inbox'[c] # <<>> => Len(inbox'[c]) = 1 /\ Good(c, inbox[c][1])'
    BY DEF Place, Good
<1>. QED
    BY <1>2, <1>3, <1>4 DEF Place

LEMMA SameDueSame ==
    ASSUME NEW a, NEW c, Place(a, c), due'[a] = due[a]
    PROVE  SameDue(a, c)
BY DEF Place, SameDue

LEMMA SendJudged ==
    ASSUME CopyInv, ~disturbed => Judged, CopyInv', NEW c \in Clients,
           NEW op \in {"SET", "GET"}, NEW k \in Keys, tipc_srv_send(c, op, k), ~disturbed'
    PROVE  Judged'
<1>1. /\ ~disturbed /\ Cardinality(active) = 1 /\ wait[c] = NoReq /\ Shape
      /\ UNCHANGED <<up, passive, store, due, inbox, returned, replaced>>
      /\ raced \subseteq raced' /\ calls' = [calls EXCEPT ![c] = calls[c] + 1]
      /\ before' = [before EXCEPT ![c] = IF op = "SET" THEN returned[k] ELSE replaced[k]]
    BY DEF tipc_srv_send, CopyInv
<1>2. PICK r \in Request :
         /\ wait' = [wait EXCEPT ![c] = r] /\ r.op = op /\ r.key = k
         /\ r.cli = c /\ r.n = calls[c] + 1
         /\ \A s \in up, d \in Clients :
               link'[s][d] = IF d = c THEN Append(link[s][c], r) ELSE link[s][d]
    BY <1>1, SendShape
<1>3. PICK a : active = {a}
  <2>1. IsFiniteSet(active)
      BY <1>1, PassiveAssumption, FS_Subset DEF active, Shape
  <2>. QED
      BY <1>1, <2>1, FS_Singleton
<1>4. /\ a \in up /\ a \in Servers /\ active' = {a} /\ Judged
      /\ Fresh(a) /\ \A d \in Clients : Place(a, d) /\ Kept(a, d)
    BY <1>1, <1>3 DEF active, Judged, Shape
<1>5. /\ calls[c] \in Nat /\ r # NoReq /\ wait'[c] = r /\ calls'[c] = calls[c] + 1
      /\ \A d \in Clients : d # c => /\ wait'[d] = wait[d] /\ calls'[d] = calls[d]
                                     /\ before'[d] = before[d]
      /\ before'[c] = IF op = "SET" THEN returned[k] ELSE replaced[k]
  <2>1. calls[c] \in Nat /\ NoReq.n = 0
      BY <1>1 DEF Shape, NoReq
  <2>2. r # NoReq
      BY <1>2, <2>1
  <2>. QED
      BY <1>1, <1>2, <2>1, <2>2 DEF Shape
<1>6. HasTurn'
  <2>1. \A d \in Clients : wait'[d] # NoReq => wait'[d].cli = d /\ wait'[d].n = calls'[d]
      BY <1>2, <1>4, <1>5 DEF Judged, HasTurn
  <2>. QED
      BY <1>1, <1>4, <2>1 DEF HasTurn
<1>7. Past'
  <2>1. ASSUME NEW j \in Keys, NEW w \in returned[j]
        PROVE  /\ w.cli \in Clients => w.n <= calls'[w.cli]
               /\ w.cli \in Clients /\ wait'[w.cli] # NoReq => w.n < calls'[w.cli]
    <3>1. w \in Value /\ w.n \in Nat
        BY <1>1, ValueMeans DEF Shape
    <3>2. w.cli \in Clients => w.n <= calls[w.cli]
        BY <1>4 DEF Judged, Past
    <3>3. CASE w.cli = c
        BY <1>5, <3>1, <3>2, <3>3
    <3>4. CASE w.cli # c
        BY <1>4, <1>5, <3>4 DEF Judged, Past
    <3>. QED
        BY <3>3, <3>4
  <2>2. \A j \in Keys : replaced[j] \subseteq returned[j]
      BY <1>4 DEF Judged, Past
  <2>3. ASSUME NEW d \in Clients, wait'[d] # NoReq
        PROVE  /\ before'[d] \subseteq returned[wait'[d].key]
               /\ wait'[d].op = "GET" => before'[d] \subseteq replaced[wait'[d].key]
    <3>1. CASE d = c
        BY <1>2, <1>5, <2>2, <3>1
    <3>2. CASE d # c
        BY <1>4, <1>5, <2>3, <3>2 DEF Judged, Past
    <3>. QED
        BY <3>1, <3>2
  <2>. QED
      BY <1>1, <2>1, <2>2, <2>3 DEF Past
<1>8. Fresh(a)'
    BY <1>1, <1>4 DEF Fresh
<1>9. link[a][c] = <<>> /\ inbox[c] = <<>> /\ ~owes(a, c)
    BY <1>1, <1>4 DEF Place, Good, owes
<1>10. link'[a][c] = <<r>>
  <2>1. link'[a][c] = Append(<<>>, r)
      BY <1>2, <1>4, <1>9
  <2>. QED
      BY <2>1
<1>11. ASSUME NEW d \in Clients PROVE Place(a, d)' /\ Kept(a, d)'
  <2>1. CASE d = c
    <3>1. ~owes(a, c)' /\ inbox'[c] = <<>>
        BY <1>1, <1>9 DEF owes
    <3>2. Place(a, c)'
        BY <1>5, <1>10, <3>1 DEF Place, owes
    <3>3. Kept(a, c)'
      <4>1. link'[a][c] # <<>>
          BY <1>10
      <4>. QED
          BY <4>1, Zenon DEF Kept
    <3>. QED
        BY <2>1, <3>2, <3>3
  <2>2. CASE d # c
    <3>1. link'[a][d] = link[a][d] /\ SameDue(a, d)
        BY <1>1, <1>2, <1>4, <2>2, SameDueSame
    <3>2. Place(a, d)'
        BY <1>1, <1>4, <1>5, <2>2, <3>1, PlaceFrame
    <3>3. Kept(a, d)'
        BY <1>1, <1>4, <1>5, <2>2, <3>1 DEF Kept
    <3>. QED
        BY <3>2, <3>3
  <2>. QED
      BY <2>1, <2>2
<1>12. traffic'
    BY <1>5 DEF traffic
<1>. QED
    BY <1>4, <1>6, <1>7, <1>8, <1>11, <1>12 DEF Judged

LEMMA GetRepJudged ==
    ASSUME CopyInv, ~disturbed, Judged, CopyInv', ~wrong, NEW c \in Clients, tipc_get_rep(c)
    PROVE  Judged' /\ ~wrong'
<1> DEFINE r == wait[c]
           k == wait[c].key
           w == [cli |-> c, n |-> wait[c].n]
<1>1. /\ Shape /\ r \in Request /\ k \in Keys /\ r # NoReq /\ inbox[c] # <<>>
      /\ r.op \in {"SET", "GET"} /\ r.n \in Nat
      /\ inbox' = [inbox EXCEPT ![c] = Tail(inbox[c])]
      /\ wait' = [wait EXCEPT ![c] = NoReq] /\ before' = [before EXCEPT ![c] = {}]
      /\ UNCHANGED <<up, passive, link, store, due, calls, raced, disturbed>>
    BY GetRepShape, RequestMeans DEF tipc_get_rep, CopyInv
<1>2. PICK a \in up : active = {a}
    BY <1>1 DEF Judged, HasTurn, traffic
<1>3. /\ a \in Servers /\ active' = {a} /\ Fresh(a)
      /\ \A d \in Clients : Place(a, d) /\ Kept(a, d)
    BY <1>1, <1>2 DEF active, Judged, Shape
<1>4. /\ link[a][c] = <<>> /\ ~owes(a, c) /\ Len(inbox[c]) = 1
      /\ Good(c, inbox[c][1]) /\ inbox[c] \in Seq(Reply) /\ Head(inbox[c]) = inbox[c][1]
    BY <1>1, <1>3 DEF Place, owes, Shape
<1>5. ~wrong'
    BY <1>4 DEF tipc_get_rep, Good
<1>6. /\ \A d \in Clients : d # c => /\ wait'[d] = wait[d] /\ inbox'[d] = inbox[d]
                                     /\ before'[d] = before[d]
      /\ wait'[c] = NoReq /\ inbox'[c] = <<>>
  <2>1. Tail(inbox[c]) \in Seq(Reply) /\ Len(Tail(inbox[c])) = 0
      BY <1>1, <1>4, TailMeans
  <2>. QED
      BY <1>1, <2>1 DEF Shape
<1>7. /\ wait[c].cli = c /\ r.n = calls[c] /\ calls[c] \in Nat
      /\ before[c] \subseteq returned[k]
    BY <1>1 DEF Judged, HasTurn, Past, Shape
<1>8. /\ \A j \in Keys : /\ returned[j] \subseteq returned'[j]
                         /\ \A x \in returned'[j] : x \in returned[j] \/ x = w
                         /\ replaced[j] \subseteq replaced'[j]
                         /\ replaced'[j] \subseteq returned'[j]
                         /\ j # k => replaced'[j] = replaced[j]
      /\ r.op = "GET" => replaced' = replaced
      /\ replaced'[k] \subseteq replaced[k] \cup before[c]
  <2>1. \A j \in Keys : replaced[j] \subseteq returned[j]
      BY DEF Judged, Past
  <2>2. CASE r.op = "SET"
    <3>1. /\ returned' = [returned EXCEPT ![k] = returned[k] \cup {w}]
          /\ replaced' = [replaced EXCEPT ![k] = replaced[k] \cup before[c]]
        BY <2>2 DEF tipc_get_rep
    <3>2. /\ returned'[k] = returned[k] \cup {w}
          /\ replaced'[k] = replaced[k] \cup before[c]
          /\ \A j \in Keys : j # k => returned'[j] = returned[j] /\ replaced'[j] = replaced[j]
        BY <1>1, <3>1 DEF Shape
    <3> HIDE DEF r, k, w
    <3>. QED
        BY <1>7, <2>1, <2>2, <3>2
  <2>3. CASE r.op # "SET"
      BY <2>1, <2>3 DEF tipc_get_rep
  <2>. QED
      BY <2>2, <2>3
<1> HIDE DEF r, k
<1>9. HasTurn'
    BY <1>1, <1>2, <1>3, <1>6 DEF HasTurn, Judged
<1>10. Past'
  <2>1. ASSUME NEW j \in Keys, NEW x \in returned'[j]
        PROVE  /\ x.cli \in Clients => x.n <= calls[x.cli]
               /\ x.cli \in Clients /\ wait'[x.cli] # NoReq => x.n < calls[x.cli]
    <3>1. CASE x \in returned[j]
        BY <1>6, <3>1 DEF Judged, Past
    <3>2. CASE x = w
        BY <1>6, <1>7, <3>2 DEF r
    <3>. QED
        BY <1>8, <3>1, <3>2
  <2>2. ASSUME NEW d \in Clients, wait'[d] # NoReq
        PROVE  /\ before'[d] \subseteq returned'[wait'[d].key]
               /\ wait'[d].op = "GET" => before'[d] \subseteq replaced'[wait'[d].key]
    <3>1. d # c /\ wait'[d] = wait[d] /\ before'[d] = before[d] /\ wait[d].key \in Keys
        BY <1>1, <1>6, <2>2, RequestMeans DEF Shape
    <3>2. /\ before[d] \subseteq returned[wait[d].key]
          /\ wait[d].op = "GET" => before[d] \subseteq replaced[wait[d].key]
        BY <2>2, <3>1 DEF Judged, Past
    <3>. QED
        BY <1>8, <3>1, <3>2
  <2>. QED
      BY <1>1, <1>8, <2>1, <2>2 DEF Past
<1>11. Fresh(a)'
  <2>1. ASSUME NEW j \in Keys \ raced PROVE store[a][j] \notin replaced'[j]
    <3>1. store[a][j] \notin replaced[j]
        BY <1>3 DEF Fresh
    <3>2. CASE j = k /\ r.op = "SET"
      <4>1. store[a][k] \notin before[c]
          BY <1>1, <1>3, <1>4, <3>2 DEF Kept, r, k
      <4>. QED
          BY <1>8, <3>1, <3>2, <4>1
    <3>3. CASE j # k \/ r.op = "GET"
        BY <1>8, <3>1, <3>3
    <3>. QED
        BY <1>1, <3>2, <3>3
  <2>. QED
      BY <1>1, <2>1 DEF Fresh
<1>12. ASSUME NEW d \in Clients PROVE Place(a, d)' /\ Kept(a, d)'
  <2>1. CASE d = c
    <3>1. link'[a][c] = <<>> /\ ~owes(a, c)' /\ inbox'[c] = <<>> /\ wait'[c] = NoReq
        BY <1>1, <1>4, <1>6 DEF owes
    <3>. QED
        BY <2>1, <3>1 DEF Place, Kept, owes
  <2>2. CASE d # c
    <3>1. SameDue(a, d)
        BY <1>1, <1>3, SameDueSame
    <3>2. Place(a, d)'
        BY <1>1, <1>3, <1>6, <2>2, <3>1, PlaceFrame
    <3>3. Kept(a, d)'
        BY <1>1, <1>3, <1>6, <2>2 DEF Kept
    <3>. QED
        BY <3>2, <3>3
  <2>. QED
      BY <2>1, <2>2
<1>13. ~traffic' => \A s \in up' : Fresh(s)'
    BY <1>1, <1>2, <1>11, FreshSpreads
<1>. QED
    BY <1>3, <1>5, <1>9, <1>10, <1>11, <1>12, <1>13 DEF Judged

(* What no step but a send or a return changes. *)
LEMMA TurnFrame ==
    ASSUME Judged, active' = active, up' = up, NEW a \in up, active = {a},
           UNCHANGED <<wait, calls, history>>
    PROVE  HasTurn' /\ Past'
BY DEF Judged, HasTurn, Past, history

LEMMA RecvJudged ==
    ASSUME CopyInv, ~disturbed, Judged, CopyInv', NEW s \in Servers, NEW c \in Clients,
           tipc_recv(s, c)
    PROVE  Judged'
<1>1. /\ Shape /\ s \in up /\ link[s][c] # <<>>
      /\ UNCHANGED <<up, passive, wait, calls, history, raced>>
      /\ up' = up /\ passive' = passive /\ wait' = wait /\ calls' = calls /\ raced' = raced
      /\ returned' = returned /\ replaced' = replaced /\ before' = before
    BY DEF tipc_recv, CopyInv, history
<1>2. PICK r \in Request : Takes(s, c, r)
    BY <1>1, RecvShape
<1>3. PICK a \in up : active = {a}
    BY <1>1 DEF Judged, HasTurn, traffic
<1>4. /\ a \in Servers /\ active' = active /\ Fresh(a)
      /\ \A d \in Clients : Place(a, d) /\ Kept(a, d)
    BY <1>1, <1>3, SMTT(30) DEF active, Judged, Shape
<1> DEFINE rep == [n |-> r.n, val |-> store[s][r.key]]
           x == [cli |-> c, rep |-> rep]
<1>5. \/ due' = due /\ inbox' = IF passive[s] THEN inbox
                                ELSE [inbox EXCEPT ![c] = Append(inbox[c], rep)]
      \/ due' = [due EXCEPT ![s] = Append(due[s], x)] /\ inbox' = inbox
    BY <1>2 DEF tipc_recv, tipc_reply, Takes
<1>6. /\ rep.n = r.n /\ rep.val = store[s][r.key] /\ x.cli = c /\ x.rep = rep
      /\ x \in Entry /\ r.key \in Keys /\ r.op \in {"SET", "GET"}
    BY <1>1, RequestMeans, StoreType DEF Entry, Reply
<1> HIDE DEF rep, x
<1>7. HasTurn' /\ Past'
    BY <1>1, <1>3, <1>4, TurnFrame
<1>8. Fresh(a)' /\ \A d \in Clients : Place(a, d)' /\ Kept(a, d)'
  <2>1. CASE s # a
    <3>1. passive[s]
        BY <1>1, <1>3, <2>1 DEF active
    <3>2. inbox' = inbox /\ due'[a] = due[a]
        BY <1>1, <1>4, <1>5, <2>1, <3>1 DEF Shape
    <3>3. /\ \A d \in Clients : link'[a][d] = link[a][d]
          /\ \A k \in Keys : store'[a][k] = store[a][k]
        BY <1>2, <1>4, <2>1 DEF Takes
    <3>4. Fresh(a)'
        BY <1>1, <1>4, <3>3 DEF Fresh
    <3>5. ASSUME NEW d \in Clients PROVE Place(a, d)' /\ Kept(a, d)'
      <4>1. Place(a, d)'
          BY <1>1, <1>4, <3>2, <3>3, SameDueSame, PlaceFrame
      <4>2. wait[d] # NoReq => wait[d].key \in Keys
          BY <1>1, RequestMeans DEF Shape
      <4>3. Kept(a, d)'
          BY <1>1, <1>4, <3>3, <4>2 DEF Kept
      <4>. QED
          BY <4>1, <4>3
    <3>. QED
        BY <3>4, <3>5
  <2>2. CASE s = a
    <3>1. /\ wait[c] # NoReq /\ link[a][c] = <<wait[c]>> /\ ~owes(a, c) /\ inbox[c] = <<>>
        BY <1>1, <1>4, <2>2 DEF Place
    <3>2. r = wait[c] /\ link'[a][c] = <<>>
      <4>1. Head(<<wait[c]>>) = wait[c] /\ Tail(<<wait[c]>>) = <<>>
          OBVIOUS
      <4>. QED
          BY <1>2, <2>2, <3>1, <4>1 DEF Takes
    <3>3. /\ r.cli = c /\ r.n = calls[c] /\ calls[c] \in Nat
          /\ before[c] \subseteq returned[r.key]
          /\ r.op = "GET" => before[c] \subseteq replaced[r.key]
        BY <1>1, <3>1, <3>2 DEF Judged, HasTurn, Past, Shape
    <3>4. \A k \in Keys : [cli |-> c, n |-> r.n] \notin returned[k]
      <4>1. ASSUME NEW k \in Keys, [cli |-> c, n |-> r.n] \in returned[k] PROVE FALSE
        <5>1. r.n < calls[c]
            BY <3>1, <4>1 DEF Judged, Past
        <5>. QED
            BY <3>3, <5>1
      <4>. QED
          BY <4>1
    (* The store holds what it held, or what no call has returned for. *)
    <3>5. \A k \in Keys : store'[a][k] = store[a][k] \/ store'[a][k] \notin returned[k]
        BY <1>2, <1>4, <1>6, <2>2, <3>3, <3>4 DEF Takes
    <3>6. Good(c, rep)
      <4>1. r.op = "GET" /\ r.key \notin raced => store[a][r.key] \notin before[c]
          BY <1>4, <1>6, <3>3 DEF Fresh
      <4>. QED
          BY <1>6, <2>2, <3>1, <3>2, <4>1 DEF Good
    <3>7. Fresh(a)'
      <4>1. \A k \in Keys : replaced[k] \subseteq returned[k]
          BY DEF Judged, Past
      <4>. QED
          BY <1>1, <1>4, <3>5, <4>1 DEF Fresh
    <3>8. ASSUME NEW d \in Clients PROVE Kept(a, d)'
      <4>1. CASE d = c
        <5>1. r.op = "SET" => store'[a][r.key] \notin returned[r.key]
            BY <1>2, <1>6, <2>2, <3>3, <3>4 DEF Takes
        <5>. QED
            BY <1>1, <3>2, <3>3, <4>1, <5>1 DEF Kept
      <4>2. CASE d # c
        <5>1. link'[a][d] = link[a][d]
            BY <1>2, <1>4, <4>2 DEF Takes
        <5>2. wait[d] # NoReq => /\ wait[d].key \in Keys
                                 /\ before[d] \subseteq returned[wait[d].key]
            BY <1>1, RequestMeans DEF Shape, Judged, Past
        <5>. QED
            BY <1>1, <1>4, <3>5, <5>1, <5>2 DEF Kept
      <4>. QED
          BY <4>1, <4>2
    <3>9. CASE /\ due' = due
               /\ inbox' = IF passive[s] THEN inbox
                           ELSE [inbox EXCEPT ![c] = Append(inbox[c], rep)]
      <4>1. inbox' = [inbox EXCEPT ![c] = Append(<<>>, rep)] /\ inbox \in [Clients -> Seq(Reply)]
          BY <1>1, <1>3, <2>2, <3>1, <3>9 DEF active, Shape
      <4>2. inbox'[c] = <<rep>> /\ \A d \in Clients : d # c => inbox'[d] = inbox[d]
          BY <4>1
      <4>3. Place(a, c)'
        <5>1. ~owes(a, c)' /\ Len(inbox'[c]) = 1 /\ inbox'[c][1] = rep
            BY <3>1, <3>9, <4>2 DEF owes
        <5>3. Good(c, inbox[c][1])'
            BY <1>1, <3>6, <5>1 DEF Good
        <5>. QED
            BY <3>2, <5>1, <5>3 DEF Place, owes
      <4>4. ASSUME NEW d \in Clients, d # c PROVE Place(a, d)'
        <5>1. link'[a][d] = link[a][d]
            BY <1>2, <1>4, <4>4 DEF Takes
        <5>. QED
            BY <1>1, <1>4, <3>9, <4>2, <4>4, <5>1, SameDueSame, PlaceFrame
      <4>. QED
          BY <3>7, <3>8, <4>3, <4>4
    <3>10. CASE due' = [due EXCEPT ![s] = Append(due[s], x)] /\ inbox' = inbox
      <4>1. /\ due[a] \in Seq(Entry) /\ due'[a] = Append(due[a], x)
          BY <1>1, <1>4, <2>2, <3>10 DEF Shape
      <4>2. /\ Len(due[a]) \in Nat /\ Len(due'[a]) = Len(due[a]) + 1
            /\ due'[a][Len(due[a]) + 1] = x
            /\ \A i \in 1..Len(due[a]) : due'[a][i] = due[a][i]
          BY <1>6, <4>1, AppendMeans
      <4>3. \A i \in 1..Len(due'[a]) : i \in 1..Len(due[a]) \/ i = Len(due[a]) + 1
          BY <4>2
      <4>4. Place(a, c)'
        <5>1. \A i \in 1..Len(due'[a]) : due'[a][i].cli = c => i = Len(due[a]) + 1
            BY <3>1, <4>2, <4>3 DEF owes
        <5>3. ASSUME NEW i \in 1..Len(due'[a]), due'[a][i].cli = c
              PROVE  /\ Good(c, due[a][i].rep)'
                     /\ \A j \in 1..Len(due'[a]) : due'[a][j].cli = c => j = i
          <6>1. due'[a][i].rep = rep
              BY <1>6, <4>2, <5>1, <5>3
          <6>2. Good(c, due[a][i].rep)'
              BY <1>1, <3>6, <6>1 DEF Good
          <6>. QED
              BY <5>1, <5>3, <6>2
        <5>. QED
            BY <3>1, <3>2, <3>10, <5>3 DEF Place, owes
      <4>5. ASSUME NEW d \in Clients, d # c PROVE Place(a, d)'
        <5>1. link'[a][d] = link[a][d]
            BY <1>2, <1>4, <4>5 DEF Takes
        <5>2. \A i \in 1..Len(due'[a]) : due'[a][i].cli = d =>
                 i \in 1..Len(due[a]) /\ due'[a][i] = due[a][i]
            BY <1>6, <4>2, <4>3, <4>5
        <5>3. SameDue(a, d)
            BY <1>4, <5>2 DEF Place, SameDue
        <5>. QED
            BY <1>1, <1>4, <3>10, <5>1, <5>3, PlaceFrame
      <4>. QED
          BY <3>7, <3>8, <4>4, <4>5
    <3>. QED
        BY <1>5, <3>9, <3>10
  <2>. QED
      BY <2>1, <2>2
<1>9. ~traffic' => \A t \in up' : Fresh(t)'
    BY <1>1, <1>8, FreshSpreads
<1>. QED
    BY <1>3, <1>4, <1>7, <1>8, <1>9 DEF Judged

LEMMA ProcessJudged ==
    ASSUME CopyInv, ~disturbed, Judged, CopyInv', NEW s \in Servers, process_op(s)
    PROVE  Judged'
<1> DEFINE x == Head(due[s])
<1>1. /\ Shape /\ s \in up /\ due[s] # <<>> /\ due[s] \in Seq(Entry)
      /\ due' = [due EXCEPT ![s] = Tail(due[s])]
      /\ inbox' = IF passive[s] THEN inbox
                  ELSE [inbox EXCEPT ![x.cli] = Append(inbox[x.cli], x.rep)]
      /\ UNCHANGED <<up, passive, link, store, wait, calls, history, raced>>
      /\ up' = up /\ passive' = passive /\ wait' = wait /\ calls' = calls /\ raced' = raced
      /\ returned' = returned /\ replaced' = replaced /\ before' = before
      /\ link' = link /\ store' = store
    BY DEF process_op, tipc_reply, CopyInv, Shape, history
<1>2. PICK a \in up : active = {a}
    BY <1>1 DEF Judged, HasTurn, traffic
<1>3. /\ a \in Servers /\ active' = active /\ Fresh(a)
      /\ \A d \in Clients : Place(a, d) /\ Kept(a, d)
    BY <1>1, <1>2 DEF active, Judged, Shape
<1>4. HasTurn' /\ Past'
    BY <1>1, <1>2, <1>3, TurnFrame
<1>5. Fresh(a)' /\ \A d \in Clients : Kept(a, d)'
    BY <1>1, <1>3 DEF Fresh, Kept
<1>6. \A d \in Clients : Place(a, d)'
  <2>1. CASE s # a
    <3>1. passive[s]
        BY <1>1, <1>2, <2>1 DEF active
    <3>2. inbox' = inbox /\ due'[a] = due[a]
        BY <1>1, <1>3, <2>1, <3>1 DEF Shape
    <3>. QED
        BY <1>1, <1>3, <3>2, SameDueSame, PlaceFrame
  <2>2. CASE s = a
    <3>1. /\ Len(due[a]) \in Nat \ {0} /\ Len(due'[a]) = Len(due[a]) - 1
          /\ \A i \in 1..(Len(due[a]) - 1) : due'[a][i] = due[a][i + 1]
          /\ x = due[a][1] /\ x \in Entry
      <4>1. due'[a] = Tail(due[a]) /\ due[a] \in Seq(Entry) /\ due[a] # <<>>
          BY <1>1, <1>3, <2>2 DEF Shape
      <4>. QED
          BY <2>2, <4>1, TailMeans
    <3>2. x.cli \in Clients /\ 1 \in 1..Len(due[a]) /\ ~passive[a]
        BY <1>2, <3>1 DEF Entry, active
    <3>3. \A i \in 1..Len(due'[a]) :
             i + 1 \in 1..Len(due[a]) /\ due'[a][i] = due[a][i + 1] /\ i + 1 # 1
        BY <3>1
    <3> HIDE DEF x
    <3>4. /\ Good(x.cli, x.rep) /\ inbox[x.cli] = <<>> /\ link[a][x.cli] = <<>>
          /\ \A j \in 1..Len(due[a]) : due[a][j].cli = x.cli => j = 1
        BY <1>3, <3>1, <3>2 DEF Place, owes
    <3>5. ASSUME NEW d \in Clients PROVE Place(a, d)'
      <4>1. CASE d = x.cli
        <5>1. inbox'[d] = Append(<<>>, x.rep)
            BY <1>1, <2>2, <3>2, <3>4, <4>1 DEF Shape
        <5>2. inbox'[d] = <<x.rep>>
            BY <5>1
        <5>3. Len(inbox'[d]) = 1 /\ inbox'[d][1] = x.rep
            BY <5>2
        <5>4. Good(d, inbox[d][1])'
            BY <1>1, <3>4, <4>1, <5>3 DEF Good
        <5>5. \A i \in 1..Len(due'[a]) : due'[a][i].cli # d
            BY <3>3, <3>4, <4>1
        <5>. QED
            BY <1>1, <3>4, <4>1, <5>3, <5>4, <5>5 DEF Place, owes
      <4>2. CASE d # x.cli
        <5>1. inbox'[d] = inbox[d]
            BY <1>1, <2>2, <3>2, <4>2 DEF Shape
        <5>2. \A i \in 1..Len(due'[a]) : due'[a][i].cli = d =>
                 \E j \in 1..Len(due[a]) : due[a][j] = due'[a][i]
            BY <3>3
        <5>3. ASSUME NEW i \in 1..Len(due'[a]), NEW j \in 1..Len(due'[a]),
                     due'[a][i].cli = d, due'[a][j].cli = d
              PROVE  i = j
          <6>0. /\ i + 1 \in 1..Len(due[a]) /\ due[a][i + 1].cli = d
                /\ j + 1 \in 1..Len(due[a]) /\ due[a][j + 1].cli = d
              BY <3>3, <5>3
          <6>1. i + 1 = j + 1
              BY <1>3, <6>0 DEF Place
          <6>. QED
              BY <3>1, <6>1
        <5>4. SameDue(a, d)
            BY <5>2, <5>3 DEF SameDue
        <5>. QED
            BY <1>1, <1>3, <5>1, <5>4, PlaceFrame
      <4>. QED
          BY <4>1, <4>2
    <3>. QED
        BY <3>5
  <2>. QED
      BY <2>1, <2>2
<1>7. ~traffic' => \A t \in up' : Fresh(t)'
    BY <1>1, <1>5, FreshSpreads
<1>. QED
    BY <1>2, <1>3, <1>4, <1>5, <1>6, <1>7 DEF Judged

(* A switch or a crash that disturbs nothing finds nothing under way. *)
LEMMA SwitchJudged ==
    ASSUME CopyInv, ~disturbed => Judged, CopyInv', NEW s \in Servers,
           passive_to_active_sighandler(s) \/ crash(s), ~disturbed'
    PROVE  Judged'
<1>1. /\ ~disturbed /\ ~traffic /\ up' \subseteq up /\ Shape
      /\ wait' = wait /\ calls' = calls /\ raced' = raced /\ store' = store /\ inbox' = inbox
      /\ returned' = returned /\ replaced' = replaced /\ before' = before
    BY DEF passive_to_active_sighandler, crash, keep_or_drop_history, history, CopyInv
<1>2. /\ \A t \in up' : due'[t] = due[t] /\ link'[t] = link[t]
    BY <1>1 DEF passive_to_active_sighandler, crash, Shape
<1>3. /\ \A c \in Clients : wait[c] = NoReq /\ inbox[c] = <<>>
      /\ \A t \in up' : due'[t] = <<>> /\ \A c \in Clients : link'[t][c] = <<>>
    BY <1>1, <1>2 DEF traffic
<1>4. ~traffic'
    BY <1>1, <1>3 DEF traffic
<1>5. HasTurn' /\ Past'
  <2>1. HasTurn'
      BY <1>1, <1>3, <1>4 DEF HasTurn
  <2>2. Past'
      BY <1>1 DEF Judged, Past
  <2>. QED
      BY <2>1, <2>2
<1>6. \A t \in up' : Fresh(t)'
    BY <1>1 DEF Judged, Fresh
<1>7. \A t \in up', c \in Clients : Place(t, c)' /\ Kept(t, c)'
    BY <1>1, <1>3 DEF Place, owes, Kept
<1>8. active' \subseteq up'
    BY DEF active
<1>. QED
    BY <1>5, <1>6, <1>7, <1>8 DEF Judged

LEMMA InitQInv == Init => QInv
<1> SUFFICES ASSUME Init PROVE QInv
    OBVIOUS
<1>1. CopyInv /\ ~wrong
    BY InitCopies DEF Init
<1>2. /\ \A c \in Clients : wait[c] = NoReq /\ inbox[c] = <<>>
      /\ \A s \in Servers : due[s] = <<>> /\ \A c \in Clients : link[s][c] = <<>>
      /\ up = Servers /\ \A k \in Keys : returned[k] = {NoValue} /\ replaced[k] = {}
    BY DEF Init
<1>3. ~traffic
    BY <1>2 DEF traffic
<1>4. HasTurn
    BY <1>2, <1>3 DEF HasTurn
<1>5. Past
    BY <1>2 DEF Past, NoValue, Init
<1>6. \A s \in Servers : Fresh(s) /\ \A c \in Clients : Place(s, c) /\ Kept(s, c)
    BY <1>2 DEF Fresh, Place, owes, Kept
<1>7. active \subseteq Servers
    BY <1>2 DEF active
<1>. QED
    BY <1>1, <1>2, <1>4, <1>5, <1>6, <1>7 DEF QInv, Judged

LEMMA NextQInv == QInv /\ [Next]_vars => QInv'
<1> SUFFICES ASSUME QInv, [Next]_vars PROVE QInv'
    OBVIOUS
<1>1. CopyInv /\ CopyInv' /\ ~wrong /\ (~disturbed => Judged)
    BY NextCopies DEF QInv
<1>2. CASE UNCHANGED vars
    BY <1>1, <1>2 DEF vars, QInv, Judged, HasTurn, Past, Fresh, Place, Kept, Good, owes,
                      active, traffic
<1>3. ASSUME NEW c \in Clients, NEW op \in {"SET", "GET"}, NEW k \in Keys,
             tipc_srv_send(c, op, k)
      PROVE  QInv'
  <2>1. ~wrong'
      BY <1>1, <1>3 DEF tipc_srv_send
  <2>. QED
      BY <1>1, <1>3, <2>1, SendJudged DEF QInv
<1>4. ASSUME NEW c \in Clients, tipc_get_rep(c) PROVE QInv'
  <2>1. CASE disturbed
      BY <1>1, <1>4, <2>1 DEF tipc_get_rep, QInv
  <2>2. CASE ~disturbed
      BY <1>1, <1>4, <2>2, GetRepJudged DEF QInv
  <2>. QED
      BY <2>1, <2>2
<1>5. ASSUME NEW s \in Servers, NEW c \in Clients, tipc_recv(s, c) PROVE QInv'
  <2>1. disturbed' = disturbed /\ wrong' = wrong
      BY <1>5 DEF tipc_recv
  <2>. QED
      BY <1>1, <1>5, <2>1, RecvJudged DEF QInv
<1>6. ASSUME NEW s \in Servers, process_op(s) PROVE QInv'
  <2>1. disturbed' = disturbed /\ wrong' = wrong
      BY <1>6 DEF process_op
  <2>. QED
      BY <1>1, <1>6, <2>1, ProcessJudged DEF QInv
<1>7. ASSUME NEW s \in Servers, passive_to_active_sighandler(s) \/ crash(s) PROVE QInv'
  <2>1. wrong' = wrong
      BY <1>7 DEF passive_to_active_sighandler, crash
  <2>. QED
      BY <1>1, <1>7, <2>1, SwitchJudged DEF QInv
<1>. QED
    BY <1>2, <1>3, <1>4, <1>5, <1>6, <1>7 DEF Next

(* As long as switches and crashes find nothing under way and one server  *)
(* is active when a call begins, every call returns its own reply, and no *)
(* get a value that was overwritten before it began: passive servers were *)
(* kept up to date, and did not answer.                                   *)
THEOREM QuietSwitchesAreSafe == Spec => []QuietSwitchIsSafe
<1>1. QInv => QuietSwitchIsSafe
    BY DEF QInv, QuietSwitchIsSafe
<1>. QED
    BY <1>1, InitQInv, NextQInv, PTL DEF Spec

=============================================================================
