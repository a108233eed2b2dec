---------------------------- MODULE ConnsProofs ----------------------------
(***************************************************************************)
(* Theorems about Conns, for any clients, descriptors and addresses: whose *)
(* reply a client can get, and that its calls stay in step with its        *)
(* replies.                                                                *)
(***************************************************************************)
EXTENDS Conns, WellFoundedInduction, TLAPS

Ends == Fds \cup Addrs
QEntry == [tag : Tags, end : Ends]
Mail == [tag : Tags, end : Ends \cup {Nowhere}, again : BOOLEAN]

Shape ==
    /\ proc \in [Clients -> {"new", "idle", "waiting", "gone"}]
    /\ backlog \subseteq TcpClients
    /\ holder \in [Ends -> Clients \cup {Nobody}]
    /\ end \in [Clients -> Ends \cup {Nowhere}]
    /\ transit \subseteq Mail
    /\ queue \in Seq(QEntry)
    /\ inbox \in [Clients -> Seq(Tags)]
    /\ calls \in [Clients -> 0..MaxCalls]
    /\ got \in [Clients -> Seq(Tags)]
    /\ inherited \in [Clients -> SUBSET Tags]

(* An end that is taken leads to the client that has it, and one that a    *)
(* live client has is taken by it.  Who has no end yet has seen nothing.   *)
Held ==
    /\ \A e \in Ends : holder[e] # Nobody => end[holder[e]] = e
    /\ \A c \in Clients :
          /\ end[c] # Nowhere /\ proc[c] # "gone" => holder[end[c]] = c
          /\ proc[c] = "new" \/ c \in backlog => end[c] = Nowhere
          /\ proc[c] = "new" => c \notin backlog
          /\ end[c] = Nowhere =>
                inbox[c] = <<>> /\ got[c] = <<>> /\ inherited[c] = {}

InServer == transit \cup ToSet(queue)

(* A request is answered to the end of the client that sent it.  While     *)
(* that client lives, the end leads to it; afterwards perhaps to an heir.  *)
LeadsTo(t, e) ==
    /\ e = end[t.cli] /\ proc[t.cli] # "new"
    /\ e # Nowhere =>
          /\ holder[e] = t.cli \/ proc[t.cli] = "gone"
          /\ holder[e] \in {Nobody, t.cli} \/ t \in inherited[holder[e]]

Bound == \A m \in InServer : LeadsTo(m.tag, m.end)

HInv == Shape /\ Held /\ Bound /\ OnlyHeirsSeeStrangers

-----------------------------------------------------------------------------
(* Of a client that has inherited nothing: its last request is in one      *)
(* place at most, and no older one is anywhere.                            *)
now(c) == [cli |-> c, n |-> calls[c]]
in_transit(c) == \E m \in transit : m.tag.cli = c
in_queue(c) == \E i \in 1..Len(queue) : queue[i].tag.cli = c

OnePlace(c) ==
    /\ \A m \in transit : m.tag.cli = c => m.tag = now(c) /\ ~m.again
    /\ \A i \in 1..Len(queue) : queue[i].tag.cli = c =>
          /\ queue[i].tag = now(c)
          /\ \A j \in 1..Len(queue) : queue[j].tag.cli = c => j = i
    /\ inbox[c] # <<>> => inbox[c] = <<now(c)>>
    /\ ~(in_transit(c) /\ in_queue(c))
    /\ inbox[c] # <<>> => ~in_transit(c) /\ ~in_queue(c)
    /\ proc[c] \in {"new", "idle"} =>
          ~in_transit(c) /\ ~in_queue(c) /\ inbox[c] = <<>>

InStep(c) ==
    /\ OnePlace(c)
    /\ proc[c] \in {"new", "idle"} => Len(got[c]) = calls[c]
    /\ proc[c] = "waiting" => Len(got[c]) + 1 = calls[c]
    /\ \A i \in 1..Len(got[c]) : got[c][i] = [cli |-> c, n |-> i]

SInv == HInv /\ \A c \in Clients \ Lossy : inherited[c] = {} => InStep(c)

-----------------------------------------------------------------------------
LEMMA Apart == /\ Nowhere \notin Ends /\ Nobody \notin Clients
               /\ Fds \subseteq Ends /\ Addrs \subseteq Ends /\ Fds \subseteq Nat
BY ClientsAssumption, EndsAssumption DEF Ends, Nowhere, Nobody

USE Apart

LEMMA MailMeans ==
    ASSUME NEW m \in Mail
    PROVE  /\ m.tag \in Tags /\ m.tag.cli \in Clients /\ m.again \in BOOLEAN
           /\ m.end \in Ends \cup {Nowhere}
           /\ \A e \in Ends : LET x == [m EXCEPT !.end = e]
                              IN  /\ x \in Mail /\ x.tag = m.tag /\ x.end = e
                                  /\ x.again = m.again
           /\ LET x == [m EXCEPT !.again = FALSE]
              IN  x \in Mail /\ x.tag = m.tag /\ x.end = m.end /\ ~x.again
BY DEF Mail, Tags

LEMMA QEntryMeans ==
    /\ \A q \in QEntry : q.tag \in Tags /\ q.tag.cli \in Clients /\ q.end \in Ends
    /\ \A t \in Tags, e \in Ends : [tag |-> t, end |-> e] \in QEntry
BY DEF QEntry, Tags

LEMMA MinIsLeast ==
    ASSUME NEW S, S \subseteq Nat, S # {}
    PROVE  Min(S) \in S /\ \A x \in S : Min(S) <= x
<1> DEFINE R == OpToRel(<, Nat)
<1>1. \A m, n \in Nat : m < n => <<m, n>> \in R
    BY Zenon DEF OpToRel
<1>2. IsWellFoundedOn(R, Nat)
    BY NatLessThanWellFounded, Zenon
<1> HIDE DEF R
<1>3. PICK n \in S : \A m \in S : <<m, n>> \notin R
    BY <1>2, WFMin, Zenon
<1>4. \A m \in S : ~(m < n)
    BY <1>1, <1>3, Zenon
<1>5. \A m \in S : n <= m
    BY <1>4
<1>. QED
    BY <1>5 DEF Min

LEMMA AppendSet ==
    ASSUME NEW S, NEW s \in Seq(S), NEW x \in S
    PROVE  /\ Append(s, x) \in Seq(S) /\ Len(Append(s, x)) = Len(s) + 1
           /\ Append(s, x)[Len(s) + 1] = x
           /\ \A i \in 1..Len(s) : Append(s, x)[i] = s[i]
           /\ ToSet(Append(s, x)) = ToSet(s) \cup {x}
<1>1. /\ Append(s, x) \in Seq(S) /\ Len(Append(s, x)) = Len(s) + 1
      /\ Append(s, x)[Len(s) + 1] = x /\ Len(s) \in Nat
      /\ \A i \in 1..Len(s) : Append(s, x)[i] = s[i]
    OBVIOUS
<1>. QED
    BY <1>1 DEF ToSet

LEMMA AppendFirst == \A x : Append(<<>>, x) = <<x>>
OBVIOUS

LEMMA TailSet ==
    ASSUME NEW S, NEW s \in Seq(S), s # <<>>
    PROVE  /\ Tail(s) \in Seq(S) /\ Len(Tail(s)) = Len(s) - 1
           /\ \A i \in 1..(Len(s) - 1) : Tail(s)[i] = s[i + 1]
           /\ Head(s) = s[1] /\ Head(s) \in S /\ Len(s) \in Nat \ {0}
           /\ ToSet(s) = ToSet(Tail(s)) \cup {Head(s)}
<1>1. /\ Tail(s) \in Seq(S) /\ Len(Tail(s)) = Len(s) - 1
      /\ Len(s) \in Nat \ {0} /\ Head(s) = s[1] /\ Head(s) \in S
      /\ \A i \in 1..(Len(s) - 1) : Tail(s)[i] = s[i + 1]
    OBVIOUS
<1>2. \A i \in 1..Len(s) : i = 1 \/ (i - 1 \in 1..(Len(s) - 1) /\ s[i] = Tail(s)[i - 1])
    BY <1>1
<1>3. DOMAIN s = 1..Len(s) /\ DOMAIN Tail(s) = 1..(Len(s) - 1)
    BY <1>1
<1>4. ASSUME NEW x \in ToSet(s) PROVE x \in ToSet(Tail(s)) \cup {Head(s)}
  <2>1. PICK i \in 1..Len(s) : x = s[i]
      BY <1>3 DEF ToSet
  <2>. QED
      BY <1>1, <1>2, <1>3, <2>1 DEF ToSet
<1>5. ToSet(Tail(s)) \cup {Head(s)} \subseteq ToSet(s)
  <2>1. \A i \in 1..(Len(s) - 1) : i + 1 \in 1..Len(s) /\ Tail(s)[i] = s[i + 1]
      BY <1>1
  <2>2. 1 \in 1..Len(s)
      BY <1>1
  <2>. QED
      BY <1>1, <1>3, <2>1, <2>2 DEF ToSet
<1>. QED
    BY <1>1, <1>4, <1>5

Seen(c, t) == t.cli = c \/ (t \in inherited[c] /\ proc[t.cli] = "gone")

(* A reply reaches the client at the end it is sent to, or nobody. *)
Reaches(e, tag) ==
    /\ inbox' \in [Clients -> Seq(Tags)]
    /\ \A d \in Clients :
          \/ inbox'[d] = inbox[d]
          \/ /\ d = holder[e] /\ proc[d] # "gone"
             /\ inbox'[d] = Append(inbox[d], tag)

LEMMA ReplyReaches ==
    ASSUME Shape, NEW e \in Ends, NEW tag \in Tags, reply_or_lose(e, tag)
    PROVE  Reaches(e, tag)
<1>1. inbox \in [Clients -> Seq(Tags)] /\ holder[e] \in Clients \cup {Nobody}
    BY DEF Shape
<1>2. CASE inbox' = inbox
    BY <1>1, <1>2 DEF Reaches
<1>3. CASE /\ holder[e] # Nobody /\ proc[holder[e]] # "gone"
           /\ inbox' = [inbox EXCEPT ![holder[e]] = Append(@, tag)]
  <2>1. Append(inbox[holder[e]], tag) \in Seq(Tags)
      BY <1>1, <1>3
  <2>. QED
      BY <1>1, <1>3, <2>1 DEF Reaches
<1>. QED
    BY <1>2, <1>3 DEF reply_or_lose, reply

(* ... who has sent the request or is its sender's heir. *)
LEMMA ReachesHeir ==
    ASSUME HInv, NEW m \in InServer, m.end \in Ends, m.tag \in Tags,
           Reaches(m.end, m.tag), proc' = proc, got' = got, inherited' = inherited
    PROVE  OnlyHeirsSeeStrangers'
<1>1. ASSUME NEW c \in Clients, NEW t \in seen(c)'
      PROVE  Seen(c, t)'
  <2>1. CASE t \in seen(c)
      BY <2>1, SMTT(30) DEF HInv, OnlyHeirsSeeStrangers, Seen
  <2>2. CASE t \notin seen(c)
    <3>1. inbox'[c] # inbox[c]
        BY <1>1, <2>2 DEF seen
    <3>2. /\ c = holder[m.end] /\ inbox'[c] = Append(inbox[c], m.tag)
          /\ inbox[c] \in Seq(Tags)
        BY <3>1 DEF Reaches, HInv, Shape
    <3>3. t = m.tag
        BY <1>1, <2>2, <3>2, AppendSet DEF seen
    <3>4. LeadsTo(m.tag, m.end) /\ m.end # Nowhere /\ c # Nobody
        BY DEF HInv, Bound, Nowhere, Ends, Nobody
    <3>. QED
        BY <3>2, <3>3, <3>4 DEF LeadsTo, Seen
  <2>. QED
      BY <2>1, <2>2
<1>. QED
    BY <1>1 DEF OnlyHeirsSeeStrangers, Seen

LEMMA InServerType ==
    ASSUME Shape, NEW m \in InServer
    PROVE  /\ m.tag \in Tags /\ m.tag.cli \in Clients
           /\ m.end \in Ends \cup {Nowhere}
           /\ m \in ToSet(queue) => m.end \in Ends
<1>1. CASE m \in ToSet(queue)
  <2>1. PICK i \in 1..Len(queue) : m = queue[i]
      BY <1>1 DEF ToSet, Shape
  <2>2. queue \in Seq(QEntry)
      BY DEF Shape
  <2>3. m \in QEntry
      BY <2>1, <2>2
  <2>. QED
      BY <2>3, QEntryMeans
<1>2. CASE m \in transit /\ m \notin ToSet(queue)
    BY <1>2, MailMeans DEF Shape
<1>. QED
    BY <1>1, <1>2 DEF InServer

(* What a step that keeps the ends shows of the requests in the server. *)
LEMMA BoundFrame ==
    ASSUME Bound, end' = end, holder' = holder, inherited' = inherited,
           \A c \in Clients : /\ proc[c] = "gone" => proc'[c] = "gone"
                              /\ proc[c] # "new" => proc'[c] # "new",
           \A m \in InServer' : /\ m.tag.cli \in Clients
                               /\ \/ LeadsTo(m.tag, m.end)
                                  \/ \E x \in InServer : m.tag = x.tag /\ m.end = x.end
    PROVE  Bound'
BY DEF Bound, LeadsTo

LEMMA NoHeirFrame ==
    ASSUME HInv, inherited' = inherited,
           \A c \in Clients : proc[c] = "gone" => proc'[c] = "gone",
           \A c \in Clients : seen(c)' \subseteq seen(c)
    PROVE  OnlyHeirsSeeStrangers'
<1>1. \A c \in Clients : \A t \in seen(c) : t \in Tags
    BY DEF HInv, Shape, seen, ToSet
<1>. QED
    BY <1>1 DEF HInv, OnlyHeirsSeeStrangers, Tags

LEMMA ConnectTcp ==
    ASSUME HInv, NEW c \in Clients, nmdb_add_tcp_server(c)
    PROVE  HInv'
<1> USE DEF nmdb_add_tcp_server, history, server
<1>1. Shape'
    BY DEF HInv, Shape
<1>2. Held'
    BY DEF HInv, Shape, Held
<1>3. Bound'
    BY DEF HInv, Shape, Bound, LeadsTo, InServer
<1>4. OnlyHeirsSeeStrangers'
    BY NoHeirFrame DEF HInv, Shape, seen
<1>. QED
    BY <1>1, <1>2, <1>3, <1>4 DEF HInv

LEMMA SendKeeps ==
    ASSUME HInv, NEW c \in Clients, NEW again \in BOOLEAN, srv_send(c, again)
    PROVE  HInv'
<1> DEFINE t == [cli |-> c, n |-> calls[c] + 1]
           m == [tag |-> t, end |-> end[c], again |-> again]
<1> USE DEF srv_send
<1>1. /\ m \in Mail /\ calls[c] + 1 \in 0..MaxCalls /\ t \in Tags
      /\ transit' = transit \cup {m}
  <2>1. calls[c] + 1 \in 1..MaxCalls /\ end[c] \in Ends \cup {Nowhere}
      BY EndsAssumption DEF HInv, Shape
  <2>2. t \in Tags
      BY <2>1 DEF Tags
  <2>. QED
      BY <2>1, <2>2 DEF Mail
<1>2. Shape'
    BY <1>1 DEF HInv, Shape
<1>3. Held'
    BY DEF HInv, Shape, Held
<1>4. LeadsTo(m.tag, m.end)
    BY DEF HInv, Shape, Held, LeadsTo
<1>5. Bound'
  <2>1. \A x \in InServer' : x = m \/ x \in InServer
      BY <1>1 DEF InServer
  <2>2. m.tag.cli = c
      OBVIOUS
  <2>3. \A x \in InServer' : /\ x.tag.cli \in Clients
                             /\ LeadsTo(x.tag, x.end) \/ x \in InServer
    <3> HIDE DEF m
    <3>. QED
        BY <1>4, <2>1, <2>2, InServerType DEF HInv
  <2>4. \A d \in Clients : /\ proc[d] = "gone" => proc'[d] = "gone"
                           /\ proc[d] # "new" => proc'[d] # "new"
      BY DEF HInv, Shape
  <2>. QED
      BY <2>3, <2>4, BoundFrame DEF HInv
<1>6. OnlyHeirsSeeStrangers'
    BY NoHeirFrame DEF HInv, Shape, seen
<1>. QED
    BY <1>2, <1>3, <1>5, <1>6 DEF HInv

LEMMA GetRepKeeps ==
    ASSUME HInv, NEW c \in Clients, get_rep(c)
    PROVE  HInv'
<1> USE DEF get_rep
<1>1. /\ inbox[c] \in Seq(Tags) /\ got[c] \in Seq(Tags) /\ inbox[c] # <<>>
      /\ inbox' = [inbox EXCEPT ![c] = Tail(inbox[c])]
      /\ got' = [got EXCEPT ![c] = Append(got[c], Head(inbox[c]))]
    BY DEF HInv, Shape
<1>2. /\ Tail(inbox[c]) \in Seq(Tags) /\ Head(inbox[c]) \in Tags
      /\ ToSet(inbox[c]) = ToSet(Tail(inbox[c])) \cup {Head(inbox[c])}
    BY <1>1, TailSet
<1>3. /\ Append(got[c], Head(inbox[c])) \in Seq(Tags)
      /\ ToSet(Append(got[c], Head(inbox[c]))) = ToSet(got[c]) \cup {Head(inbox[c])}
    BY <1>1, <1>2, AppendSet
<1>4. Shape'
    BY <1>1, <1>2, <1>3 DEF HInv, Shape
<1>5. Held'
  <2>1. end[c] # Nowhere
      BY <1>1 DEF HInv, Held
  <2>. QED
      BY <1>1, <2>1 DEF HInv, Shape, Held
<1>6. Bound'
  <2>1. InServer' = InServer
      BY DEF InServer
  <2>. QED
      BY <2>1, InServerType, BoundFrame DEF HInv, Shape
<1>7. OnlyHeirsSeeStrangers'
  <2>1. seen(c)' = seen(c)
      BY <1>1, <1>2, <1>3 DEF HInv, Shape, seen
  <2>2. \A d \in Clients : d # c => seen(d)' = seen(d)
      BY <1>1 DEF HInv, Shape, seen
  <2>. QED
      BY <2>1, <2>2, NoHeirFrame DEF HInv, Shape
<1>. QED
    BY <1>4, <1>5, <1>6, <1>7 DEF HInv

LEMMA LeaveKeeps ==
    ASSUME HInv, NEW c \in Clients, leave(c)
    PROVE  HInv'
<1> USE DEF leave, history, server
<1>1. /\ holder \in [Ends -> Clients \cup {Nobody}]
      /\ \A e \in Ends : holder'[e] = holder[e] \/ (holder'[e] = Nobody /\ holder[e] = c)
      /\ holder' \in [Ends -> Clients \cup {Nobody}]
    BY DEF HInv, Shape
<1>2. Shape'
    BY <1>1 DEF HInv, Shape
<1>3. Held'
    BY <1>1 DEF HInv, Shape, Held, Nobody
<1>4. Bound'
  <2>1. InServer' = InServer
      BY DEF InServer
  <2>2. ASSUME NEW m \in InServer PROVE LeadsTo(m.tag, m.end)'
    <3>1. m.tag.cli \in Clients /\ m.end \in Ends \cup {Nowhere} /\ LeadsTo(m.tag, m.end)
        BY InServerType DEF HInv, Bound
    <3>2. \A d \in Clients : /\ proc[d] = "gone" \/ d = c => proc'[d] = "gone"
                             /\ proc[d] # "new" => proc'[d] # "new"
        BY DEF HInv, Shape
    <3>3. CASE m.end = Nowhere
        BY <3>1, <3>2, <3>3 DEF LeadsTo
    <3>4. CASE m.end # Nowhere /\ holder'[m.end] = holder[m.end]
      <4>1. /\ holder[m.end] = m.tag.cli \/ proc[m.tag.cli] = "gone"
            /\ UNCHANGED <<end, inherited>>
          BY <3>1, <3>4 DEF LeadsTo
      <4>. QED
          BY <3>1, <3>2, <3>4, <4>1 DEF LeadsTo
    <3>5. CASE m.end # Nowhere /\ holder'[m.end] = Nobody /\ holder[m.end] = c
      <4>1. proc[m.tag.cli] = "gone" \/ m.tag.cli = c
          BY <3>1, <3>5 DEF LeadsTo
      <4>2. end' = end
          OBVIOUS
      <4>3. proc'[m.tag.cli] = "gone"
        <5> HIDE DEF leave
        <5>. QED
            BY <3>1, <3>2, <4>1
      <4> HIDE DEF leave
      <4>. QED
          BY <3>1, <3>5, <4>2, <4>3 DEF LeadsTo
    <3>. QED
        BY <1>1, <3>1, <3>3, <3>4, <3>5
  <2>. QED
      BY <2>1, <2>2 DEF Bound
<1>5. OnlyHeirsSeeStrangers'
  <2>1. \A d \in Clients : seen(d)' \subseteq seen(d)
      BY DEF HInv, Shape, seen, ToSet
  <2>. QED
      BY <2>1, NoHeirFrame DEF HInv, Shape
<1>. QED
    BY <1>2, <1>3, <1>4, <1>5 DEF HInv

(* c takes over the end e, which leads to nobody, and its own requests,   *)
(* if it has sent any, are found there.                                    *)
LEMMA OccupyKeeps ==
    ASSUME HInv, Shape', NEW c \in Clients, NEW e \in Ends,
           holder[e] = Nobody, end[c] = Nowhere, proc[c] \in {"new", "gone"} \/ c \in backlog,
           occupy(c, e), UNCHANGED <<queue, inbox, got>>,
           proc'[c] # "new" /\ c \notin backlog',
           \A d \in Clients \ {c} : /\ proc'[d] = proc[d]
                                    /\ d \in backlog' <=> d \in backlog,
           proc[c] = "gone" => proc'[c] = "gone",
           \A m \in transit' : \E x \in transit :
               /\ m.tag = x.tag
               /\ m.end = IF x.tag.cli = c THEN e ELSE x.end
    PROVE  Held' /\ Bound' /\ OnlyHeirsSeeStrangers'
<1>1. /\ holder' = [holder EXCEPT ![e] = c] /\ end' = [end EXCEPT ![c] = e]
      /\ inherited' = [inherited EXCEPT ![c] = bound_for(e)]
      /\ e # Nowhere /\ c # Nobody
    BY DEF occupy, Ends, Nowhere, Nobody
<1>2. \A d \in Clients : /\ proc[d] = "gone" => proc'[d] = "gone"
                         /\ proc[d] # "new" => proc'[d] # "new"
    OBVIOUS
<1>3. /\ holder \in [Ends -> Clients \cup {Nobody}] /\ end \in [Clients -> Ends \cup {Nowhere}]
      /\ inherited \in [Clients -> SUBSET Tags]
    BY DEF HInv, Shape
<1>4. Held'
  <2>1. ASSUME NEW f \in Ends, holder'[f] # Nobody
        PROVE  end'[holder'[f]] = f
    <3>1. CASE f = e
        BY <1>1, <1>3, <3>1
    <3>2. CASE f # e
      <4>1. holder'[f] = holder[f] /\ holder[f] \in Clients /\ end[holder[f]] = f
          BY <1>1, <1>3, <2>1, <3>2 DEF HInv, Held
      <4>2. holder[f] # c
          BY <4>1 DEF Ends, Nowhere
      <4>. QED
          BY <1>1, <1>3, <4>1, <4>2
    <3>. QED
        BY <3>1, <3>2
  <2>2. /\ end'[c] = e /\ holder'[e] = c
      BY <1>1, <1>3
  <2>3. ASSUME NEW d \in Clients, d # c
        PROVE  /\ end'[d] = end[d] /\ inherited'[d] = inherited[d]
               /\ end[d] # Nowhere /\ proc[d] # "gone" => holder'[end[d]] = d
    <3>1. end'[d] = end[d] /\ inherited'[d] = inherited[d]
        BY <1>1, <1>3, <2>3
    <3>2. ASSUME end[d] # Nowhere, proc[d] # "gone"
          PROVE  holder'[end[d]] = d
      <4>1. holder[end[d]] = d /\ end[d] \in Ends
          BY <1>3, <3>2 DEF HInv, Held
      <4>2. end[d] # e
          BY <1>1, <4>1 DEF Nobody
      <4>. QED
          BY <1>1, <1>3, <4>1, <4>2
    <3>. QED
        BY <3>1, <3>2
  <2>. QED
      BY <1>1, <2>1, <2>2, <2>3 DEF HInv, Held
<1>5. ASSUME NEW x \in InServer, NEW t, t = x.tag, x.tag.cli # c
      PROVE  LeadsTo(t, x.end)'
  <2>1. t.cli \in Clients /\ x.end \in Ends \cup {Nowhere} /\ LeadsTo(t, x.end)
      BY <1>5, InServerType DEF HInv, Bound
  <2>2. end'[t.cli] = end[t.cli]
      BY <1>1, <1>3, <1>5, <2>1
  <2>3. CASE x.end # e
    <3>1. x.end # Nowhere => holder'[x.end] = holder[x.end]
        BY <1>1, <1>3, <2>1, <2>3
    <3>2. \A d \in Clients : d # c => inherited'[d] = inherited[d]
        BY <1>1, <1>3
    <3>3. x.end # Nowhere => holder[x.end] # c
        BY <1>1, <2>1 DEF HInv, Held
    <3>4. x.end # Nowhere => holder[x.end] \in Clients \cup {Nobody}
        BY <1>3, <2>1
    <3>. QED
        BY <1>2, <2>1, <2>2, <3>1, <3>2, <3>3, <3>4 DEF LeadsTo
  <2>4. CASE x.end = e
    <3>1. holder'[e] = c /\ inherited'[c] = bound_for(e)
        BY <1>1, <1>3
    <3>2. t \in bound_for(e)
        BY <1>5, <2>4 DEF bound_for, InServer
    <3>3. proc'[t.cli] = "gone"
        BY <1>1, <1>2, <2>1, <2>4 DEF LeadsTo, Nobody
    <3>. QED
        BY <2>1, <2>2, <2>4, <3>1, <3>2, <3>3 DEF LeadsTo
  <2>. QED
      BY <2>3, <2>4
<1>6. ASSUME NEW t, t.cli = c PROVE LeadsTo(t, e)'
    BY <1>1, <1>3, <1>6 DEF LeadsTo
<1>7. Bound'
  <2>1. ASSUME NEW m \in transit' PROVE LeadsTo(m.tag, m.end)'
    <3>1. PICK x \in transit : /\ m.tag = x.tag
                               /\ m.end = IF x.tag.cli = c THEN e ELSE x.end
        BY <2>1
    <3>. QED
        BY <1>5, <1>6, <3>1 DEF InServer
  <2>2. ASSUME NEW m \in ToSet(queue) PROVE LeadsTo(m.tag, m.end)'
    <3>1. m \in InServer /\ m.end \in Ends /\ m.tag.cli \in Clients
        BY InServerType DEF InServer, HInv
    <3>2. m.tag.cli # c
        BY <3>1 DEF HInv, Bound, LeadsTo, Ends, Nowhere
    <3>. QED
        BY <1>5, <3>1, <3>2
  <2>. QED
      BY <2>1, <2>2 DEF Bound, InServer
<1>8. OnlyHeirsSeeStrangers'
  <2>1. seen(c)' = {}
      BY DEF HInv, Held, seen, ToSet
  <2>2. ASSUME NEW d \in Clients, d # c, NEW t \in seen(d)'
        PROVE  Seen(d, t)'
    <3>1. t \in seen(d) /\ t \in Tags /\ inherited'[d] = inherited[d]
        BY <1>1, <1>3, <2>2 DEF seen, HInv, Shape, ToSet
    <3>. QED
        BY <1>2, <3>1 DEF HInv, OnlyHeirsSeeStrangers, Seen, Tags
  <2>. QED
      BY <2>1, <2>2 DEF OnlyHeirsSeeStrangers, Seen
<1>. QED
    BY <1>4, <1>7, <1>8

LEMMA BoundForType ==
    ASSUME Shape, NEW e
    PROVE  bound_for(e) \in SUBSET Tags
BY InServerType DEF bound_for, InServer

LEMMA ConnectDgram ==
    ASSUME HInv, NEW c \in Clients, NEW a \in Addrs, nmdb_add_dgram_server(c, a)
    PROVE  HInv'
<1> USE DEF nmdb_add_dgram_server
<1>1. /\ a \in Ends /\ holder[a] = Nobody /\ proc[c] = "new" /\ end[c] = Nowhere
      /\ c \notin backlog /\ occupy(c, a)
    BY DEF HInv, Held, Ends
<1>2. Shape'
    BY <1>1, BoundForType DEF HInv, Shape, occupy
<1>3. /\ proc' = [proc EXCEPT ![c] = "idle"] /\ proc \in [Clients -> {"new", "idle", "waiting", "gone"}]
    BY DEF HInv, Shape
<1>4. \A m \in transit : m.tag.cli # c
    BY <1>1 DEF HInv, Bound, LeadsTo, InServer
<1>. QED
    BY <1>1, <1>2, <1>3, <1>4, OccupyKeeps DEF HInv

LEMMA AcceptKeeps ==
    ASSUME HInv, NEW c \in Clients, tcp_newconnection(c)
    PROVE  HInv'
<1> DEFINE free == {f \in Fds : holder[f] = Nobody}
           e == Min(free)
<1>1. /\ c \in backlog /\ free # {} /\ occupy(c, e)
      /\ transit' = {IF m.tag.cli = c THEN [m EXCEPT !.end = e] ELSE m : m \in transit}
      /\ backlog' = backlog \ {c}
      /\ UNCHANGED <<proc, queue, inbox, calls, got>>
    BY DEF tcp_newconnection
<1>2. e \in free
    BY <1>1, MinIsLeast
<1> HIDE DEF e
<1>3. e \in Ends /\ holder[e] = Nobody /\ end[c] = Nowhere /\ proc[c] # "new"
    BY <1>1, <1>2 DEF HInv, Held, Ends
<1>4. transit' \subseteq Mail
  <2>1. \A m \in transit : m \in Mail /\ [m EXCEPT !.end = e] \in Mail
      BY <1>3, MailMeans DEF HInv, Shape
  <2>. QED
      BY <1>1, <2>1
<1>5. Shape'
    BY <1>1, <1>3, <1>4, BoundForType DEF HInv, Shape, occupy
<1>6. ASSUME NEW m \in transit'
      PROVE  \E x \in transit : /\ m.tag = x.tag
                                /\ m.end = IF x.tag.cli = c THEN e ELSE x.end
  <2>1. PICK x \in transit : m = IF x.tag.cli = c THEN [x EXCEPT !.end = e] ELSE x
      BY <1>1
  <2>2. x \in Mail
      BY DEF HInv, Shape
  <2>. QED
      BY <2>1, <2>2 DEF Mail
<1>. QED
    BY <1>1, <1>3, <1>5, <1>6, OccupyKeeps DEF HInv

LEMMA ReceiveKeeps ==
    ASSUME HInv, NEW m \in transit, recv_request(m)
    PROVE  HInv'
<1> DEFINE q == [tag |-> m.tag, end |-> m.end]
<1>1. /\ m \in transit /\ m \in InServer /\ m \in Mail /\ m.end \in Ends /\ m.tag \in Tags
      /\ m.tag.cli \in Clients /\ q \in QEntry
      /\ UNCHANGED <<proc, backlog, holder, end, calls, got, inherited>>
      /\ queue \in Seq(QEntry)
      /\ inbox \in [Clients -> Seq(Tags)]
  <2>1. m \in Mail /\ m.end # Nowhere
      BY DEF recv_request, answering, HInv, Shape
  <2>2. m.tag \in Tags /\ m.end \in Ends /\ m.tag.cli \in Clients
      BY <2>1, MailMeans
  <2>. QED
      BY <2>1, <2>2, QEntryMeans DEF recv_request, HInv, Shape, InServer, history
<1>2. /\ \A x \in transit' : \/ x \in transit
                             \/ x \in Mail /\ x.tag = m.tag /\ x.end = m.end
      /\ transit' \subseteq Mail
  <2>1. \A x \in transit' : x \in transit \/ x = [m EXCEPT !.again = FALSE]
      BY DEF recv_request
  <2>2. transit \subseteq Mail
      BY DEF HInv, Shape
  <2>. QED
      BY <1>1, <2>1, <2>2, MailMeans
<1>3. \/ Reaches(m.end, m.tag) /\ queue' = queue
      \/ queue' = Append(queue, q) /\ inbox' = inbox
    BY <1>1, ReplyReaches DEF recv_request, make_queue_long_entry, HInv
<1>4. /\ queue' \in Seq(QEntry)
      /\ ToSet(queue') \subseteq ToSet(queue) \cup {q}
  <2>1. CASE queue' = queue
      BY <1>1, <2>1
  <2>2. CASE queue' = Append(queue, q)
    <3> HIDE DEF q
    <3>. QED
        BY <1>1, <2>2, AppendSet
  <2>. QED
      BY <1>3, <2>1, <2>2
<1>5. Shape'
    BY <1>1, <1>2, <1>3, <1>4 DEF HInv, Shape, Reaches
<1>6. Bound'
  <2>1. \A x \in InServer' : /\ x.tag.cli \in Clients
                             /\ \E y \in InServer : x.tag = y.tag /\ x.end = y.end
      BY <1>1, <1>2, <1>4, InServerType DEF HInv, InServer
  <2>. QED
      BY <1>1, <2>1, BoundFrame DEF HInv
<1>7. Held'
  <2>1. ASSUME NEW d \in Clients, end[d] = Nowhere PROVE inbox'[d] = inbox[d]
    <3>1. holder[m.end] # d
        BY <1>1, <2>1, ZenonT(40) DEF HInv, Held
    <3>. QED
        BY <1>3, <3>1 DEF Reaches
  <2>. QED
      BY <1>1, <2>1 DEF HInv, Held
<1>8. OnlyHeirsSeeStrangers'
  <2>1. CASE Reaches(m.end, m.tag)
      BY <1>1, <2>1, ReachesHeir
  <2>2. CASE inbox' = inbox
      BY <1>1, <2>2, NoHeirFrame DEF seen
  <2>. QED
      BY <1>3, <2>1, <2>2
<1>. QED
    BY <1>5, <1>6, <1>7, <1>8 DEF HInv

LEMMA LoseKeeps ==
    ASSUME HInv, NEW m \in transit, lose(m)
    PROVE  HInv'
<1>1. transit' \subseteq transit /\ UNCHANGED <<proc, backlog, holder, end, queue, inbox>>
      /\ UNCHANGED <<calls, got, inherited>>
    BY DEF lose, history
<1>2. Shape' /\ Held'
    BY <1>1 DEF HInv, Shape, Held
<1>3. Bound'
    BY <1>1 DEF HInv, Bound, LeadsTo, InServer
<1>4. OnlyHeirsSeeStrangers'
    BY <1>1, NoHeirFrame DEF seen
<1>. QED
    BY <1>2, <1>3, <1>4 DEF HInv

LEMMA EofKeeps ==
    ASSUME HInv, NEW f \in Fds, tcp_recv_eof(f)
    PROVE  HInv'
<1>1. /\ UNCHANGED <<proc, backlog, end, queue, inbox, calls, got, inherited>>
      /\ transit' \subseteq transit /\ holder' = [holder EXCEPT ![f] = Nobody]
      /\ holder[f] # Nobody /\ proc[holder[f]] = "gone" /\ f \in Ends
    BY DEF tcp_recv_eof, history
<1>2. /\ holder \in [Ends -> Clients \cup {Nobody}]
      /\ holder'[f] = Nobody /\ \A e \in Ends : e # f => holder'[e] = holder[e]
    BY <1>1 DEF HInv, Shape
<1>3. Shape'
    BY <1>1 DEF HInv, Shape
<1>4. Held'
  <2>1. \A c \in Clients : end[c] # Nowhere /\ proc[c] # "gone" => holder'[end[c]] = c
    <3>1. ASSUME NEW c \in Clients, end[c] # Nowhere, proc[c] # "gone"
          PROVE  holder'[end[c]] = c
      <4>1. end[c] \in Ends /\ holder[end[c]] = c
          BY <3>1 DEF HInv, Shape, Held
      <4>. QED
          BY <1>1, <1>2, <3>1, <4>1
    <3>. QED
        BY <3>1
  <2>2. \A e \in Ends : holder'[e] # Nobody => end[holder'[e]] = e
      BY <1>2 DEF HInv, Held
  <2>. QED
      BY <1>1, <2>1, <2>2 DEF HInv, Held
<1>5. Bound'
  <2>1. ASSUME NEW m \in InServer PROVE LeadsTo(m.tag, m.end)'
    <3>1. /\ LeadsTo(m.tag, m.end) /\ m.end \in Ends \cup {Nowhere}
        BY InServerType DEF HInv, Bound
    <3>2. CASE m.end = f
      <4>1. proc[m.tag.cli] = "gone"
          BY <1>1, <3>1, <3>2 DEF LeadsTo
      <4>. QED
          BY <1>1, <1>2, <3>1, <3>2, <4>1 DEF LeadsTo
    <3>3. CASE m.end # f
        BY <1>1, <1>2, <3>1, <3>3 DEF LeadsTo
    <3>. QED
        BY <3>2, <3>3
  <2>. QED
      BY <1>1, <2>1 DEF Bound, InServer
<1>6. OnlyHeirsSeeStrangers'
    BY <1>1, NoHeirFrame DEF seen
<1>. QED
    BY <1>3, <1>4, <1>5, <1>6 DEF HInv

LEMMA ProcessKeeps ==
    ASSUME HInv, process_op
    PROVE  HInv'
<1> DEFINE m == Head(queue)
<1>1. /\ UNCHANGED <<proc, backlog, holder, end, transit, calls, got, inherited>>
      /\ queue # <<>> /\ queue' = Tail(queue) /\ queue \in Seq(QEntry)
      /\ reply_or_lose(m.end, m.tag)
    BY DEF process_op, HInv, Shape, history
<1>2. /\ queue' \in Seq(QEntry) /\ m \in QEntry
      /\ ToSet(queue') \subseteq ToSet(queue) /\ m \in ToSet(queue)
    BY <1>1, TailSet
<1>3. m \in InServer /\ m.end \in Ends /\ m.tag \in Tags
    BY <1>2, QEntryMeans DEF InServer
<1>4. Reaches(m.end, m.tag)
    BY <1>1, <1>3, ReplyReaches DEF HInv
<1>5. Shape'
    BY <1>1, <1>2, <1>4 DEF HInv, Shape, Reaches
<1>6. Bound'
    BY <1>1, <1>2 DEF HInv, Bound, LeadsTo, InServer
<1>7. Held'
  <2>1. ASSUME NEW d \in Clients, end[d] = Nowhere PROVE inbox'[d] = inbox[d]
    <3>1. holder[m.end] # d
        BY <1>3, <2>1 DEF HInv, Held
    <3>. QED
        BY <1>4, <3>1 DEF Reaches
  <2>. QED
      BY <1>1, <2>1 DEF HInv, Held
<1>8. OnlyHeirsSeeStrangers'
    BY <1>1, <1>3, <1>4, ReachesHeir
<1>. QED
    BY <1>5, <1>6, <1>7, <1>8 DEF HInv

LEMMA InitHInv == Init => HInv
<1> SUFFICES ASSUME Init PROVE HInv
    OBVIOUS
<1>1. proc \in [Clients -> {"new", "gone"}]
    BY DEF Init
<1>2. Shape
    BY <1>1, EndsAssumption DEF Init, Shape, Ends
<1>3. Held
    BY <1>1 DEF Init, Held, Ends
<1>4. InServer = {} /\ \A c \in Clients : seen(c) = {}
    BY DEF Init, InServer, seen, ToSet
<1>. QED
    BY <1>2, <1>3, <1>4 DEF HInv, Bound, OnlyHeirsSeeStrangers

(* Whether a thread spins, or the server dies, changes none of it. *)
LEMMA HInvFrame ==
    ASSUME HInv, UNCHANGED <<proc, backlog, holder, end, transit, queue, inbox, calls, got,
                             inherited>>
    PROVE  HInv'
BY DEF HInv, Shape, Held, Bound, LeadsTo, InServer, OnlyHeirsSeeStrangers, seen

LEMMA NextHInv == HInv /\ [Next]_vars => HInv'
<1> SUFFICES ASSUME HInv, [Next]_vars PROVE HInv'
    OBVIOUS
<1>1. CASE UNCHANGED vars
    BY <1>1, HInvFrame DEF vars, history
<1>2. ASSUME NEW th \in Threads, NEW m \in answering(th),
             rep_send_spins(th, m) \/ rep_send_dies(th, m)
      PROVE  HInv'
    BY <1>2, HInvFrame DEF rep_send_spins, rep_send_dies, history
<1>. QED
    BY <1>1, <1>2, ConnectTcp, ConnectDgram, SendKeeps, GetRepKeeps, LeaveKeeps,
       AcceptKeeps, ReceiveKeeps, LoseKeeps, EofKeeps, ProcessKeeps DEF Next

(* A thread spins over a request it has: the event thread over one it has  *)
(* received, the DB thread over the first of the queue.                    *)
Spins ==
    /\ up \in BOOLEAN /\ sending = [th \in Threads |-> sending[th]]
    /\ sending["event"] \subseteq transit
    /\ \A m \in sending["db"] : queue # <<>> /\ m = Head(queue)

LEMMA SpinsKeeps ==
    ASSUME HInv, Spins, [Next]_vars
    PROVE  Spins'
<1> USE DEF Spins, Threads
<1>1. queue \in Seq(QEntry) /\ "event" \in Threads /\ "db" \in Threads
    BY DEF HInv, Shape
<1>2. ASSUME UNCHANGED <<sending, up, queue>>, sending["event"] \subseteq transit'
      PROVE  Spins'
    BY <1>2
<1>3. ASSUME UNCHANGED <<sending, up, queue>>, transit \subseteq transit' PROVE Spins'
    BY <1>2, <1>3
<1>4. ASSUME UNCHANGED <<sending, up, queue>>, sending["event"] = {} PROVE Spins'
    BY <1>2, <1>4
<1>5. CASE UNCHANGED vars
    BY <1>3, <1>5 DEF vars, server
<1>6. ASSUME NEW c \in Clients,
             \/ nmdb_add_tcp_server(c) \/ \E a \in Addrs : nmdb_add_dgram_server(c, a)
             \/ \E again \in BOOLEAN : srv_send(c, again)
             \/ get_rep(c) \/ leave(c)
      PROVE  Spins'
    BY <1>3, <1>6 DEF nmdb_add_tcp_server, nmdb_add_dgram_server, srv_send, get_rep, leave,
                      server
<1>7. ASSUME NEW c \in Clients, tcp_newconnection(c) PROVE Spins'
    BY <1>4, <1>7 DEF tcp_newconnection, dispatching, server
<1>8. ASSUME NEW m \in transit, recv_request(m) PROVE Spins'
  <2>1. /\ up' = up /\ sending' = [sending EXCEPT !["event"] = {}]
        /\ queue' = queue \/ queue' = Append(queue, [tag |-> m.tag, end |-> m.end])
      BY <1>8 DEF recv_request, make_queue_long_entry
  <2>2. \A q : queue # <<>> => Append(queue, q) # <<>> /\ Head(Append(queue, q)) = Head(queue)
      BY <1>1
  <2>3. sending'["event"] = {} /\ sending'["db"] = sending["db"]
      BY <2>1
  <2>. QED
      BY <2>1, <2>2, <2>3
<1>9. ASSUME NEW m \in transit, lose(m) PROVE Spins'
    BY <1>2, <1>9 DEF lose, server
<1>10. ASSUME NEW f \in Fds, tcp_recv_eof(f) PROVE Spins'
    BY <1>4, <1>10 DEF tcp_recv_eof, dispatching, server
<1>11. CASE process_op
    BY <1>11 DEF process_op
<1>12. ASSUME NEW th \in Threads, NEW m \in answering(th), rep_send_spins(th, m)
       PROVE  Spins'
  <2>1. /\ UNCHANGED <<up, transit, queue>> /\ sending' = [sending EXCEPT ![th] = {m}]
        /\ th = "event" => m \in transit
        /\ th = "db" => queue # <<>> /\ m = Head(queue)
      BY <1>1, <1>12 DEF rep_send_spins, answering, ToSet
  <2>2. CASE th = "event"
      BY <2>1, <2>2
  <2>3. CASE th = "db"
      BY <2>1, <2>3
  <2>. QED
      BY <2>2, <2>3
<1>13. ASSUME NEW th \in Threads, NEW m \in answering(th), rep_send_dies(th, m)
       PROVE  Spins'
    BY <1>13 DEF rep_send_dies
<1>. QED
    BY <1>5, <1>6, <1>7, <1>8, <1>9, <1>10, <1>11, <1>12, <1>13 DEF Next

(* Every variable holds what it should, an open end leads to a client that *)
(* believes in it, and a thread that spins does so over a request it has.  *)
THEOREM TypeCorrect == Spec => []TypeOK
<1>1. HInv /\ Spins => TypeOK
    BY DEF HInv, Shape, Held, Spins, TypeOK, Ends
<1>2. Init => Spins
    BY DEF Init, Spins, Threads
<1>. QED
    BY <1>1, <1>2, InitHInv, NextHInv, SpinsKeeps, PTL DEF Spec

(* A client sees replies to its own requests and to those of no process    *)
(* that lives: strangers' replies come only through an end it took over    *)
(* while requests of its dead former holder were still in the server.      *)
THEOREM NoStrangersReplies == Spec => []OnlyHeirsSeeStrangers
<1>1. HInv => OnlyHeirsSeeStrangers
    BY DEF HInv
<1>. QED
    BY <1>1, InitHInv, NextHInv, PTL DEF Spec

-----------------------------------------------------------------------------
(* Calls and replies stay in step. *)

(* Of d's requests, the step at most drops some from transit. *)
LEMMA InStepFrame ==
    ASSUME NEW d \in Clients, InStep(d),
           queue' = queue, inbox'[d] = inbox[d], calls'[d] = calls[d], got'[d] = got[d],
           \/ proc'[d] = proc[d] \/ proc'[d] = "gone"
           \/ proc[d] = "new" /\ proc'[d] = "idle",
           \A m \in transit' : m.tag.cli = d =>
               \E x \in transit : x.tag = m.tag /\ x.again = m.again
    PROVE  InStep(d)'
<1>1. now(d)' = now(d) /\ (in_queue(d)' <=> in_queue(d)) /\ (in_transit(d)' => in_transit(d))
    BY DEF now, in_queue, in_transit
<1>2. OnePlace(d)'
    BY <1>1 DEF InStep, OnePlace
<1>. QED
    BY <1>2 DEF InStep

LEMMA SendInStep ==
    ASSUME HInv, NEW c \in Clients, NEW again \in BOOLEAN, srv_send(c, again),
           NEW d \in Clients \ Lossy, InStep(d)
    PROVE  InStep(d)'
<1> DEFINE m == [tag |-> [cli |-> c, n |-> calls[c] + 1], end |-> end[c], again |-> again]
<1>1. /\ proc[c] = "idle" /\ proc' = [proc EXCEPT ![c] = "waiting"]
      /\ calls' = [calls EXCEPT ![c] = calls[c] + 1] /\ transit' = transit \cup {m}
      /\ queue' = queue /\ inbox' = inbox /\ got' = got
      /\ again => c \in Lossy
      /\ proc \in [Clients -> {"new", "idle", "waiting", "gone"}]
      /\ calls \in [Clients -> 0..MaxCalls] /\ got \in [Clients -> Seq(Tags)]
    BY DEF srv_send, HInv, Shape
<1>2. m.tag.cli = c /\ m.tag = [cli |-> c, n |-> calls[c] + 1] /\ m.again = again
    OBVIOUS
<1> HIDE DEF m
<1>3. CASE d # c
    BY <1>1, <1>2, <1>3, InStepFrame
<1>4. CASE d = c
  <2>1. ~again /\ now(c)' = m.tag
      BY <1>1, <1>2, <1>4 DEF now
  <2>2. ~in_transit(c) /\ ~in_queue(c) /\ inbox[c] = <<>> /\ Len(got[c]) = calls[c]
      BY <1>1, <1>4 DEF InStep, OnePlace
  <2>3. \A x \in transit' : x.tag.cli = c => x = m
      BY <1>1, <2>2 DEF in_transit
  <2>4. ~in_queue(c)' /\ inbox'[c] = <<>> /\ proc'[c] = "waiting"
      BY <1>1, <2>2 DEF in_queue
  <2>5. OnePlace(c)'
      BY <1>1, <1>2, <2>1, <2>3, <2>4 DEF OnePlace, in_queue
  <2>6. Len(got'[c]) + 1 = calls'[c]
      BY <1>1, <2>2, EndsAssumption
  <2>. QED
      BY <1>1, <1>4, <2>4, <2>5, <2>6 DEF InStep
<1>. QED
    BY <1>3, <1>4

LEMMA GetRepInStep ==
    ASSUME HInv, NEW c \in Clients, get_rep(c), NEW d \in Clients \ Lossy, InStep(d)
    PROVE  InStep(d)'
<1>1. /\ proc[c] = "waiting" /\ proc' = [proc EXCEPT ![c] = "idle"] /\ inbox[c] # <<>>
      /\ got' = [got EXCEPT ![c] = Append(got[c], Head(inbox[c]))]
      /\ inbox' = [inbox EXCEPT ![c] = Tail(inbox[c])]
      /\ queue' = queue /\ transit' = transit /\ calls' = calls
      /\ proc \in [Clients -> {"new", "idle", "waiting", "gone"}]
      /\ got \in [Clients -> Seq(Tags)] /\ inbox \in [Clients -> Seq(Tags)]
      /\ calls \in [Clients -> 0..MaxCalls]
    BY DEF get_rep, HInv, Shape
<1>2. CASE d # c
    BY <1>1, <1>2, InStepFrame
<1>3. CASE d = c
  <2>1. /\ inbox[c] = <<now(c)>> /\ ~in_transit(c) /\ ~in_queue(c)
        /\ Len(got[c]) + 1 = calls[c]
      BY <1>1, <1>3 DEF InStep, OnePlace
  <2>2. Tail(inbox[c]) = <<>> /\ Head(inbox[c]) = now(c) /\ now(c) \in Tags
    <3>1. inbox[c] \in Seq(Tags) /\ Head(inbox[c]) \in Tags
        BY <1>1
    <3>. QED
        BY <2>1, <3>1
  <2>3. inbox'[c] = <<>> /\ got'[c] = Append(got[c], now(c)) /\ proc'[c] = "idle"
      BY <1>1, <2>2
  <2>4. /\ Len(got'[c]) = Len(got[c]) + 1 /\ got'[c][Len(got[c]) + 1] = now(c)
        /\ \A i \in 1..Len(got[c]) : got'[c][i] = got[c][i]
        /\ Len(got[c]) \in Nat
      BY <1>1, <2>2, <2>3, AppendSet
  <2>5. \A i \in 1..Len(got'[c]) : got'[c][i] = [cli |-> c, n |-> i]
      BY <1>3, <2>1, <2>4 DEF InStep, now
  <2>6. OnePlace(c)'
      BY <1>1, <2>1, <2>3 DEF OnePlace, in_transit, in_queue
  <2>. QED
      BY <1>1, <1>3, <2>1, <2>3, <2>4, <2>5, <2>6 DEF InStep
<1>. QED
    BY <1>2, <1>3

LEMMA LeaveInStep ==
    ASSUME HInv, NEW c \in Clients, leave(c), NEW d \in Clients \ Lossy, InStep(d)
    PROVE  InStep(d)'
<1>1. /\ proc' = [proc EXCEPT ![c] = "gone"] /\ inbox' = [inbox EXCEPT ![c] = <<>>]
      /\ UNCHANGED <<transit, queue, calls, got>>
      /\ proc \in [Clients -> {"new", "idle", "waiting", "gone"}]
      /\ inbox \in [Clients -> Seq(Tags)]
    BY DEF leave, history, HInv, Shape
<1>2. CASE d # c
    BY <1>1, <1>2, InStepFrame
<1>3. CASE d = c
    BY <1>1, <1>3 DEF InStep, OnePlace, now, in_transit, in_queue
<1>. QED
    BY <1>2, <1>3

(* A request that has reached its end is nowhere else, and nobody without *)
(* an inheritance gets the reply but its sender.                          *)
LEMMA ReachesInStep ==
    ASSUME HInv, NEW m \in InServer, m.end \in Ends, m.tag \in Tags,
           Reaches(m.end, m.tag), NEW d \in Clients, inherited[d] = {}
    PROVE  /\ m.tag.cli # d => inbox'[d] = inbox[d]
           /\ inbox'[d] = inbox[d] \/ inbox'[d] = Append(inbox[d], m.tag)
<1>1. LeadsTo(m.tag, m.end) /\ m.end # Nowhere
    BY DEF HInv, Bound
<1>. QED
    BY <1>1 DEF Reaches, LeadsTo

LEMMA ReceiveInStep ==
    ASSUME HInv, NEW m \in transit, recv_request(m),
           NEW d \in Clients \ Lossy, inherited[d] = {}, InStep(d)
    PROVE  InStep(d)'
<1> DEFINE q == [tag |-> m.tag, end |-> m.end]
<1>1. /\ m \in InServer /\ m \in Mail /\ m.end \in Ends /\ m.tag \in Tags
      /\ UNCHANGED <<proc, calls, got>> /\ q \in QEntry
      /\ queue \in Seq(QEntry) /\ inbox \in [Clients -> Seq(Tags)]
      /\ \A x \in transit' : \/ x \in transit /\ x # m
                             \/ m.again /\ x = [m EXCEPT !.again = FALSE]
  <2>1. m \in Mail /\ m.end # Nowhere
      BY DEF recv_request, answering, HInv, Shape
  <2>2. m.tag \in Tags /\ m.end \in Ends
      BY <2>1, MailMeans
  <2>3. \A x \in transit' : \/ x \in transit /\ x # m
                            \/ m.again /\ x = [m EXCEPT !.again = FALSE]
      BY DEF recv_request
  <2>. QED
      BY <2>1, <2>2, <2>3, QEntryMeans DEF recv_request, HInv, Shape, InServer, history
<1>2. q.tag = m.tag
    OBVIOUS
<1>3. \/ Reaches(m.end, m.tag) /\ queue' = queue
      \/ queue' = Append(queue, q) /\ inbox' = inbox
    BY <1>1, ReplyReaches DEF recv_request, make_queue_long_entry, HInv
<1> HIDE DEF q
<1>4. CASE m.tag.cli # d
  <2>1. \A x \in transit' : x.tag.cli = d => x \in transit
      BY <1>1, <1>4, MailMeans
  <2>2. inbox'[d] = inbox[d]
      BY <1>1, <1>3, <1>4, ReachesInStep
  <2>3. CASE queue' = queue
      BY <1>1, <2>1, <2>2, <2>3, InStepFrame
  <2>4. CASE queue' = Append(queue, q)
    <3>1. /\ Len(queue') = Len(queue) + 1 /\ queue'[Len(queue) + 1] = q
          /\ \A i \in 1..Len(queue) : queue'[i] = queue[i]
          /\ Len(queue) \in Nat
        BY <1>1, <2>4, AppendSet
    <3>2. \A i \in 1..Len(queue') : queue'[i].tag.cli = d =>
             i \in 1..Len(queue) /\ queue'[i] = queue[i]
        BY <1>2, <1>4, <3>1
    <3>3. /\ now(d)' = now(d) /\ (in_queue(d)' => in_queue(d))
          /\ in_transit(d)' => in_transit(d)
        BY <1>1, <2>1, <3>2 DEF now, in_queue, in_transit
    <3>4. OnePlace(d)'
        BY <1>1, <2>1, <2>2, <3>2, <3>3 DEF InStep, OnePlace
    <3>. QED
        BY <1>1, <3>4 DEF InStep
  <2>. QED
      BY <1>3, <2>3, <2>4
<1>5. CASE m.tag.cli = d
  <2>1. /\ m.tag = now(d) /\ ~m.again /\ in_transit(d) /\ ~in_queue(d) /\ inbox[d] = <<>>
        /\ proc[d] \notin {"new", "idle"}
      BY <1>5 DEF InStep, OnePlace, in_transit
  <2>2. ~in_transit(d)'
    <3>1. ASSUME NEW x \in transit', x.tag.cli = d PROVE FALSE
      <4>1. x \in transit /\ x # m /\ x \in Mail /\ x \in InServer
          BY <1>1, <2>1 DEF HInv, Shape, InServer
      <4>2. x.tag = m.tag /\ x.again = m.again
        <5>1. x.tag = now(d) /\ ~x.again
            BY <3>1, <4>1 DEF InStep, OnePlace
        <5>. QED
            BY <1>1, <2>1, <4>1, <5>1, MailMeans, Zenon
      <4>3. x.end = m.end
          BY <1>1, <1>5, <3>1, <4>1 DEF HInv, Bound, LeadsTo
      <4>. QED
          BY <1>1, <4>1, <4>2, <4>3 DEF Mail
    <3>. QED
        BY <3>1 DEF in_transit
  <2>3. now(d)' = now(d)
      BY <1>1 DEF now
  <2>4. CASE Reaches(m.end, m.tag) /\ queue' = queue
    <3>1. inbox'[d] = <<>> \/ inbox'[d] = <<now(d)>>
      <4>1. inbox'[d] = inbox[d] \/ inbox'[d] = Append(inbox[d], m.tag)
          BY <1>1, <2>4, ReachesInStep
      <4>. QED
          BY <2>1, <4>1, AppendFirst
    <3>2. ~in_queue(d)'
        BY <2>1, <2>4 DEF in_queue
    <3>3. OnePlace(d)'
        BY <1>1, <2>1, <2>2, <2>3, <3>1, <3>2 DEF OnePlace, in_transit, in_queue
    <3>. QED
        BY <1>1, <3>3 DEF InStep
  <2>5. CASE queue' = Append(queue, q) /\ inbox' = inbox
    <3>1. /\ Len(queue') = Len(queue) + 1 /\ queue'[Len(queue) + 1] = q
          /\ \A i \in 1..Len(queue) : queue'[i] = queue[i]
          /\ Len(queue) \in Nat
        BY <1>1, <2>5, AppendSet
    <3>2. \A i \in 1..Len(queue') : queue'[i].tag.cli = d =>
             i = Len(queue) + 1 /\ queue'[i].tag = now(d)
        BY <1>2, <2>1, <3>1 DEF in_queue
    <3>3. OnePlace(d)'
        BY <1>1, <2>1, <2>2, <2>3, <2>5, <3>2 DEF OnePlace, in_transit
    <3>. QED
        BY <1>1, <3>3 DEF InStep
  <2>. QED
      BY <1>3, <2>4, <2>5
<1>. QED
    BY <1>4, <1>5

LEMMA ProcessInStep ==
    ASSUME HInv, process_op,
           NEW d \in Clients \ Lossy, inherited[d] = {}, InStep(d)
    PROVE  InStep(d)'
<1> DEFINE m == Head(queue)
<1>1. /\ UNCHANGED <<proc, transit, calls, got>>
      /\ queue # <<>> /\ queue' = Tail(queue) /\ queue \in Seq(QEntry)
      /\ reply_or_lose(m.end, m.tag) /\ inbox \in [Clients -> Seq(Tags)]
    BY DEF process_op, HInv, Shape, history
<1>2. /\ Len(queue') = Len(queue) - 1 /\ Len(queue) \in Nat \ {0}
      /\ \A i \in 1..(Len(queue) - 1) : queue'[i] = queue[i + 1]
      /\ m = queue[1] /\ m \in QEntry /\ m \in ToSet(queue)
    BY <1>1, TailSet
<1>3. /\ m \in InServer /\ m.end \in Ends /\ m.tag \in Tags
      /\ Reaches(m.end, m.tag)
    BY <1>1, <1>2, QEntryMeans, ReplyReaches DEF InServer, HInv
<1>4. now(d)' = now(d) /\ (in_transit(d)' <=> in_transit(d))
    BY <1>1 DEF now, in_transit
<1>5. \A i \in 1..Len(queue') : i + 1 \in 1..Len(queue) /\ queue'[i] = queue[i + 1]
    BY <1>2
<1> HIDE DEF m
<1>6. CASE m.tag.cli # d
  <2>1. inbox'[d] = inbox[d]
      BY <1>3, <1>6, ReachesInStep
  <2>2. in_queue(d)' => in_queue(d)
      BY <1>5 DEF in_queue
  <2>3. \A i \in 1..Len(queue') : queue'[i].tag.cli = d =>
           /\ queue'[i].tag = now(d)
           /\ \A j \in 1..Len(queue') : queue'[j].tag.cli = d => j = i
    <3>1. ASSUME NEW i \in 1..Len(queue'), queue'[i].tag.cli = d
          PROVE  /\ queue'[i].tag = now(d)
                 /\ \A j \in 1..Len(queue') : queue'[j].tag.cli = d => j + 1 = i + 1
        BY <1>5, <3>1, SMTT(30) DEF InStep, OnePlace
    <3>2. \A i, j \in 1..Len(queue') : j + 1 = i + 1 => j = i
        BY <1>2
    <3>. QED
        BY <3>1, <3>2
  <2>4. OnePlace(d)'
      BY <1>1, <1>4, <2>1, <2>2, <2>3 DEF InStep, OnePlace
  <2>. QED
      BY <1>1, <2>4 DEF InStep
<1>7. CASE m.tag.cli = d
  <2>1. 1 \in 1..Len(queue) /\ queue[1].tag.cli = d
      BY <1>2, <1>7
  <2>2. /\ m.tag = now(d) /\ in_queue(d) /\ ~in_transit(d) /\ inbox[d] = <<>>
        /\ proc[d] \notin {"new", "idle"}
        /\ \A j \in 1..Len(queue) : queue[j].tag.cli = d => j = 1
      BY <1>2, <2>1 DEF InStep, OnePlace, in_queue
  <2>3. ~in_queue(d)'
    <3>1. ASSUME NEW i \in 1..Len(queue'), queue'[i].tag.cli = d PROVE FALSE
      <4>1. i + 1 = 1 /\ i \in Nat \ {0}
          BY <1>2, <1>5, <2>2, <3>1
      <4>. QED
          BY <4>1
    <3>. QED
        BY <3>1 DEF in_queue
  <2>4. inbox'[d] = <<>> \/ inbox'[d] = <<now(d)>>
    <3>1. inbox'[d] = inbox[d] \/ inbox'[d] = Append(inbox[d], m.tag)
        BY <1>3, ReachesInStep
    <3>. QED
        BY <2>2, <3>1, AppendFirst
  <2>5. OnePlace(d)'
      BY <1>1, <1>4, <2>2, <2>3, <2>4 DEF OnePlace, in_transit, in_queue
  <2>. QED
      BY <1>1, <2>5 DEF InStep
<1>. QED
    BY <1>6, <1>7

(* An inheritance comes with the end, and is never lost. *)
LEMMA InheritOnce ==
    ASSUME HInv, [Next]_vars, NEW d \in Clients, inherited'[d] = {}
    PROVE  inherited[d] = {}
<1>1. CASE inherited' = inherited
    BY <1>1
<1>2. ASSUME NEW c \in Clients, NEW e, occupy(c, e), end[c] = Nowhere
      PROVE  inherited[d] = {}
    BY <1>2 DEF occupy, HInv, Held, Shape
<1>3. ASSUME NEW c \in Clients, NEW a \in Addrs, nmdb_add_dgram_server(c, a)
      PROVE  inherited[d] = {}
    BY <1>2, <1>3 DEF nmdb_add_dgram_server, HInv, Held
<1>4. ASSUME NEW c \in Clients, tcp_newconnection(c)
      PROVE  inherited[d] = {}
    BY <1>2, <1>4 DEF tcp_newconnection, HInv, Held
<1>. QED
    BY <1>1, <1>3, <1>4 DEF Next, nmdb_add_tcp_server, srv_send, get_rep, leave,
       recv_request, lose, tcp_recv_eof, process_op, rep_send_spins, rep_send_dies,
       history, vars

LEMMA NextSInv == SInv /\ [Next]_vars => SInv'
<1> SUFFICES ASSUME SInv, [Next]_vars PROVE SInv'
    OBVIOUS
<1>1. HInv /\ HInv' /\ proc \in [Clients -> {"new", "idle", "waiting", "gone"}]
    BY NextHInv DEF SInv, HInv, Shape
<1>2. ASSUME NEW d \in Clients \ Lossy, inherited'[d] = {}
      PROVE  InStep(d)'
  <2>1. inherited[d] = {} /\ InStep(d) /\ d \in Clients
      BY <1>1, <1>2, InheritOnce DEF SInv
  <2>2. CASE UNCHANGED vars
      BY <2>1, <2>2, InStepFrame DEF vars, history
  <2>3. ASSUME NEW c \in Clients, nmdb_add_tcp_server(c) PROVE InStep(d)'
      BY <1>1, <2>1, <2>3, InStepFrame DEF nmdb_add_tcp_server, history
  <2>4. ASSUME NEW c \in Clients, NEW a \in Addrs, nmdb_add_dgram_server(c, a)
        PROVE  InStep(d)'
      BY <1>1, <2>1, <2>4, InStepFrame DEF nmdb_add_dgram_server
  <2>5. ASSUME NEW c \in Clients, tcp_newconnection(c) PROVE InStep(d)'
    <3>1. PICK e : transit' = {IF m.tag.cli = c THEN [m EXCEPT !.end = e] ELSE m :
                                   m \in transit}
        BY <2>5 DEF tcp_newconnection
    <3>2. \A m \in transit : m \in Mail
        BY <1>1 DEF HInv, Shape
    <3>3. \A m \in transit' : \E x \in transit : x.tag = m.tag /\ x.again = m.again
        BY <3>1, <3>2 DEF Mail
    <3>. QED
        BY <2>1, <2>5, <3>3, InStepFrame DEF tcp_newconnection
  <2>6. ASSUME NEW m \in transit, lose(m) PROVE InStep(d)'
      BY <2>1, <2>6, InStepFrame DEF lose, history
  <2>7. ASSUME NEW f \in Fds, tcp_recv_eof(f) PROVE InStep(d)'
      BY <2>1, <2>7, InStepFrame DEF tcp_recv_eof, history
  <2>8. ASSUME NEW th \in Threads, NEW m \in answering(th),
               rep_send_spins(th, m) \/ rep_send_dies(th, m)
        PROVE  InStep(d)'
      BY <2>1, <2>8, InStepFrame DEF rep_send_spins, rep_send_dies, history
  <2>. QED
      BY <1>1, <2>1, <2>2, <2>3, <2>4, <2>5, <2>6, <2>7, <2>8, SendInStep, GetRepInStep,
         LeaveInStep, ReceiveInStep, ProcessInStep DEF Next
<1>. QED
    BY <1>1, <1>2 DEF SInv

(* The n-th call of a client that has inherited nothing returns the reply  *)
(* to its n-th request, on every protocol that delivers once, whatever the *)
(* other clients do and whenever they leave.                               *)
THEOREM RepliesInStep == Spec => []CallsStayInStep
<1>1. Init => SInv
  <2> SUFFICES ASSUME Init PROVE SInv
      OBVIOUS
  <2>1. HInv
      BY InitHInv
  <2>2. ASSUME NEW d \in Clients PROVE InStep(d)
    <3>1. /\ transit = {} /\ queue = <<>> /\ inbox[d] = <<>> /\ got[d] = <<>>
          /\ calls[d] = 0 /\ proc[d] \in {"new", "gone"}
        BY DEF Init
    <3>2. Len(queue) = 0 /\ Len(got[d]) = 0
        BY <3>1
    <3>. QED
        BY <3>1, <3>2 DEF InStep, OnePlace, in_transit, in_queue
  <2>. QED
      BY <2>1, <2>2 DEF SInv
<1>2. SInv => CallsStayInStep
  <2> SUFFICES ASSUME SInv, NEW c \in Clients \ Lossy, inherited[c] = {}
               PROVE  \A i \in DOMAIN got[c] : got[c][i] = [cli |-> c, n |-> i]
      BY DEF CallsStayInStep
  <2>1. DOMAIN got[c] = 1..Len(got[c])
      BY DEF SInv, HInv, Shape
  <2>. QED
      BY <2>1 DEF SInv, InStep
<1>. QED
    BY <1>1, <1>2, NextSInv, PTL DEF Spec

=============================================================================
