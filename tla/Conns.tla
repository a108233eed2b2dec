------------------------------- MODULE Conns -------------------------------
(***************************************************************************)
(* Who gets a reply.  Client processes come and go while their requests    *)
(* are in the server; what the server keeps of a request's origin is an    *)
(* "end": for TCP the descriptor of the connection, which the kernel hands *)
(* out again once it is closed, for the datagram protocols (UDP, TIPC,     *)
(* SCTP) a copy of the sender's address.  Every request of libnmdb carries *)
(* the same ID_CODE, so that nothing in a reply says whose it is.          *)
(*                                                                         *)
(* A request is the tag [cli, n]: the n-th call of a client.  A handler    *)
(* answers it at once or queues it for the DB thread; Nmdb has the rest.   *)
(* UDP (Lossy) may lose a datagram or deliver it twice.                    *)
(*                                                                         *)
(* Two threads send replies, and a TCP peer can do harm to either: while   *)
(* it does not read, rep_send spins, and once it has gone the send that    *)
(* reports the failure may raise SIGPIPE, which nothing handles.           *)
(***************************************************************************)
EXTENDS Naturals, Sequences, SequencesExt, FiniteSetsExt

CONSTANTS TcpClients,   \* client processes that connect by TCP
          DgramClients, \* and by one of the datagram protocols
          Lossy,        \* those of them that use UDP
          Fds,          \* descriptors the server has for connections
          Addrs,        \* addresses datagram sockets can have
          MaxCalls,     \* bound on the calls of a client
          Parties       \* bound on the clients there are in one behaviour

Clients == TcpClients \cup DgramClients

ASSUME ClientsAssumption ==
    /\ TcpClients \cap DgramClients = {} /\ "nobody" \notin Clients
    /\ Lossy \subseteq DgramClients
ASSUME EndsAssumption ==
    /\ Fds \cup Addrs \subseteq Nat \ {0} /\ Fds \cap Addrs = {}
    /\ Cardinality(TcpClients) <= Cardinality(Fds)
    /\ MaxCalls \in Nat /\ Parties \in 0..Cardinality(Clients)

Nobody == "nobody"
Nowhere == 0
Threads == {"event", "db"}
Tags == [cli : Clients, n : 1..MaxCalls]

VARIABLES
    proc,       \* client -> "new", "idle", "waiting", "gone"
    backlog,    \* connections the kernel has made and nobody accepted
    holder,     \* end -> the client it leads to, or Nobody
    end,        \* client -> where the server finds it, or Nowhere
    transit,    \* requests under way; "again": it will come twice
    queue,      \* op_queue
    inbox,      \* client -> replies it has not read
    sending,    \* thread -> {} or {the request whose reply it spins on}
    up,         \* the server runs
    (* history *)
    calls,      \* client -> how many it has made
    got,        \* client -> the replies its calls have returned
    inherited   \* client -> requests of others that hold its end

server == <<sending, up>>
history == <<calls, got, inherited>>
vars == <<proc, backlog, holder, end, transit, queue, inbox, server, history>>

(* An open end leads to a client that believes in it, or that has gone.   *)
(* A thread that spins does so over a request it has.                     *)
TypeOK ==
    /\ proc \in [Clients -> {"new", "idle", "waiting", "gone"}]
    /\ backlog \subseteq TcpClients
    /\ \A e \in Fds \cup Addrs : holder[e] # Nobody => end[holder[e]] = e
    /\ \A c \in Clients : inbox[c] \in Seq(Tags) /\ got[c] \in Seq(Tags)
    /\ up \in BOOLEAN /\ sending["event"] \subseteq transit
    /\ \A m \in sending["db"] : queue # <<>> /\ m = Head(queue)

Init ==
    /\ \E S \in kSubset(Parties, Clients) :
          proc = [c \in Clients |-> IF c \in S THEN "new" ELSE "gone"]
    /\ backlog = {}
    /\ holder = [e \in Fds \cup Addrs |-> Nobody]
    /\ end = [c \in Clients |-> Nowhere]
    /\ transit = {} /\ queue = <<>>
    /\ inbox = [c \in Clients |-> <<>>]
    /\ sending = [th \in Threads |-> {}] /\ up = TRUE
    /\ calls = [c \in Clients |-> 0]
    /\ got = [c \in Clients |-> <<>>]
    /\ inherited = [c \in Clients |-> {}]

-----------------------------------------------------------------------------
(* The clients. *)

(* connect() succeeds when the kernel has queued the connection. *)
nmdb_add_tcp_server(c) ==
    /\ c \in TcpClients /\ proc[c] = "new" /\ up
    /\ proc' = [proc EXCEPT ![c] = "idle"]
    /\ backlog' = backlog \cup {c}
    /\ UNCHANGED <<holder, end, transit, queue, inbox, server, history>>

(* Requests in the server that will be answered to end e. *)
bound_for(e) == {m.tag : m \in {x \in transit \cup ToSet(queue) : x.end = e}}

(* Mutant: the connection's event is set up for another descriptor. *)
occupy_elsewhere(c, e) ==
    /\ holder' = [holder EXCEPT ![e] = c]
    /\ inherited' = [inherited EXCEPT ![c] = bound_for(e)]
    /\ UNCHANGED end

(* c becomes the one reached through e. *)
occupy(c, e) ==
    /\ holder' = [holder EXCEPT ![e] = c]
    /\ end' = [end EXCEPT ![c] = e]
    /\ inherited' = [inherited EXCEPT ![c] = bound_for(e)]

(* A socket's address is any that is free, also one used before. *)
nmdb_add_dgram_server(c, a) ==
    /\ c \in DgramClients /\ proc[c] = "new"
    /\ a \in Addrs /\ holder[a] = Nobody
    /\ proc' = [proc EXCEPT ![c] = "idle"]
    /\ occupy(c, a)
    /\ UNCHANGED <<backlog, transit, queue, inbox, server, calls, got>>

srv_send(c, again) ==
    /\ proc[c] = "idle" /\ calls[c] < MaxCalls
    /\ again => c \in Lossy
    /\ proc' = [proc EXCEPT ![c] = "waiting"]
    /\ calls' = [calls EXCEPT ![c] = @ + 1]
    /\ transit' = transit \cup
          {[tag |-> [cli |-> c, n |-> calls[c] + 1], end |-> end[c], again |-> again]}
    /\ UNCHANGED <<backlog, holder, end, queue, inbox, server, got, inherited>>

get_rep(c) ==
    /\ proc[c] = "waiting" /\ inbox[c] # <<>>
    /\ proc' = [proc EXCEPT ![c] = "idle"]
    /\ got' = [got EXCEPT ![c] = Append(@, Head(inbox[c]))]
    /\ inbox' = [inbox EXCEPT ![c] = Tail(@)]
    /\ UNCHANGED <<backlog, holder, end, transit, queue, server, calls, inherited>>

(* A client calls nmdb_free, exits or is killed, also during a call.  Its *)
(* address is free at once, its connection when the server closes it.     *)
leave(c) ==
    /\ proc[c] \in {"idle", "waiting"}
    /\ proc' = [proc EXCEPT ![c] = "gone"]
    /\ inbox' = [inbox EXCEPT ![c] = <<>>]
    /\ holder' = [e \in DOMAIN holder |->
                     IF e \in Addrs /\ holder[e] = c THEN Nobody ELSE holder[e]]
    /\ UNCHANGED <<backlog, end, transit, queue, server, history>>

(* recv() returns 0 or fails when the server has died: the call fails, and *)
(* the handle is of no use any more.  A datagram socket notices nothing.   *)
get_rep_fails(c) ==
    ~up /\ c \in TcpClients /\ proc[c] = "waiting" /\ leave(c)

-----------------------------------------------------------------------------
(* The server. *)

(* libevent can call a handler. *)
dispatching == up /\ sending["event"] = {}

(* accept() gives the lowest descriptor that is free, also for a peer     *)
(* that has gone again.  What it has already sent waits in the socket.    *)
tcp_newconnection(c) ==
    /\ dispatching /\ c \in backlog
    /\ LET free == {f \in Fds : holder[f] = Nobody}
       IN  /\ free # {}
           /\ occupy(c, Min(free))
           /\ transit' = {IF m.tag.cli = c THEN [m EXCEPT !.end = Min(free)] ELSE m :
                              m \in transit}
    /\ backlog' = backlog \ {c}
    /\ UNCHANGED <<proc, queue, inbox, server, calls, got>>

(* What a thread can be replying to. *)
answering(th) ==
    IF th = "event" THEN {m \in transit : m.end # Nowhere}
    ELSE {m \in ToSet(queue) : m = Head(queue)}

(* rep_send: the peer does not read, its window is full, and EAGAIN makes  *)
(* the loop go on.  The thread does nothing else until there is room; the  *)
(* end may meanwhile pass to another.                                      *)
rep_send_spins(th, m) ==
    /\ up /\ sending[th] = {}
    /\ m \in answering(th) /\ m.end \in Fds /\ holder[m.end] # Nobody
    /\ sending' = [sending EXCEPT ![th] = {m}]
    /\ UNCHANGED <<proc, backlog, holder, end, transit, queue, inbox, up, history>>

(* rep_send_error: the peer has gone, send() has failed and is called once *)
(* more, without MSG_NOSIGNAL.  What the server had is lost with it.       *)
rep_send_dies(th, m) ==
    /\ up /\ m \in answering(th) /\ sending[th] \subseteq {m}
    /\ m.end \in Fds /\ holder[m.end] # Nobody /\ proc[holder[m.end]] = "gone"
    /\ up' = FALSE
    /\ UNCHANGED <<proc, backlog, holder, end, transit, queue, inbox, sending, history>>

(* A reply goes to whoever is at the other end now.  To a closed           *)
(* descriptor, or to a peer whose reset has not come yet, it goes nowhere. *)
reply(e, tag) ==
    LET c == holder[e]
    IN  inbox' = IF c = Nobody \/ proc[c] = "gone" THEN inbox
                 ELSE [inbox EXCEPT ![c] = Append(@, tag)]

(* A sendto() that reaches nobody is all the same to the server. *)
reply_or_lose(e, tag) ==
    reply(e, tag) \/ (tag.cli \in Lossy /\ UNCHANGED inbox)

(* Mutant: the entry keeps a pointer to the receiver's own struct. *)
make_queue_long_entry_shared(m) ==
    Append([i \in DOMAIN queue |-> [queue[i] EXCEPT !.end = m.end]],
           [tag |-> m.tag, end |-> m.end])

(* Mutant: no memory for the entry, and no error reply. *)
make_queue_long_entry_fails(m) == queue

(* The entry gets a copy of req, its clisa included. *)
make_queue_long_entry(m) == Append(queue, [tag |-> m.tag, end |-> m.end])

(* Mutant: a request that is answered at once is queued with its replies. *)
recv_request_twice(m) ==
    /\ up /\ m \in answering("event") /\ sending["event"] \subseteq {m}
    /\ sending' = [sending EXCEPT !["event"] = {}]
    /\ transit' = transit \ {m}
    /\ reply_or_lose(m.end, m.tag)
    /\ queue' = make_queue_long_entry(m)
    /\ UNCHANGED <<proc, backlog, holder, end, up, history>>

(* tcp_recv, udp_recv, tipc_recv or sctp_recv, and parse_message; also the *)
(* end of rep_send for the request it spins on.                            *)
recv_request(m) ==
    /\ up /\ m \in answering("event") /\ sending["event"] \subseteq {m}
    /\ sending' = [sending EXCEPT !["event"] = {}]
    /\ transit' = (transit \ {m}) \cup
          {[x EXCEPT !.again = FALSE] : x \in {y \in {m} : y.again}}
    /\ \/ reply_or_lose(m.end, m.tag) /\ UNCHANGED queue
       \/ sending["event"] = {} /\ queue' = make_queue_long_entry(m) /\ UNCHANGED inbox
    /\ UNCHANGED <<proc, backlog, holder, end, up, history>>

lose(m) ==
    /\ m \in transit \ sending["event"] /\ m.tag.cli \in Lossy
    /\ transit' = transit \ {m}
    /\ UNCHANGED <<proc, backlog, holder, end, queue, inbox, server, history>>

(* Mutant: the event is deleted and the descriptor left open. *)
tcp_recv_eof_leaks(f) == FALSE /\ UNCHANGED vars

(* recv() returns 0 once everything was read, or fails: close(). *)
tcp_recv_eof(f) ==
    /\ dispatching /\ f \in Fds /\ holder[f] # Nobody /\ proc[holder[f]] = "gone"
    /\ holder' = [holder EXCEPT ![f] = Nobody]
    /\ transit' = {m \in transit : m.tag.cli # holder[f]}
    /\ UNCHANGED <<proc, backlog, end, queue, inbox, server, history>>

(* The DB thread: process_op, also the end of its rep_send. *)
process_op ==
    /\ up /\ queue # <<>>
    /\ sending' = [sending EXCEPT !["db"] = {}]
    /\ queue' = Tail(queue)
    /\ reply_or_lose(Head(queue).end, Head(queue).tag)
    /\ UNCHANGED <<proc, backlog, holder, end, transit, up, history>>

-----------------------------------------------------------------------------
Next ==
    \/ \E c \in Clients :
          \/ nmdb_add_tcp_server(c)
          \/ \E a \in Addrs : nmdb_add_dgram_server(c, a)
          \/ \E again \in BOOLEAN : srv_send(c, again)
          \/ get_rep(c)
          \/ leave(c)
          \/ tcp_newconnection(c)
    \/ \E m \in transit : recv_request(m) \/ lose(m)
    \/ \E f \in Fds : tcp_recv_eof(f)
    \/ process_op
    \/ \E th \in Threads : \E m \in answering(th) :
          rep_send_spins(th, m) \/ rep_send_dies(th, m)

Spec == Init /\ [][Next]_vars

(* libevent calls the handlers whose descriptors are readable, the DB     *)
(* thread empties the queue, a blocked client reads what arrives.  That a *)
(* peer makes room for the reply a thread spins on is not assumed.        *)
Fairness ==
    /\ WF_vars(sending["db"] = {} /\ process_op)
    /\ \A c \in Clients :
          /\ WF_vars(tcp_newconnection(c))
          /\ WF_vars(get_rep(c))
          /\ WF_vars(get_rep_fails(c))
          /\ WF_vars(/\ dispatching
                     /\ \E m \in transit : m.tag.cli = c /\ recv_request(m))
    /\ \A f \in Fds : WF_vars(tcp_recv_eof(f))

LiveSpec == Spec /\ Fairness

-----------------------------------------------------------------------------
seen(c) == ToSet(got[c]) \cup ToSet(inbox[c])

(* A client sees replies to its own requests and to those of no process    *)
(* that still lives: strangers' replies reach it only through an end it    *)
(* took over while requests of the former holder, gone by then, were still *)
(* in the server (make_queue_long_entry copies fd and address).            *)
OnlyHeirsSeeStrangers ==
    \A c \in Clients : \A t \in seen(c) :
        t.cli = c \/ (t \in inherited[c] /\ proc[t.cli] = "gone")

(* The n-th call of a client returns the reply to its n-th request, on     *)
(* every protocol that delivers messages once, unless the client took      *)
(* over its end from one that died during a call.                          *)
CallsStayInStep ==
    \A c \in Clients \ Lossy :
        inherited[c] = {} => \A i \in DOMAIN got[c] : got[c][i] = [cli |-> c, n |-> i]

(* "The request ID this reply corresponds to" (doc/network.rst, of a       *)
(* reply): a call over TCP returns a reply to a request of its own.        *)
RepliesCorrespond ==
    \A c \in TcpClients : \A i \in DOMAIN got[c] : got[c][i].cli = c

(* rep_send comes to an end, each time: no peer stays without reading. *)
PeersRead == \A th \in Threads : []<>(sending[th] = {})

(* A call returns or its process goes, unless UDP is used, as long as no   *)
(* peer keeps a thread in rep_send for ever.  No request is forgotten,     *)
(* whoever else comes, leaves or stalls for a while; when a peer that has  *)
(* gone kills the server, calls over TCP still fail, but the others hang.  *)
CallsReturn ==
    PeersRead => \A c \in Clients \ Lossy :
        proc[c] = "waiting" ~> proc[c] # "waiting" \/ (~up /\ c \in DgramClients)

(* The descriptors of clients that have gone do not pile up, as long as    *)
(* the server runs and rep_send does not keep it from its sockets.         *)
DescriptorsComeBack ==
    PeersRead => \A f \in Fds : \A c \in TcpClients :
        (holder[f] = c /\ proc[c] = "gone") ~> holder[f] # c \/ ~up

=============================================================================
