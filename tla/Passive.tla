------------------------------ MODULE Passive ------------------------------
(***************************************************************************)
(* Two servers on one TIPC name: every request is multicast to both, each  *)
(* acts upon it, and a server in passive mode "never sends any replies"    *)
(* (doc/design.rst); SIGUSR2 toggles the mode of a running server, one may *)
(* crash.  settings.passive is looked at when a reply is sent, not when    *)
(* its request comes in.                                                   *)
(*                                                                         *)
(* TIPC delivers what one client sends to one server in order and once;    *)
(* two clients' requests reach the two servers in any order.  One server   *)
(* is what NmdbLin shows it to be: a request takes effect when the event   *)
(* thread handles it, and is answered then or later, from the queue.       *)
(*                                                                         *)
(* A value is the request that wrote it, [cli, n]: the n-th call of cli.   *)
(***************************************************************************)
EXTENDS Naturals, Sequences, FiniteSets, FiniteSetsExt

CONSTANTS Servers, Clients, Keys,
          Main,             \* the server that is active at first
          MaxCalls,         \* bound on the calls all clients make
          MaxEvents         \* bound on the signals and crashes

ASSUME PassiveAssumption ==
    /\ IsFiniteSet(Servers) /\ Main \in Servers
    /\ MaxCalls \in Nat /\ MaxEvents \in Nat

VARIABLES
    up,         \* servers that run
    passive,    \* server -> settings.passive
    link,       \* server -> client -> requests under way to it
    store,      \* server -> key -> the value it would return
    due,        \* server -> answers the DB thread has still to send
    wait,       \* client -> the request it is blocked on
    inbox,      \* client -> replies it has not read
    (* history *)
    calls,      \* client -> how many it has made
    returned,   \* key -> the writes whose calls have returned
    replaced,   \* key -> those of them known to be older than another
    before,     \* client -> what its call, a set or a get, must come after
    raced,      \* keys two clients wrote with both writes under way
    disturbed,  \* traffic during a switch, or not one active server
    wrong,      \* undisturbed, a call returned a stray reply or an old value
    events

vars == <<up, passive, link, store, due, wait, inbox, calls, returned, replaced,
          before, raced, disturbed, wrong, events>>

history == <<returned, replaced, before>>

NoReq == [cli |-> "none", n |-> 0]
NoValue == [cli |-> "none", n |-> 0]

Init ==
    /\ up = Servers
    /\ passive = [s \in Servers |-> s # Main]
    /\ link = [s \in Servers |-> [c \in Clients |-> <<>>]]
    /\ store = [s \in Servers |-> [k \in Keys |-> NoValue]]
    /\ due = [s \in Servers |-> <<>>]
    /\ wait = [c \in Clients |-> NoReq]
    /\ inbox = [c \in Clients |-> <<>>]
    /\ calls = [c \in Clients |-> 0]
    /\ returned = [k \in Keys |-> {NoValue}] /\ replaced = [k \in Keys |-> {}]
    /\ before = [c \in Clients |-> {}]
    /\ raced = {} /\ disturbed = FALSE /\ wrong = FALSE /\ events = 0

active == {s \in up : ~passive[s]}

under_way(s, k) == {c \in Clients : \E i \in DOMAIN link[s][c] :
                       link[s][c][i].op = "SET" /\ link[s][c][i].key = k}

traffic == \/ \E c \in Clients : wait[c] # NoReq \/ inbox[c] # <<>>
           \/ \E s \in up : due[s] # <<>> \/ \E c \in Clients : link[s][c] # <<>>

(* Once disturbed, calls are not judged any more. *)
keep_or_drop_history ==
    IF disturbed'
    THEN /\ returned' = [k \in Keys |-> {}] /\ replaced' = [k \in Keys |-> {}]
         /\ before' = [c \in Clients |-> {}]
    ELSE UNCHANGED history

-----------------------------------------------------------------------------
(* The clients: tipc_srv_send to a name sequence, tipc_get_rep. *)

tipc_srv_send(c, op, k) ==
    LET r == [cli |-> c, n |-> calls[c] + 1, op |-> op, key |-> k]
    IN  /\ wait[c] = NoReq
        /\ op = "SET" \/ ~disturbed    \* a bound: such a get is not judged
        /\ MapThenSumSet(LAMBDA d : calls[d], Clients) < MaxCalls
        /\ wait' = [wait EXCEPT ![c] = r]
        /\ calls' = [calls EXCEPT ![c] = @ + 1]
        /\ link' = [s \in Servers |->
                       IF s \in up THEN [link[s] EXCEPT ![c] = Append(@, r)]
                       ELSE link[s]]
        /\ raced' = IF op = "SET" /\ \E s \in up : under_way(s, k) \ {c} # {}
                    THEN raced \cup {k} ELSE raced
        /\ disturbed' = (disturbed \/ Cardinality(active) # 1)
        /\ IF disturbed' THEN keep_or_drop_history
           ELSE /\ before' = [before EXCEPT ![c] =
                                IF op = "SET" THEN returned[k] ELSE replaced[k]]
                /\ UNCHANGED <<returned, replaced>>
        /\ UNCHANGED <<up, passive, store, due, inbox, wrong, events>>

(* A set comes after the writes whose calls had returned when it began;   *)
(* once it has returned as well, no get that begins may return those.     *)
tipc_get_rep(c) ==
    LET rep == Head(inbox[c])
        r == wait[c]
        too_old == /\ r.op = "GET" /\ r.key \notin raced
                   /\ rep.val \in before[c]
    IN  /\ r # NoReq /\ inbox[c] # <<>>
        /\ inbox' = [inbox EXCEPT ![c] = Tail(@)]
        /\ wait' = [wait EXCEPT ![c] = NoReq]
        /\ IF r.op = "SET" /\ ~disturbed
           THEN /\ returned' = [returned EXCEPT ![r.key] = @ \cup {[cli |-> c, n |-> r.n]}]
                /\ replaced' = [replaced EXCEPT ![r.key] = @ \cup before[c]]
           ELSE UNCHANGED <<returned, replaced>>
        /\ before' = [before EXCEPT ![c] = {}]
        /\ wrong' = (wrong \/ (~disturbed /\ (rep.n # r.n \/ too_old)))
        /\ UNCHANGED <<up, passive, link, store, due, calls, raced, disturbed,
                       events>>

-----------------------------------------------------------------------------
(* The servers. *)

(* Mutant: settings.passive is not looked at. *)
tipc_reply_always(s, c, rep) == inbox' = [inbox EXCEPT ![c] = Append(@, rep)]

(* tipc_reply_mini, tipc_reply_err, tipc_reply_long and rep_send. *)
tipc_reply(s, c, rep) ==
    inbox' = IF passive[s] THEN inbox ELSE [inbox EXCEPT ![c] = Append(@, rep)]

(* Mutant: a passive server does not act upon what it will not answer. *)
effect_if_active(s, r) ==
    IF r.op = "SET" /\ ~passive[s]
    THEN [store EXCEPT ![s][r.key] = [cli |-> r.cli, n |-> r.n]] ELSE store

effect(s, r) ==
    IF r.op = "SET" THEN [store EXCEPT ![s][r.key] = [cli |-> r.cli, n |-> r.n]]
                    ELSE store

tipc_recv(s, c) ==
    /\ s \in up /\ link[s][c] # <<>>
    /\ link' = [link EXCEPT ![s][c] = Tail(@)]
    /\ LET r == Head(link[s][c])
           rep == [n |-> r.n, val |-> store[s][r.key]]
       IN  /\ store' = effect(s, r)
           /\ \/ tipc_reply(s, c, rep) /\ UNCHANGED due
              \/ /\ due' = [due EXCEPT ![s] = Append(@, [cli |-> c, rep |-> rep])]
                 /\ UNCHANGED inbox
    /\ UNCHANGED <<up, passive, wait, calls, history, raced, disturbed,
                   wrong, events>>

(* Mutant: the server that was passive when it queued the entry keeps quiet. *)
process_op_if_main(s) ==
    /\ s \in up /\ due[s] # <<>>
    /\ inbox' = IF s = Main
                THEN [inbox EXCEPT ![Head(due[s]).cli] = Append(@, Head(due[s]).rep)]
                ELSE inbox
    /\ due' = [due EXCEPT ![s] = Tail(@)]
    /\ UNCHANGED <<up, passive, link, store, wait, calls, history, raced,
                   disturbed, wrong, events>>

(* The DB thread reaches the entry. *)
process_op(s) ==
    /\ s \in up /\ due[s] # <<>>
    /\ tipc_reply(s, Head(due[s]).cli, Head(due[s]).rep)
    /\ due' = [due EXCEPT ![s] = Tail(@)]
    /\ UNCHANGED <<up, passive, link, store, wait, calls, history, raced,
                   disturbed, wrong, events>>

passive_to_active_sighandler(s) ==
    /\ s \in up /\ events < MaxEvents
    /\ passive' = [passive EXCEPT ![s] = ~@]
    /\ events' = events + 1
    /\ disturbed' = (disturbed \/ traffic)
    /\ keep_or_drop_history
    /\ UNCHANGED <<up, link, store, due, wait, inbox, calls, raced, wrong>>

crash(s) ==
    /\ s \in up /\ events < MaxEvents
    /\ up' = up \ {s}
    /\ link' = [link EXCEPT ![s] = [c \in Clients |-> <<>>]]
    /\ due' = [due EXCEPT ![s] = <<>>]
    /\ disturbed' = (disturbed \/ traffic)
    /\ events' = events + 1
    /\ keep_or_drop_history
    /\ UNCHANGED <<passive, store, wait, inbox, calls, raced, wrong>>

Next ==
    \/ \E c \in Clients :
          \/ \E op \in {"SET", "GET"}, k \in Keys : tipc_srv_send(c, op, k)
          \/ tipc_get_rep(c)
          \/ \E s \in Servers : tipc_recv(s, c)
    \/ \E s \in Servers :
          process_op(s) \/ passive_to_active_sighandler(s) \/ crash(s)

Spec == Init /\ [][Next]_vars

(* Running servers take what reaches them and empty their queues, blocked *)
(* clients read their replies.  No signal and no crash has to come.       *)
Fairness ==
    /\ \A c \in Clients : WF_vars(tipc_get_rep(c))
    /\ \A s \in Servers : /\ WF_vars(process_op(s))
                          /\ \A c \in Clients : WF_vars(tipc_recv(s, c))

LiveSpec == Spec /\ Fairness

-----------------------------------------------------------------------------
(* "... allowing the administrator to have an up-to-date copy of the       *)
(* database" (design.rst): once both servers have all requests, they hold  *)
(* the same values, whichever is passive and however they were switched,   *)
(* except under a key that two clients wrote while the first write was     *)
(* still on its way to a server, as TIPC orders nothing between senders.   *)
CopiesAgree ==
    (up = Servers /\ \A s \in Servers, c \in Clients : link[s][c] = <<>>) =>
        \A s, t \in Servers : \A k \in Keys \ raced : store[s][k] = store[t][k]

(* A switch while no request is in the system is safe, with one server     *)
(* active at a time: afterwards each call still returns its own reply, and *)
(* no get returns a value that was overwritten before it began, as if      *)
(* there were one server.                                                  *)
QuietSwitchIsSafe == ~wrong

(* ... and each call returns, whatever the passive server is doing: of the *)
(* two servers that get its request, the one that is active answers it.    *)
CallsReturn ==
    \A c \in Clients : wait[c] # NoReq ~> (wait[c] = NoReq \/ disturbed)

=============================================================================
