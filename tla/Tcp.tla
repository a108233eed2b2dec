-------------------------------- MODULE Tcp --------------------------------
(***************************************************************************)
(* The messaging layer over TCP: one client and the server's end of its    *)
(* connection.  TCP carries bytes and cuts them where it likes; tcp_recv   *)
(* and process_buf put the requests together again, recv_msg the replies.  *)
(*                                                                         *)
(* Bytes are digits of a small base, so that a length read from bytes of   *)
(* two different messages is what it would be in the code.  A message is   *)
(* HdrLen digits of total length and a body: the version and a payload in  *)
(* a request; a code, the value's size in HdrLen digits and the value in a *)
(* reply.  The request is taken for a nmdb_get whose value is the payload  *)
(* sent.                                                                   *)
(*                                                                         *)
(* tcpsock->len is Len(buf), and buf is empty when the pointer is NULL.    *)
(* process_buf runs as a loop of steps on "work", its (buf, len): nothing  *)
(* else the event thread owns changes meanwhile.                           *)
(***************************************************************************)
EXTENDS Naturals, Sequences, SequencesExt

CONSTANTS Base,         \* of the digits, 256 in the code
          HdrLen,       \* digits of the length, 4
          MinLen,       \* a message is longer than this, 8
          MaxLen,       \* and not longer than this, 64 * 1024
          SBSIZE,       \* size of static_buf and of tcpsock->buf, 68 * 1024
          VER,          \* the version the server speaks
          Bodies,       \* the requests a client may send
          MaxSends,     \* bound on their number
          Pipelined,    \* may the client send before it has its reply?
          MemFaults

ASSUME SizesAssumption ==
    /\ HdrLen \in Nat \ {0} /\ MinLen \in Nat /\ HdrLen <= MinLen
    /\ MaxLen \in Nat /\ MinLen < MaxLen
    /\ SBSIZE \in Nat /\ MaxLen < SBSIZE /\ MaxSends \in Nat
ASSUME BodiesAssumption ==
    /\ Base \in Nat \ {0, 1} /\ VER \in 0..(Base - 1)
    /\ \A b \in Bodies : b \in Seq(0..(Base - 1)) /\ b # <<>>
    /\ Pipelined \in BOOLEAN /\ MemFaults \in BOOLEAN

VARIABLES
    (* the connection *)
    up, down,           \* bytes on their way to the server and to the client
    (* the server *)
    conn,               \* "open", "closed" by it, "dead" with the process
    buf, pktsize,       \* struct tcp_socket
    work,               \* what process_buf is looking at, empty when idle
    owed,               \* parsed requests not yet replied to
    (* the client *)
    client,             \* "open", "closed" by it, "failed" on it
    cbuf,               \* what recv_msg has of the reply so far
    from,               \* how much it had when it began to read the rest
    (* history *)
    sent, parsed,       \* requests sent, requests handed to parse_message
    replies,            \* what the calls that have returned returned
    cut                 \* the length of a reply that was cut short

svars == <<conn, buf, pktsize, work, owed>>
cvars == <<client, cbuf, from, replies, cut>>
vars == <<up, down, svars, cvars, sent, parsed>>

Bytes == Seq(0..(Base - 1))

(* What is kept of an incomplete message, and the size it is waiting for, *)
(* fit the buffer that was allocated for them.                            *)
TypeOK ==
    /\ up \in Bytes /\ down \in Bytes
    /\ conn \in {"open", "closed", "dead"}
    /\ buf \in Bytes /\ Len(buf) < SBSIZE /\ pktsize \in 0..MaxLen
    /\ work \in Bytes /\ Len(work) <= SBSIZE
    /\ owed \in Seq(Bytes)
    /\ client \in {"open", "closed", "failed"} /\ cbuf \in Bytes
    /\ from \in Nat /\ cut \in Nat
    /\ sent \in Seq(Bodies) /\ parsed \in Seq(Bytes)
    /\ Len(replies) <= Len(sent)

Init ==
    /\ up = <<>> /\ down = <<>>
    /\ conn = "open" /\ buf = <<>> /\ pktsize = 0 /\ work = <<>> /\ owed = <<>>
    /\ client = "open" /\ cbuf = <<>> /\ from = 0 /\ cut = 0
    /\ sent = <<>> /\ parsed = <<>> /\ replies = <<>>

-----------------------------------------------------------------------------
(* n without its last i digits; the number the first i digits of b make.  *)
shifted(n) ==
    LET quotient[i \in 0..HdrLen] ==
            IF i = 0 THEN n ELSE quotient[i - 1] \div Base
    IN  quotient
number(b) ==
    LET value[i \in 0..HdrLen] ==
            IF i = 0 THEN 0 ELSE value[i - 1] * Base + b[i]
    IN  value

htonl(n) == [i \in 1..HdrLen |-> shifted(n)[HdrLen - i] % Base]
ntohl(b) == number(b)[HdrLen]

frame(body) == htonl(HdrLen + Len(body)) \o body

REP_OK == 0
ErrVer == <<7, 0>>
answer(body) ==
    IF body[1] = VER THEN (<<REP_OK>> \o htonl(Len(body) - 1)) \o Tail(body)
    ELSE ErrVer

(* Lengths and sizes fit their digits, codes the one they have. *)
fits(n) == shifted(n)[HdrLen] = 0
ASSUME DigitsAssumption ==
    /\ \A n \in 0..MaxLen + HdrLen : fits(n)
    /\ \A b \in Bodies : fits(HdrLen + Len(b))
    /\ 7 < Base

take(s, n) == SubSeq(s, 1, n)
drop(s, n) == SubSeq(s, n + 1, Len(s))
least(m, n) == IF m <= n THEN m ELSE n

-----------------------------------------------------------------------------
(* The server. *)

(* recv() into static_buf. *)
tcp_recv(n) ==
    /\ conn = "open" /\ work = <<>> /\ buf = <<>>
    /\ n \in 1..least(Len(up), SBSIZE)
    /\ work' = take(up, n) /\ up' = drop(up, n)
    /\ UNCHANGED <<down, conn, buf, pktsize, owed, cvars, sent, parsed>>

(* recv() of what is missing, behind what is there. *)
tcp_recv_more(n) ==
    /\ conn = "open" /\ work = <<>> /\ buf # <<>>
    /\ n \in 1..least(Len(up), pktsize - Len(buf))
    /\ work' = buf \o take(up, n) /\ up' = drop(up, n)
    /\ UNCHANGED <<down, conn, buf, pktsize, owed, cvars, sent, parsed>>

(* Closes the descriptor and frees the tcp_socket. *)
error_exit ==
    /\ conn' = "closed"
    /\ up' = <<>> /\ buf' = <<>> /\ pktsize' = 0 /\ work' = <<>>

(* recv() returns 0. *)
tcp_recv_eof ==
    /\ conn = "open" /\ work = <<>> /\ up = <<>> /\ client # "open"
    /\ error_exit
    /\ UNCHANGED <<down, owed, cvars, sent, parsed>>

totaltoget == IF Len(work) >= HdrLen THEN ntohl(work) ELSE HdrLen

(* Mutant: no upper bound. *)
bad_length_low == Len(work) >= HdrLen /\ ntohl(work) <= MinLen

(* Mutant: the largest message is refused. *)
bad_length_strict ==
    Len(work) >= HdrLen /\ (ntohl(work) >= MaxLen \/ ntohl(work) <= MinLen)

bad_length ==
    Len(work) >= HdrLen /\ (ntohl(work) > MaxLen \/ ntohl(work) <= MinLen)

process_buf_bad_length ==
    /\ work # <<>> /\ bad_length
    /\ error_exit
    /\ UNCHANGED <<down, owed, cvars, sent, parsed>>

(* Mutant: it goes on waiting for the length alone. *)
process_buf_short_header ==
    /\ work # <<>> /\ ~bad_length /\ totaltoget > Len(work)
    /\ buf' = work /\ pktsize' = HdrLen
    /\ work' = <<>>
    /\ UNCHANGED <<up, down, conn, owed, cvars, sent, parsed>>

process_buf_short ==
    /\ work # <<>> /\ ~bad_length /\ totaltoget > Len(work)
    /\ buf' = work /\ pktsize' = totaltoget
    /\ work' = <<>>
    /\ UNCHANGED <<up, down, conn, owed, cvars, sent, parsed>>

process_buf_no_memory ==
    /\ MemFaults
    /\ work # <<>> /\ ~bad_length /\ totaltoget > Len(work)
    /\ buf = <<>>
    /\ error_exit
    /\ UNCHANGED <<down, owed, cvars, sent, parsed>>

(* memmove of the excess to the front.  The code then goes on with the    *)
(* length of the message it has just parsed, not that of the excess.      *)
leftovers(b, len) ==
    LET excess == Len(b) - len
    IN  [i \in 1..len |-> IF i <= excess THEN b[len + i] ELSE b[i]]

body_of(b) == SubSeq(b, HdrLen + 1, totaltoget)

(* Mutant: tcpsock->buf is kept. *)
process_buf_message_kept ==
    /\ work # <<>> /\ ~bad_length /\ totaltoget <= Len(work)
    /\ body_of(work)[1] = VER
    /\ parsed' = Append(parsed, body_of(work))
    /\ owed' = Append(owed, body_of(work))
    /\ work' = IF totaltoget < Len(work) THEN leftovers(work, totaltoget) ELSE <<>>
    /\ UNCHANGED <<up, down, conn, buf, pktsize, cvars, sent>>

process_buf_message ==
    /\ work # <<>> /\ ~bad_length /\ totaltoget <= Len(work)
    /\ body_of(work)[1] = VER
    /\ parsed' = Append(parsed, body_of(work))
    /\ owed' = Append(owed, body_of(work))
    /\ IF totaltoget < Len(work)
       THEN /\ work' = leftovers(work, totaltoget)
            /\ UNCHANGED <<buf, pktsize>>
       ELSE /\ work' = <<>>
            /\ buf' = <<>> /\ pktsize' = 0
    /\ UNCHANGED <<up, down, conn, cvars, sent>>

(* parse_message returns 0: it has replied ERR_VER. *)
process_buf_refused ==
    /\ work # <<>> /\ ~bad_length /\ totaltoget <= Len(work)
    /\ body_of(work)[1] # VER
    /\ parsed' = Append(parsed, body_of(work))
    /\ down' = down \o frame(ErrVer)
    /\ error_exit
    /\ UNCHANGED <<owed, cvars, sent>>

(* A handler or the DB thread replies; to a closed descriptor in vain. *)
rep_send(i) ==
    /\ i \in 1..Len(owed)
    /\ down' = IF conn = "open" THEN down \o frame(answer(owed[i])) ELSE down
    /\ owed' = RemoveAt(owed, i)
    /\ UNCHANGED <<up, conn, buf, pktsize, work, cvars, sent, parsed>>

(* The process or its host dies, perhaps in rep_send's loop of send()s;   *)
(* of what was sent and not yet read the client may still get the first   *)
(* n bytes.                                                               *)
server_dies(n) ==
    LET rep == IF owed = <<>> THEN <<>> ELSE frame(answer(owed[1]))
    IN  /\ conn = "open"
        /\ n \in 0..Len(down \o rep) /\ (rep = <<>> \/ n < Len(down \o rep))
        /\ down' = take(down \o rep, n)
        /\ conn' = "dead"
        /\ up' = <<>> /\ buf' = <<>> /\ pktsize' = 0 /\ work' = <<>> /\ owed' = <<>>
        /\ UNCHANGED <<cvars, sent, parsed>>

-----------------------------------------------------------------------------
(* The client. *)

tcp_srv_send(b) ==
    /\ client = "open" /\ conn = "open"
    /\ Len(sent) < MaxSends
    /\ Pipelined \/ Len(replies) = Len(sent)
    /\ up' = up \o frame(b)
    /\ sent' = Append(sent, b)
    /\ UNCHANGED <<down, svars, cvars, parsed>>

(* The first recv() takes what is there, later ones what is missing. *)
toread ==
    IF cbuf = <<>> THEN Len(down)
    ELSE IF Len(cbuf) < HdrLen THEN HdrLen - Len(cbuf)
    ELSE ntohl(cbuf) - Len(cbuf)

(* Mutant: what is there once the length is known is taken to be all. *)
is_whole_once(b) == Len(b) >= HdrLen

is_whole(b) == Len(b) >= HdrLen /\ Len(b) >= ntohl(b)

(* Results that no value can be: -2, and bytes that came from elsewhere. *)
Error == <<Base>>
Stray == <<Base + 1>>

(* The reply's code and size end here: the value follows. *)
value_at == HdrLen + 1 + HdrLen

(* Mutant: the size in the reply is believed. *)
do_get_unchecked(got, req) ==
    LET at(i) == IF i <= Len(got) THEN got[i] ELSE frame(req)[i]
        vsize == ntohl([i \in 1..HdrLen |-> at(HdrLen + 1 + i)])
    IN  IF at(HdrLen + 1) # REP_OK THEN Error
        ELSE IF value_at + vsize > Len(got) THEN Stray
        ELSE SubSeq(got, value_at + 1, value_at + vsize)

(* What get_rep and do_get make of the bytes recv_msg handed on.  They    *)
(* are read into the buffer the request was built in: where the reply     *)
(* ends early its bytes are still there.  psize - 4 is unsigned, and the  *)
(* test that the value fits passes when psize is less than 4.             *)
do_get(got, req) ==
    LET at(i) == IF i <= Len(got) THEN got[i] ELSE frame(req)[i]
        vsize == ntohl([i \in 1..HdrLen |-> at(HdrLen + 1 + i)])
        psize == Len(got) - (HdrLen + 1)
    IN  IF at(HdrLen + 1) # REP_OK THEN Error
        ELSE IF psize >= HdrLen /\ vsize > psize - HdrLen THEN Error
        ELSE IF value_at + vsize > Len(got) THEN Stray
        ELSE SubSeq(got, value_at + 1, value_at + vsize)

req_now == sent[Len(replies) + 1]

recv_msg(n) ==
    /\ client = "open" /\ Len(replies) < Len(sent)
    /\ n \in 1..least(Len(down), toread)
    /\ down' = drop(down, n)
    /\ LET got == cbuf \o take(down, n)
       IN  IF is_whole(got)
           THEN /\ replies' = Append(replies, do_get(got, req_now))
                /\ cbuf' = <<>> /\ from' = 0
           ELSE /\ cbuf' = got /\ UNCHANGED replies
                /\ from' = IF from = 0 /\ Len(got) >= HdrLen THEN Len(got) ELSE from
    /\ UNCHANGED <<up, svars, client, cut, sent, parsed>>

(* recv() returns 0 in the srecv() for the rest of the message, after     *)
(* some of the rest: srecv returns what there was.                        *)
recv_msg_cut ==
    /\ client = "open" /\ conn # "open" /\ down = <<>>
    /\ from > 0 /\ Len(cbuf) > from
    /\ replies' = Append(replies, do_get(cbuf, req_now))
    /\ cut' = Len(cbuf)
    /\ cbuf' = <<>> /\ from' = 0
    /\ UNCHANGED <<up, down, svars, client, sent, parsed>>

(* recv() returns 0, or fails if the peer has died, and the call -1. *)
get_rep_fails ==
    /\ client = "open" /\ conn # "open" /\ down = <<>>
    /\ conn = "dead" \/ from = 0 \/ Len(cbuf) = from
    /\ client' = "failed"
    /\ UNCHANGED <<up, down, svars, cbuf, from, replies, cut, sent, parsed>>

nmdb_free ==
    /\ client = "open" /\ Len(replies) = Len(sent)
    /\ client' = "closed"
    /\ UNCHANGED <<up, down, svars, cbuf, from, replies, cut, sent, parsed>>

-----------------------------------------------------------------------------
(* Nothing is left to do. *)
Over == conn # "open" /\ client # "open" /\ owed = <<>> /\ UNCHANGED vars

process_buf ==
    \/ process_buf_bad_length
    \/ process_buf_short
    \/ process_buf_no_memory
    \/ process_buf_message
    \/ process_buf_refused

receive == \E n \in 1..SBSIZE : tcp_recv(n) \/ tcp_recv_more(n)
reply == \E i \in 1..MaxSends : rep_send(i)
get_rep == recv_msg_cut \/ \E n \in 1..Len(down) : recv_msg(n)

Next ==
    \/ receive
    \/ tcp_recv_eof
    \/ process_buf
    \/ reply
    \/ \E n \in 0..(2 * SBSIZE) : server_dies(n)
    \/ get_rep
    \/ get_rep_fails
    \/ nmdb_free
    \/ \E b \in Bodies : tcp_srv_send(b)
    \/ Over

Spec == Init /\ [][Next]_vars

(* libevent calls tcp_recv while there is something to read, requests are *)
(* answered (EveryCallReturns), and a blocked client reads what arrives.  *)
Fairness ==
    /\ WF_vars(receive) /\ WF_vars(process_buf) /\ WF_vars(reply)
    /\ WF_vars(get_rep) /\ WF_vars(get_rep_fails)

LiveSpec == Spec /\ Fairness

-----------------------------------------------------------------------------
(* "Got more than one message in the same recv(); save the amount of      *)
(* bytes exceeding so we can process it later" (process_buf): the         *)
(* requests parsed are the requests sent, in their order, however TCP     *)
(* cuts or joins them.                                                    *)
ParsedInOrder == IsPrefix(parsed, sent)

(* A call returns the value in the reply to its own request, or fails:    *)
(* recv_msg neither stops early nor runs into the next reply, and when    *)
(* the server's death cuts a reply short, which recv_msg does not notice, *)
(* do_get's test of the value's size does.  What that test cannot notice  *)
(* is a cut before the end of that size: the bytes of the request are     *)
(* then taken for it.                                                     *)
RepliesMatch ==
    \A i \in DOMAIN replies :
        \/ replies[i] = do_get(frame(answer(sent[i])), sent[i])
        \/ /\ conn = "dead" /\ cut > 0
           /\ replies[i] = Error \/ cut < value_at

(* tcp_recv never asks recv() for no bytes at all, whose 0 it would take  *)
(* for the end of the connection, and never for more than fit the buffer. *)
ReadsMakeProgress == buf # <<>> => Len(buf) < pktsize /\ pktsize <= SBSIZE

(* The server hangs up only on a client that has gone, has sent something *)
(* of a wrong size or version, or for want of memory for the part of a    *)
(* message it already has.                                                *)
acceptable(b) == HdrLen + Len(b) \in (MinLen + 1)..MaxLen /\ b[1] = VER

ClosedForCause ==
    [][conn = "open" /\ conn' = "closed" =>
          \/ client # "open"
          \/ ~acceptable(Last(sent))
          \/ MemFaults /\ buf = <<>> /\ Len(work) < HdrLen + Len(Last(sent))]_vars

(* Every request is answered or the connection ends, whatever the cuts.   *)
EveryRequestAnswered ==
    \A i \in 1..MaxSends :
        Len(sent) >= i ~> (Len(replies) >= i \/ client # "open")

=============================================================================
