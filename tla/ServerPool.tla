----------------------------- MODULE ServerPool -----------------------------
(***************************************************************************)
(* The servers a client process talks to (libnmdb: nmdb_add_*_server) and  *)
(* the one it takes for a key (select_srv).  Servers do not know of each   *)
(* other: processes find each other's data only if they pick the same      *)
(* server for a key, in whatever order they were given the servers.        *)
(*                                                                         *)
(* A machine reads two bytes from memory as a number in its own byte       *)
(* order; addresses and ports lie there in network order.  A byte is here  *)
(* a digit below Byte, where the code has 256: a uint16_t is below Byte^2  *)
(* and a uint32_t below Byte^4.                                            *)
(***************************************************************************)
EXTENDS Integers, Sequences, SequencesExt, FiniteSets

CONSTANTS Procs,
          Byte,         \* 256 in the code
          Idents,       \* servers: [type, addr, port], the last two as bytes;
                        \* one on TIPC has no address
          Keys,         \* keys: sequences of bytes
          MemFaults,    \* may realloc fail?
          MaxAdds       \* bound on the servers a process tries to add

TIPC_CONN == 1
TCP_CONN == 2
UDP_CONN == 3
SCTP_CONN == 4

Bytes == 0..Byte - 1
Word == Byte * Byte
Long == Word * Word

ASSUME PoolAssumption ==
    /\ Byte \in Nat \ {0, 1} /\ MaxAdds \in Nat /\ MemFaults \in BOOLEAN
    /\ Idents \subseteq [type : TIPC_CONN..SCTP_CONN, addr : Bytes \X Bytes,
                         port : Bytes \X Bytes]
    /\ \A s \in Idents : s.type = TIPC_CONN => s.addr = <<0, 0>>
    /\ \A k \in Keys : k \in Seq(Bytes) /\ Len(k) < Word

VARIABLES
    order,      \* process -> the byte order of its machine
    alive,      \* processes that have an nmdb_t
    servers,    \* process -> db->servers
    open,       \* process -> its open descriptors
    (* history *)
    adds,       \* process -> calls of nmdb_add_*_server
    forgot      \* process -> did it lose its array to a failed realloc?

vars == <<order, alive, servers, open, adds, forgot>>

Init ==
    /\ order \in [Procs -> {"little", "big"}]
    /\ alive = Procs
    /\ servers = [p \in Procs |-> <<>>]
    /\ open = [p \in Procs |-> {}]
    /\ adds = [p \in Procs |-> 0]
    /\ forgot = [p \in Procs |-> FALSE]

(* Two bytes in memory, read as an integer. *)
as_read(o, b) == IF o = "little" THEN b[1] + Byte * b[2] ELSE Byte * b[1] + b[2]

-----------------------------------------------------------------------------
(* Adding servers. *)

(* Mutant: one order for all protocols, by address and port. *)
compare_servers_untyped(o, s, t) ==
    LET addr(x) == as_read(o, x.addr)
        port(x) == as_read(o, x.port)
    IN  addr(s) < addr(t) \/ (addr(s) = addr(t) /\ port(s) < port(t))

(* compare_servers(s, t) < 0, on a machine of byte order o.  The port of a *)
(* TIPC server is kept as an int.                                          *)
compare_servers(o, s, t) ==
    LET addr(x) == as_read(o, x.addr)
        port(x) == IF x.type = TIPC_CONN THEN as_read("big", x.port)
                                         ELSE as_read(o, x.port)
    IN  \/ s.type < t.type
        \/ /\ s.type = t.type
           /\ \/ s.type # TIPC_CONN /\ addr(s) < addr(t)
              \/ /\ s.type = TIPC_CONN \/ addr(s) = addr(t)
                 /\ port(s) < port(t)

(* The orders qsort() may leave an array in: which of two servers that     *)
(* compare equal comes first is not said.                                  *)
qsort(o, array) ==
    {sorted \in {[i \in DOMAIN array |-> array[perm[i]]] :
                    perm \in Bijection(DOMAIN array, DOMAIN array)} :
        \A i, j \in DOMAIN sorted :
            i < j => ~compare_servers(o, sorted[j], sorted[i])}

(* socket() returns the lowest number that is free. *)
socket(p) == CHOOSE f \in 0..MaxAdds :
                 f \notin open[p] /\ \A g \in 0..f - 1 : g \in open[p]

newsrv(p, s) == [type |-> s.type, addr |-> s.addr, port |-> s.port, fd |-> socket(p)]

calls_add(p) ==
    /\ p \in alive /\ adds[p] < MaxAdds
    /\ adds' = [adds EXCEPT ![p] = @ + 1]

(* nmdb_add_tipc_server, add_tcp_server_addr, add_udp_server_addr and      *)
(* add_sctp_server_addr when all goes well.                                *)
add_server(p, s) ==
    /\ calls_add(p)
    /\ \E array \in qsort(order[p], Append(servers[p], newsrv(p, s))) :
          servers' = [servers EXCEPT ![p] = array]
    /\ open' = [open EXCEPT ![p] = @ \cup {socket(p)}]
    /\ UNCHANGED <<order, alive, forgot>>

(* Mutant: the socket is not closed when realloc fails. *)
add_fails_leaking(p) ==
    /\ calls_add(p)
    /\ open' = [open EXCEPT ![p] = @ \cup {socket(p)}]
    /\ UNCHANGED <<order, alive, servers, forgot>>

(* No such host, no socket, no SCTP option, or (closing the socket again)  *)
(* no memory for a longer array.                                           *)
add_fails(p) ==
    /\ calls_add(p)
    /\ UNCHANGED <<order, alive, servers, open, forgot>>

(* Mutant: nservers is not taken back. *)
tcp_error_exit_keeps(p, s) ==
    /\ servers' = [servers EXCEPT ![p] = Append(@, newsrv(p, s))]
    /\ UNCHANGED <<order, alive, open, forgot>>

(* The array already has the new server, last and not yet sorted in: close *)
(* the socket and cut the array.  realloc() to nothing returns NULL, and a *)
(* failing one is taken for that: the servers are gone, their sockets open *)
tcp_error_exit(p, s) ==
    LET newarray == Append(servers[p], newsrv(p, s))
    IN  /\ \/ /\ servers' = [servers EXCEPT ![p] = Front(newarray)]
              /\ UNCHANGED forgot
           \/ /\ MemFaults /\ servers[p] # <<>>
              /\ servers' = [servers EXCEPT ![p] = <<>>]
              /\ forgot' = [forgot EXCEPT ![p] = TRUE]
        /\ UNCHANGED <<order, alive, open>>

(* add_tcp_server_addr: nobody listens there, or no TCP_NODELAY. *)
add_tcp_server_refused(p, s) ==
    /\ s.type = TCP_CONN
    /\ calls_add(p)
    /\ tcp_error_exit(p, s)

nmdb_init(p) ==
    /\ p \notin alive
    /\ alive' = alive \cup {p}
    /\ UNCHANGED <<order, servers, open, adds, forgot>>

nmdb_free(p) ==
    /\ p \in alive
    /\ alive' = alive \ {p}
    /\ open' = [open EXCEPT ![p] = @ \ {s.fd : s \in ToSet(servers[p])}]
    /\ servers' = [servers EXCEPT ![p] = <<>>]
    /\ UNCHANGED <<order, adds, forgot>>

Next ==
    \E p \in Procs :
        \/ \E s \in Idents : add_server(p, s) \/ add_tcp_server_refused(p, s)
        \/ add_fails(p)
        \/ nmdb_init(p) \/ nmdb_free(p)

Spec == Init /\ [][Next]_vars

-----------------------------------------------------------------------------
(* Selecting one. *)

(* What the loop adds up, by the bytes left: buf advances by one byte and  *)
(* bsize falls by two, so that the pairs overlap.                          *)
sum_of(o, key) ==
    LET n == Len(key)
        sum[i \in 0..n \div 2] ==
            IF i = 0 THEN 0
            ELSE (sum[i - 1] + as_read(o, <<key[i], key[i + 1]>>)) % Long
    IN  (sum[n \div 2] + IF n % 2 = 1 THEN key[n \div 2 + 1] ELSE 0) % Long

(* Mutant: the carries are added once. *)
fold_once(sum) == (sum % Word) + (sum \div Word)

(* while (sum >> 16) sum = (sum & 0xffff) + (sum >> 16); *)
fold(sum) ==
    LET carried[s \in 0..Long - 1] ==
            IF s < Word THEN s ELSE carried[(s % Word) + (s \div Word)]
    IN  carried[sum]

(* ~sum *)
checksum(o, key) == Long - 1 - fold(sum_of(o, key))

(* The place in the array, from 1; 0 for NULL. *)
select_srv(p, key) ==
    IF servers[p] = <<>> THEN 0
    ELSE 1 + (checksum(order[p], key) % Len(servers[p]))

-----------------------------------------------------------------------------
ident(s) == [type |-> s.type, addr |-> s.addr, port |-> s.port]
pool(p) == [i \in DOMAIN servers[p] |-> ident(servers[p][i])]

(* How often each server is in the pool. *)
given(p) == [s \in Idents |-> Cardinality({i \in DOMAIN servers[p] : pool(p)[i] = s})]

(* "keep the list sorted by port, so we can do a reliable selection"       *)
(* (tcp.c, udp.c, tipc.c, sctp.c): two processes on machines of one byte   *)
(* order that were given the same servers, in any order and with any       *)
(* failed attempts in between, take the same server for every key.         *)
AgreeOnServers ==
    \A p, q \in Procs :
        (order[p] = order[q] /\ servers[p] # <<>>
            /\ given(p) = given(q))
        => \A k \in Keys : pool(p)[select_srv(p, k)] = pool(q)[select_srv(q, k)]

(* Each server has a socket of its own that is open, and no other socket   *)
(* is: a failed nmdb_add_*_server and nmdb_free leave nothing behind,      *)
(* except after the realloc in add_tcp_server_addr's error_exit failed.    *)
NoDescriptorLost ==
    \A p \in Procs :
        LET fds == {s.fd : s \in ToSet(servers[p])}
        IN  /\ Cardinality(fds) = Len(servers[p])
            /\ fds \subseteq open[p]
            /\ fds # open[p] => forgot[p]

(* The sum the comment at checksum refers to, of the words that are read:  *)
(* 0 only for nothing but zeros, otherwise modulo Word - 1.                *)
ones_complement_sum(n) == IF n = 0 THEN 0 ELSE ((n - 1) % (Word - 1)) + 1

(* checksum folds the carries until none is left: the selected place is    *)
(* that of the complement of the one's complement sum ("See RFC 1071").    *)
SelectsByOnesComplement ==
    \A p \in Procs : servers[p] # <<>> =>
        \A k \in Keys :
            select_srv(p, k) =
                1 + ((Long - 1 - ones_complement_sum(sum_of(order[p], k)))
                        % Len(servers[p]))

=============================================================================
