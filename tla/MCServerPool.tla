---------------------------- MODULE MCServerPool ----------------------------
(* Servers that differ in one respect each, and keys with and without      *)
(* carries; a byte has two bits.                                           *)
EXTENDS ServerPool

srv(t, a, b) == [type |-> t, addr |-> a, port |-> b]

SomeIdents ==
    {srv(TIPC_CONN, <<0, 0>>, <<0, 1>>), srv(TIPC_CONN, <<0, 0>>, <<1, 0>>),
     srv(TCP_CONN, <<1, 2>>, <<0, 1>>), srv(TCP_CONN, <<1, 2>>, <<1, 0>>),
     srv(UDP_CONN, <<2, 1>>, <<0, 1>>), srv(UDP_CONN, <<1, 2>>, <<0, 1>>)}

(* In the last two, by byte order, the first fold carries again. *)
SomeKeys == {<<>>, <<1>>, <<0, 2>>, <<2, 1, 3>>, <<3, 3, 3, 3, 3, 3>>,
             <<1, 3, 3, 0, 0>>, <<3, 3, 2, 0, 0>>}

ProcPermutations == Permutations(Procs)

=============================================================================
