------------------------------- MODULE MCTcp -------------------------------
(* Instances of Tcp: lengths of two digits, one digit of version and id. *)
EXTENDS Tcp

(* The shortest and the longest request the server takes, one of another  *)
(* version, one too short and one too long.                               *)
Good == {<<1, 4, 6>>, <<1, 5, 3, 6>>}
AllBodies == Good \cup {<<2, 4, 6>>, <<1, 4>>, <<1, 5, 3, 6, 2>>}
=============================================================================
