--------------------------- MODULE MCServidorSock ---------------------------
(***************************************************************************)
(* Small instances of ServidorSock for TLC.  All numbers that travel in    *)
(* one call differ, so that lines read in another order show.              *)
(***************************************************************************)
EXTENDS ServidorSock, TLC

CONSTANTS c1, c2

\* The operations are shared out between the two slots, which are alike; the
\* lines of set_value are those of modify_value, those of delete_key of exist.
CallsOfTwo ==
  c1 :> {"get_value", "modify_value"} @@ c2 :> {"destroy", "exist"}
CallsOfOne == c1 :> {Op[n] : n \in DOMAIN Op}

\* A vector of MaxVec numbers, and a point.
FullVector == {<<3, 4>>}
OnePoint == {<<-8, 6>>}

\* A value1 in one line; also one in two, of which the second is taken for an
\* N_value2.
Text == {<<5>>}
TextAndSplit == {<<5>>, <<5, 9>>}

\* What a get_value that fails may leave: N_value2 below 0, or above MaxVec.
StrayCounts ==
  {[v1 |-> <<0>>, n |-> -1, vec |-> <<>>, x |-> 0, y |-> 0],
   [v1 |-> <<0>>, n |-> 3, vec |-> <<0, 0, 0>>, x |-> 0, y |-> 0]}
=============================================================================
