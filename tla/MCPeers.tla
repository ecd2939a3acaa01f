------------------------------- MODULE MCPeers -------------------------------
(***************************************************************************)
(* A small instance of Peers for TLC: two clients that fetch from one      *)
(* another.  Files are not published, and only one of the two has the file.*)
(***************************************************************************)
EXTENDS Peers
=============================================================================
