---------------------------- MODULE MCServidorMq ----------------------------
(***************************************************************************)
(* A small instance of ServidorMq for TLC.                                 *)
(***************************************************************************)
EXTENDS ServidorMq
=============================================================================
