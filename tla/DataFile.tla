------------------------------ MODULE DataFile ------------------------------
(***************************************************************************)
(* The contents of data.txt and temp.txt as claves.c reads and writes      *)
(* them: a sequence of lines, one tuple [key, val] per line, where val     *)
(* stands for the whole of <value1, N_value2, V_value2, value3>.  Only     *)
(* operators here, no state.                                               *)
(*                                                                         *)
(* Pick and Without are what SelectSeq computes, written without recursion *)
(* (position n of the result is the n-th smallest position that is kept)   *)
(* so that theorems can be proved about them; MCServidorRpc has TLC        *)
(* compare the two.                                                        *)
(***************************************************************************)
EXTENDS Naturals, Sequences, FiniteSets

\* The keys that some line of s holds: what exist() finds (claves.c, 32-43).
KeysOf(s) == {s[n].key : n \in DOMAIN s}

\* The value that a scan of s for key k stops at: the first line whose key
\* is k, as the while loops of exist and get_value do.
Lookup(s, k) ==
  s[CHOOSE n \in DOMAIN s :
      /\ s[n].key = k
      /\ \A j \in DOMAIN s : j < n => s[j].key # k].val

\* The place of i among the elements of the finite set of numbers P, and its
\* inverse.
Rank(P, i) == Cardinality({j \in P : j <= i})
Nth(P, n) == CHOOSE i \in P : Rank(P, i) = n

\* The lines of s at the positions in P, in the order they had.
Pick(s, P) == [n \in 1..Cardinality(P) |-> s[Nth(P, n)]]

\* The positions that the copying loop of delete_key does not skip.
Kept(s, k) == {n \in DOMAIN s : s[n].key # k}

\* s without the lines of key k, the others in the order they had.
Without(s, k) == Pick(s, Kept(s, k))

\* A buffer flushed at offset 0 of a file that already holds `old` (two
\* streams opened on one file): the new lines replace the first ones, what
\* lies beyond them stays.
Overlay(old, new) == new \o SubSeq(old, Len(new) + 1, Len(old))

\* No key stands on two lines.
Unique(s) ==
  \A i, j \in DOMAIN s : s[i].key = s[j].key => i = j

\* The partial function from keys to values that a file stands for.
TuplesOf(s) == [k \in KeysOf(s) |-> Lookup(s, k)]
=============================================================================
