---------------------------- MODULE MCServidorRpc ----------------------------
(***************************************************************************)
(* Small instances of ServidorRpc for TLC.                                 *)
(***************************************************************************)
EXTENDS ServidorRpc, TLC

CONSTANTS v1, v2, v3

\* v3 has more than six decimals, and v2 is what is left of it.
MCPrinted == [v \in Value |-> IF v = v3 THEN v2 ELSE v]

MCSymmetry ==
  Permutations(Thread) \cup Permutations(Client)
    \cup Permutations(Key) \cup Permutations(Inode)

\* The lines of an inode that no name and no stream refers to are never read.
MCView ==
  <<dir, [i \in Inode |-> IF i \in FreeInode THEN <<>> ELSE content[i]],
    pc, req, fn, rd, wr, buf, ret, m, stage, arg, cur, up, crashes>>

\* Without is SelectSeq with the test of delete_key, on all short files.
ASSUME WithoutIsSelectSeq ==
  \A n \in 0..3 : \A s \in [1..n -> [key : Key, val : {v1, v2}]] : \A k \in Key :
    Without(s, k) = SelectSeq(s, LAMBDA l : l.key # k)
=============================================================================
