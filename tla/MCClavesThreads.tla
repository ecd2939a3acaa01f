--------------------------- MODULE MCClavesThreads ---------------------------
(***************************************************************************)
(* Small instances of ClavesThreads for TLC.                               *)
(***************************************************************************)
EXTENDS ClavesThreads, TLC

CONSTANTS v1, v2

\* v2 has more than six decimals, and v1 is what is left of it.
MCPrinted == [v \in {v1, v2} |-> v1]

MCSymmetry ==
  Permutations(Thread) \cup Permutations(Key) \cup Permutations(Inode)

\* The lines of an inode that no name and no stream refers to are never read.
MCView ==
  <<dir, [i \in Inode |-> IF i \in FreeInode THEN <<>> ELSE content[i]],
    pc, req, fn, rd, wr, buf, ret, acked, before>>
=============================================================================
