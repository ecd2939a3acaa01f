----------------------------- MODULE MCDirectory -----------------------------
(***************************************************************************)
(* Small instances of Directory for TLC.                                   *)
(***************************************************************************)
EXTENDS Directory, TLC

MCSymmetry == Permutations(User) \cup Permutations(Thread)

\* The commands that rewrite users.txt.
Exclusive == {"UNREGISTER", "CONNECT", "DISCONNECT"}

\* Who reads the list of contents that the other command renews.
ReadsTheListOf(r, s) ==
  /\ s.op \in {"REGISTER", "DELETE"}
  /\ (r.op = "LIST_CONTENT" /\ r.arg = s.user) \/ (r.op = "DELETE" /\ r.user = s.user)

\* While users.txt is rewritten there is no other command, two deletions would
\* share tmp_content.txt, and nobody may read a list that is being renewed.
\* Two commands of one user name are not excluded: two clients may give it.
Compatible(r, s) ==
  /\ {r.op, s.op} \cap Exclusive = {}
  /\ ~(r.op = "DELETE" /\ s.op = "DELETE")
  /\ ~ReadsTheListOf(r, s) /\ ~ReadsTheListOf(s, r)

\* Any two commands, of two users.
OfTwoUsers(r, s) == r.user # s.user

\* Which inode has which number does not matter, nor a temporary file or an
\* inode that nobody will read: the next fopen truncates them.
Where(i) ==
  IF i = NoInode THEN <<>>
  ELSE IF \E n \in Name : dir[n] = i THEN <<CHOOSE n \in Name : dir[n] = i>>
  ELSE <<content[i], {t \in Thread : me[t].in = i}, {t \in Thread : me[t].out = i}>>

Read(n) ==
  \/ n \notin Temps
  \/ \E t \in Thread : \E step \in {"scan", "flush", "drop", "remove", "rename"} :
       At(t, Rewrites, step) /\ Temp(t) = n

MCView ==
  <<[n \in Name |-> IF Exists(n) /\ Read(n) THEN <<content[dir[n]]>> ELSE <<>>],
    [t \in Thread |-> [me[t] EXCEPT !.in = Where(@), !.out = Where(@)]], crashes, raced>>
=============================================================================
