-------------------------- MODULE Directory_proofs --------------------------
(***************************************************************************)
(* The directory server, for any number of users, contents, threads and    *)
(* crashes: the types of its files and frames, whatever commands overlap;  *)
(* and, as long as a command that rewrites users.txt has it for itself, no *)
(* user and no content is ever listed twice, but for the lines that two    *)
(* commands at work at the same time have contended for.                   *)
(***************************************************************************)
EXTENDS Directory, DataFile_proofs

Field == {"op", "user", "arg", "todo", "step", "in", "out", "copy", "found", "was", "code", "list"}
MaybeInode == Inode \cup {NoInode}
UserLine == [name : User, addr : Addr \cup {NoAddr}, on : BOOLEAN]
Line == UserLine \cup [name : File]

\* What a command may have left to do.
Todo(op) ==
  CASE op = "REGISTER"     -> {<<"exist", "append", "create">>, <<"append", "create">>, <<"create">>}
    [] op = "UNREGISTER"   -> {<<"unregisterUser", "removeContents">>, <<"removeContents">>}
    [] op = "CONNECT"      -> {<<"exist", "connectUser", "updateUserIPPort">>,
                               <<"connectUser", "updateUserIPPort">>, <<"updateUserIPPort">>}
    [] op = "DISCONNECT"   -> {<<"disconnectUser">>}
    [] op = "PUBLISH"      -> {<<"exist", "exist", "published", "append">>,
                               <<"exist", "published", "append">>, <<"published", "append">>,
                               <<"append">>}
    [] op = "DELETE"       -> {<<"exist", "exist", "deleteContent">>, <<"exist", "deleteContent">>,
                               <<"deleteContent">>}
    [] op = "LIST_CONTENT" -> {<<"exist", "exist", "list">>, <<"exist", "list">>, <<"list">>}
    [] OTHER               -> {<<"list">>}

StepsOf(phase) ==
  CASE phase \in {"exist", "published"}         -> {"open", "scan"}
    [] phase = "append"                         -> {"open", "flush"}
    [] phase \in {"create", "removeContents"}   -> {"open"}
    [] phase = "list"                           -> {"open", "count", "send"}
    [] OTHER -> {"open", "temp", "scan", "flush", "drop", "remove", "rename"}

\* The commands with a phase that changes a file.
Owners ==
  [append |-> {"REGISTER", "PUBLISH"}, published |-> {"PUBLISH"}, create |-> {"REGISTER"},
   removeContents |-> {"UNREGISTER"}, unregisterUser |-> {"UNREGISTER"}, connectUser |-> {"CONNECT"},
   updateUserIPPort |-> {"CONNECT"}, disconnectUser |-> {"DISCONNECT"}, deleteContent |-> {"DELETE"}]

\* The streams that a frame has at its step.
StreamsOK(f) ==
  /\ f.in \in MaybeInode /\ f.out \in MaybeInode
  /\ f.step \in {"temp", "scan", "count", "send"} => f.in # NoInode
  /\ f.step = "flush" => f.out # NoInode
  /\ f.todo # <<>> /\ Head(f.todo) \in Rewrites /\ f.step = "scan" => f.out # NoInode

Frame(f) ==
  /\ DOMAIN f = Field
  /\ f.code \in 0..4
  /\ f.copy \in Seq(Line)
  /\ f.step # "idle" => Asks(f) \in Request
  /\ f.todo = <<>> => f.step \in {"idle", "done"}
  /\ f.todo # <<>> => f.todo \in Todo(f.op) /\ f.step \in StepsOf(Head(f.todo))
  /\ StreamsOK(f)

FilesTyped ==
  /\ dir \in [Name -> MaybeInode]
  /\ content \in [Inode -> Seq(Line)]

Listing == {"users"} \cup User
ListedLine == Listing \X (User \cup File)

TypeInv ==
  /\ FilesTyped
  /\ raced \subseteq ListedLine
  /\ crashes \in 0..MaxCrashes
  /\ DOMAIN me = Thread
  /\ \A t \in Thread : Frame(me[t])

-----------------------------------------------------------------------------
(* Requests, phases and frames.                                            *)

LEMMA RequestIs ==
  ASSUME NEW r \in Request
  PROVE  /\ r = Asks(r)
         /\ r.user \in User
         /\ r.op = "CONNECT" => r.arg \in Addr
         /\ r.op \in {"PUBLISH", "DELETE"} => r.arg \in File
         /\ r.op = "LIST_CONTENT" => r.arg \in User
         /\ r.op \in {"REGISTER", "UNREGISTER", "CONNECT", "DISCONNECT", "PUBLISH", "DELETE",
                      "LIST_CONTENT", "LIST_USERS", "GET_FILE"}
BY DEF Request, D!Request, Asks

\* What is left to do after a phase that is not the last one.
LEMMA TodoIs ==
  ASSUME NEW op, NEW todo \in Todo(op)
  PROVE  /\ todo # <<>>
         /\ Head(todo) \in {"exist", "published", "append", "create", "removeContents", "list"} \cup Rewrites
         /\ Head(todo) \in {"exist", "published", "unregisterUser", "connectUser"}
            \/ (Head(todo) = "append" /\ op = "REGISTER")
              => Tail(todo) # <<>> /\ Tail(todo) \in Todo(op)
         /\ Head(todo) \in DOMAIN Owners => op \in Owners[Head(todo)]
         /\ Tail(todo) # <<>> /\ Head(Tail(todo)) = "append"
              => \/ Head(todo) = "exist" /\ op = "REGISTER"
                 \/ Head(todo) = "published" /\ op = "PUBLISH"
<1>1. CASE op = "REGISTER"
  <2>1. CASE todo = <<"exist", "append", "create">>
    BY <1>1, <2>1 DEF Todo, Rewrites, Owners
  <2>2. CASE todo = <<"append", "create">>
    BY <1>1, <2>2 DEF Todo, Rewrites, Owners
  <2>3. CASE todo = <<"create">>
    BY <1>1, <2>3 DEF Todo, Rewrites, Owners
  <2> QED BY <1>1, <2>1, <2>2, <2>3 DEF Todo
<1>2. CASE op = "UNREGISTER"
  <2>1. CASE todo = <<"unregisterUser", "removeContents">>
    BY <1>2, <2>1 DEF Todo, Rewrites, Owners
  <2>2. CASE todo = <<"removeContents">>
    BY <1>2, <2>2 DEF Todo, Rewrites, Owners
  <2> QED BY <1>2, <2>1, <2>2 DEF Todo
<1>3. CASE op = "CONNECT"
  <2>1. CASE todo = <<"exist", "connectUser", "updateUserIPPort">>
    BY <1>3, <2>1 DEF Todo, Rewrites, Owners
  <2>2. CASE todo = <<"connectUser", "updateUserIPPort">>
    BY <1>3, <2>2 DEF Todo, Rewrites, Owners
  <2>3. CASE todo = <<"updateUserIPPort">>
    BY <1>3, <2>3 DEF Todo, Rewrites, Owners
  <2> QED BY <1>3, <2>1, <2>2, <2>3 DEF Todo
<1>4. CASE op = "DISCONNECT"
  <2>1. todo = <<"disconnectUser">>
    BY <1>4 DEF Todo
  <2> QED BY <1>4, <2>1 DEF Rewrites, Owners
<1>5. CASE op = "PUBLISH"
  <2>1. CASE todo = <<"exist", "exist", "published", "append">>
    BY <1>5, <2>1 DEF Todo, Rewrites, Owners
  <2>2. CASE todo = <<"exist", "published", "append">>
    BY <1>5, <2>2 DEF Todo, Rewrites, Owners
  <2>3. CASE todo = <<"published", "append">>
    BY <1>5, <2>3 DEF Todo, Rewrites, Owners
  <2>4. CASE todo = <<"append">>
    BY <1>5, <2>4 DEF Todo, Rewrites, Owners
  <2> QED BY <1>5, <2>1, <2>2, <2>3, <2>4 DEF Todo
<1>6. CASE op = "DELETE"
  <2>1. CASE todo = <<"exist", "exist", "deleteContent">>
    BY <1>6, <2>1 DEF Todo, Rewrites, Owners
  <2>2. CASE todo = <<"exist", "deleteContent">>
    BY <1>6, <2>2 DEF Todo, Rewrites, Owners
  <2>3. CASE todo = <<"deleteContent">>
    BY <1>6, <2>3 DEF Todo, Rewrites, Owners
  <2> QED BY <1>6, <2>1, <2>2, <2>3 DEF Todo
<1>7. CASE op = "LIST_CONTENT"
  <2>1. CASE todo = <<"exist", "exist", "list">>
    BY <1>7, <2>1 DEF Todo, Rewrites, Owners
  <2>2. CASE todo = <<"exist", "list">>
    BY <1>7, <2>2 DEF Todo, Rewrites, Owners
  <2>3. CASE todo = <<"list">>
    BY <1>7, <2>3 DEF Todo, Rewrites, Owners
  <2> QED BY <1>7, <2>1, <2>2, <2>3 DEF Todo
<1>8. CASE op \notin {"REGISTER", "UNREGISTER", "CONNECT", "DISCONNECT", "PUBLISH", "DELETE",
                      "LIST_CONTENT"}
  BY <1>8 DEF Todo, Rewrites, Owners
<1> QED BY <1>1, <1>2, <1>3, <1>4, <1>5, <1>6, <1>7, <1>8

LEMMA PhasesAre ==
  ASSUME NEW op PROVE Phases(op) \in Todo(op)
BY DEF Phases, Todo

-----------------------------------------------------------------------------
(* The rewritten files.                                                    *)

\* No line of the file n is there twice, but those of R.
Once(lines, n, R) ==
  \A i, j \in DOMAIN lines : lines[i].name = lines[j].name => i = j \/ <<n, lines[i].name>> \in R

LEMMA EmptyIsOnce == \A n, R : Once(<<>>, n, R)
BY DEF Once

LEMMA OnceGrows ==
  ASSUME NEW lines, NEW n, NEW R, NEW S, R \subseteq S, Once(lines, n, R)
  PROVE  Once(lines, n, S)
BY DEF Once

LEMMA LineChanges ==
  ASSUME NEW l \in Line
  PROVE  /\ \A b \in BOOLEAN : [l EXCEPT !.on = b] \in Line /\ [l EXCEPT !.on = b].name = l.name
         /\ \A a \in Addr : /\ [l EXCEPT !.addr = a, !.on = TRUE] \in Line
                            /\ [l EXCEPT !.addr = a, !.on = TRUE].name = l.name
<1>1. CASE l \in UserLine
  BY <1>1 DEF Line, UserLine
<1>2. CASE l \in [name : File]
  <2>1. DOMAIN l = {"name"} /\ l.name \in File
    BY <1>2
  <2>2. \A b : [l EXCEPT !.on = b] = l
    BY <1>2
  <2>3. \A a : [l EXCEPT !.addr = a, !.on = TRUE] = l
    BY <1>2
  <2> QED BY <2>2, <2>3
<1> QED BY <1>1, <1>2 DEF Line

\* A copy in which some lines are changed and keep their names.
LEMMA SameNames ==
  ASSUME NEW lines \in Seq(Line), NEW copy, DOMAIN copy = DOMAIN lines,
         copy = [n \in DOMAIN lines |-> copy[n]],
         \A n \in DOMAIN lines : copy[n] \in Line /\ copy[n].name = lines[n].name
  PROVE  copy \in Seq(Line) /\ \A x, R : Once(lines, x, R) => Once(copy, x, R)
<1>1. DOMAIN lines = 1..Len(lines) /\ Len(lines) \in Nat
  OBVIOUS
<1>2. copy \in Seq(Line)
  BY <1>1
<1>3. \A x, R : Once(lines, x, R) => Once(copy, x, R)
  BY DEF Once
<1> QED BY <1>2, <1>3

\* A copy without the lines of one name.
LEMMA OthersIs ==
  ASSUME NEW lines \in Seq(Line), NEW x
  PROVE  /\ Others(lines, x) \in Seq(Line)
         /\ \A n, R : Once(lines, n, R) => Once(Others(lines, x), n, R)
<1> DEFINE P == {i \in DOMAIN lines : lines[i].name # x}
           w == Others(lines, x)
<1>1. P \in SUBSET DOMAIN lines /\ w = Pick(lines, P)
  BY DEF Others
<1> HIDE DEF P, w
<1>2. /\ w \in Seq(Line)
      /\ \A n \in DOMAIN w : Nth(P, n) \in P /\ w[n] = lines[Nth(P, n)]
      /\ \A m, n \in DOMAIN w : Nth(P, m) = Nth(P, n) => m = n
  BY <1>1, PickLines
<1>3. ASSUME NEW n, NEW R, Once(lines, n, R) PROVE Once(w, n, R)
  BY <1>1, <1>2, <1>3 DEF Once
<1> QED BY <1>2, <1>3 DEF w

\* Which file a phase rewrites, through which one.
TargetOf(f) == IF Head(f.todo) = "deleteContent" THEN f.user ELSE "users"
TempOf(f) == CASE Head(f.todo) = "unregisterUser"   -> "temp"
               [] Head(f.todo) = "updateUserIPPort" -> "users_tmp"
               [] Head(f.todo) = "deleteContent"    -> "tmp_content"
               [] OTHER                             -> "users_temp"

LEMMA RewriteIs ==
  ASSUME NEW t \in Thread, Phase(t) \in Rewrites,
         Phase(t) = "updateUserIPPort" => me[t].arg \in Addr,
         NEW lines \in Seq(Line)
  PROVE  LET r == Rewrite(t, lines)
         IN /\ r.file = TargetOf(me[t]) /\ r.temp = TempOf(me[t]) /\ r.missing \in 0..4
            /\ r.copy \in Seq(Line)
            /\ \A x, R : Once(lines, x, R) => Once(r.copy, x, R)
<1> DEFINE p == Head(me[t].todo)
<1>1. p \in Rewrites /\ p = Phase(t)
  BY DEF Phase
<1>2. CASE p = "unregisterUser"
  <2>1. Rewrite(t, lines) = unregisterUser(t, lines)
    BY <1>1, <1>2 DEF Rewrite
  <2> QED BY <1>2, <2>1, OthersIs DEF unregisterUser, TargetOf, TempOf
<1>3. CASE p = "deleteContent"
  <2>1. Rewrite(t, lines) = deleteContent(t, lines)
    BY <1>1, <1>3 DEF Rewrite
  <2> QED BY <1>3, <2>1, OthersIs DEF deleteContent, TargetOf, TempOf
<1>4. CASE p = "connectUser"
  <2>1. Rewrite(t, lines) = connectUser(t, lines)
    BY <1>1, <1>4 DEF Rewrite
  <2> DEFINE copy == [n \in DOMAIN lines |-> IF lines[n].name = me[t].user
                                              THEN [lines[n] EXCEPT !.on = TRUE] ELSE lines[n]]
  <2>2. connectUser(t, lines).copy = copy
    BY DEF connectUser, Changed
  <2>3. \A n \in DOMAIN lines : copy[n] \in Line /\ copy[n].name = lines[n].name
    <3> TAKE n \in DOMAIN lines
    <3>1. lines[n] \in Line
      OBVIOUS
    <3> DEFINE l == lines[n]
    <3>2. copy[n] = IF l.name = me[t].user THEN [l EXCEPT !.on = TRUE] ELSE l
      OBVIOUS
    <3> HIDE DEF l, copy
    <3>3. [l EXCEPT !.on = TRUE] \in Line /\ [l EXCEPT !.on = TRUE].name = l.name
      BY <3>1, LineChanges DEF l
    <3> QED BY <3>1, <3>2, <3>3 DEF l
  <2>4. copy \in Seq(Line) /\ \A x, R : Once(lines, x, R) => Once(copy, x, R)
    BY <2>3, SameNames
  <2> HIDE DEF copy
  <2> QED BY <1>4, <2>1, <2>2, <2>4 DEF connectUser, TargetOf, TempOf
<1>5. CASE p = "disconnectUser"
  <2>1. Rewrite(t, lines) = disconnectUser(t, lines)
    BY <1>1, <1>5 DEF Rewrite
  <2> DEFINE copy == [n \in DOMAIN lines |-> IF lines[n].name = me[t].user
                                              THEN [lines[n] EXCEPT !.on = FALSE] ELSE lines[n]]
  <2>2. disconnectUser(t, lines).copy = copy
    BY DEF disconnectUser, Changed
  <2>3. \A n \in DOMAIN lines : copy[n] \in Line /\ copy[n].name = lines[n].name
    <3> TAKE n \in DOMAIN lines
    <3>1. lines[n] \in Line
      OBVIOUS
    <3> DEFINE l == lines[n]
    <3>2. copy[n] = IF l.name = me[t].user THEN [l EXCEPT !.on = FALSE] ELSE l
      OBVIOUS
    <3> HIDE DEF l, copy
    <3>3. [l EXCEPT !.on = FALSE] \in Line /\ [l EXCEPT !.on = FALSE].name = l.name
      BY <3>1, LineChanges DEF l
    <3> QED BY <3>1, <3>2, <3>3 DEF l
  <2>4. copy \in Seq(Line) /\ \A x, R : Once(lines, x, R) => Once(copy, x, R)
    BY <2>3, SameNames
  <2> HIDE DEF copy
  <2> QED BY <1>5, <2>1, <2>2, <2>4 DEF disconnectUser, TargetOf, TempOf
<1>6. CASE p = "updateUserIPPort"
  <2>1. Rewrite(t, lines) = updateUserIPPort(t, lines)
    BY <1>1, <1>6 DEF Rewrite
  <2> DEFINE copy == [n \in DOMAIN lines |-> IF lines[n].name = me[t].user
                        THEN [lines[n] EXCEPT !.addr = me[t].arg, !.on = TRUE] ELSE lines[n]]
  <2>2. updateUserIPPort(t, lines).copy = copy
    BY DEF updateUserIPPort, Changed
  <2>3. \A n \in DOMAIN lines : copy[n] \in Line /\ copy[n].name = lines[n].name
    <3> TAKE n \in DOMAIN lines
    <3>1. lines[n] \in Line
      OBVIOUS
    <3> DEFINE l == lines[n]
    <3>2. copy[n] = IF l.name = me[t].user THEN [l EXCEPT !.addr = me[t].arg, !.on = TRUE] ELSE l
      OBVIOUS
    <3> HIDE DEF l, copy
    <3>3. [l EXCEPT !.addr = me[t].arg, !.on = TRUE] \in Line /\ [l EXCEPT !.addr = me[t].arg, !.on = TRUE].name = l.name
      BY <1>1, <1>6, <3>1, LineChanges DEF l
    <3> QED BY <3>1, <3>2, <3>3 DEF l
  <2>4. copy \in Seq(Line) /\ \A x, R : Once(lines, x, R) => Once(copy, x, R)
    BY <2>3, SameNames
  <2> HIDE DEF copy
  <2>5. LET r == Rewrite(t, lines)
        IN r.file = "users" /\ r.temp = "users_tmp" /\ r.missing = 0 /\ r.copy = copy
    BY <2>1, <2>2 DEF updateUserIPPort
  <2>6. TargetOf(me[t]) = "users" /\ TempOf(me[t]) = "users_tmp"
    BY <1>6 DEF TargetOf, TempOf
  <2> QED BY <2>4, <2>5, <2>6
<1> QED BY <1>1, <1>2, <1>3, <1>4, <1>5, <1>6 DEF Rewrites

LEMMA TargetIs ==
  ASSUME NEW t \in Thread, Phase(t) \in Rewrites,
         Phase(t) = "updateUserIPPort" => me[t].arg \in Addr
  PROVE  /\ Target(t) = TargetOf(me[t]) /\ Temp(t) = TempOf(me[t])
         /\ Rewrite(t, <<>>).missing \in 0..4
<1>1. <<>> \in Seq(Line)
  OBVIOUS
<1> QED BY <1>1, RewriteIs DEF Target, Temp

-----------------------------------------------------------------------------
(* There is always an inode for a new file.                                *)

LEMMA ImageIs ==
  ASSUME NEW S, IsFiniteSet(S), NEW T, NEW f \in [S -> T]
  PROVE  LET R == {f[x] : x \in S} IN IsFiniteSet(R) /\ Cardinality(R) <= Cardinality(S)
<1> DEFINE R == {f[x] : x \in S}
<1>1. f \in Surjection(S, R)
  BY DEF Surjection
<1> HIDE DEF R
<1>2. IsFiniteSet(R) /\ Cardinality(R) <= Cardinality(S)
  BY <1>1, FS_Surjection
<1> QED BY <1>2 DEF R

LEMMA NamesAreFinite == IsFiniteSet(Name)
<1>1. IsFiniteSet({"users"}) /\ IsFiniteSet({})
  BY FS_Singleton, FS_EmptySet
<1>2. IsFiniteSet({} \cup {"temp"})
  BY <1>1, FS_AddElement
<1>3. IsFiniteSet({} \cup {"temp"} \cup {"users_temp"})
  BY <1>2, FS_AddElement
<1>4. IsFiniteSet({} \cup {"temp"} \cup {"users_temp"} \cup {"users_tmp"})
  BY <1>3, FS_AddElement
<1>5. IsFiniteSet({} \cup {"temp"} \cup {"users_temp"} \cup {"users_tmp"} \cup {"tmp_content"})
  BY <1>4, FS_AddElement
<1>6. Temps = {} \cup {"temp"} \cup {"users_temp"} \cup {"users_tmp"} \cup {"tmp_content"}
  BY DEF Temps
<1>7. IsFiniteSet({"users"} \cup Temps)
  BY <1>1, <1>5, <1>6, FS_Union
<1> QED BY <1>7, FS_Union, DirectoryAssumption DEF Name

LEMMA FreeInodeIs ==
  ASSUME TypeInv PROVE FreeInode \in Inode /\ ~InUse(FreeInode)
<1> DEFINE A == {dir[n] : n \in Name}
           ins == [t \in Thread |-> me[t].in]
           outs == [t \in Thread |-> me[t].out]
           B == {ins[t] : t \in Thread}
           C == {outs[t] : t \in Thread}
<1>1. ins \in [Thread -> MaybeInode] /\ outs \in [Thread -> MaybeInode] /\ dir \in [Name -> MaybeInode]
  BY DEF TypeInv, FilesTyped, Frame, StreamsOK
<1>2. \A i : InUse(i) => i \in A \cup B \cup C
  BY DEF InUse
<1> HIDE DEF ins, outs
<1>3. IsFiniteSet(A) /\ Cardinality(A) <= Cardinality(Name)
  BY <1>1, NamesAreFinite, ImageIs
<1>4. IsFiniteSet(Thread)
  BY DirectoryAssumption
<1>5. IsFiniteSet(B) /\ Cardinality(B) <= Cardinality(Thread)
  BY <1>1, <1>4, ImageIs
<1>6. IsFiniteSet(C) /\ Cardinality(C) <= Cardinality(Thread)
  BY <1>1, <1>4, ImageIs
<1> HIDE DEF A, B, C
<1>7. Cardinality(A) \in Nat /\ Cardinality(B) \in Nat /\ Cardinality(C) \in Nat
      /\ Cardinality(Name) \in Nat /\ Cardinality(Thread) \in Nat
  BY <1>3, <1>4, <1>5, <1>6, NamesAreFinite, FS_CardinalityType
<1>8. IsFiniteSet(A \cup B) /\ Cardinality(A \cup B) <= Cardinality(A) + Cardinality(B)
  <2>1. /\ IsFiniteSet(A \cup B)
        /\ Cardinality(A \cup B) = Cardinality(A) + Cardinality(B) - Cardinality(A \cap B)
    BY <1>3, <1>5, FS_Union
  <2>2. Cardinality(A \cap B) \in Nat
    BY <1>3, FS_Intersection, FS_CardinalityType
  <2> QED BY <1>7, <2>1, <2>2
<1>9. /\ IsFiniteSet(A \cup B \cup C)
      /\ Cardinality(A \cup B \cup C) <= Cardinality(Name) + 2 * Cardinality(Thread)
  <2>1. /\ IsFiniteSet(A \cup B \cup C)
        /\ Cardinality(A \cup B \cup C)
             = Cardinality(A \cup B) + Cardinality(C) - Cardinality((A \cup B) \cap C)
    BY <1>6, <1>8, FS_Union
  <2>2. Cardinality((A \cup B) \cap C) \in Nat /\ Cardinality(A \cup B) \in Nat
    BY <1>8, FS_Intersection, FS_CardinalityType
  <2> QED BY <1>3, <1>5, <1>6, <1>7, <1>8, <2>1, <2>2
<1>10. \E i \in Inode : i \notin A \cup B \cup C
  <2> SUFFICES ASSUME Inode \subseteq A \cup B \cup C PROVE FALSE
    OBVIOUS
  <2> DEFINE U == A \cup B \cup C
  <2>1. IsFiniteSet(U) /\ Inode \in SUBSET U
    BY <1>9
  <2> HIDE DEF U
  <2>2. IsFiniteSet(Inode) /\ Cardinality(Inode) <= Cardinality(U)
    BY <2>1, FS_Subset
  <2>3. Cardinality(Inode) \in Nat /\ Cardinality(U) \in Nat
    BY <2>1, <2>2, FS_CardinalityType
  <2>4. Cardinality(U) <= Cardinality(Name) + 2 * Cardinality(Thread)
    BY <1>9 DEF U
  <2> QED BY <1>7, <2>2, <2>3, <2>4, DirectoryAssumption
<1>11. \E i \in Inode : ~InUse(i)
  BY <1>2, <1>10
<1> QED BY <1>11 DEF FreeInode

LEMMA OpenedIs ==
  ASSUME TypeInv, NEW n \in Name
  PROVE  Opened(n) \in Inode /\ Opened(n) # NoInode
BY FreeInodeIs, DirectoryAssumption DEF Opened, Exists, TypeInv, FilesTyped, MaybeInode

-----------------------------------------------------------------------------
(* The types.                                                              *)

\* The frame of t is replaced by another one, and it was none of another's.
LEMMA Moves ==
  ASSUME TypeInv, NEW t \in Thread, NEW f, Steps(t, f)
  PROVE  /\ me'[t] = f /\ \A o \in Thread \ {t} : me'[o] = me[o]
         /\ DOMAIN me' = Thread /\ UNCHANGED <<crashes, raced>>
BY DEF TypeInv, Steps

LEMMA KeepsTypes ==
  ASSUME TypeInv, NEW t \in Thread, NEW f, Frame(f), Steps(t, f), FilesTyped'
  PROVE  TypeInv'
BY Moves DEF TypeInv

\* The reply: NoFrame but for the command, the code and what is listed.
LEMMA RepliesIs ==
  ASSUME TypeInv, NEW t \in Thread, ~Idle(t), NEW code \in 0..4, NEW list, Replies(t, code, list)
  PROVE  \E f : /\ Frame(f) /\ Steps(t, f)
                /\ f.step = "done" /\ f.todo = <<>> /\ Asks(f) = Asks(me[t])
<1> DEFINE f == [me[t] EXCEPT !.todo = <<>>, !.step = "done", !.in = NoInode, !.out = NoInode,
                              !.copy = <<>>, !.found = FALSE, !.was = FALSE,
                              !.code = code, !.list = list]
<1>1. Frame(me[t])
  BY DEF TypeInv
<1>2. Steps(t, f)
  BY DEF Replies
<1>3. /\ DOMAIN f = Field /\ f.todo = <<>> /\ f.step = "done" /\ f.in = NoInode /\ f.out = NoInode
      /\ f.copy = <<>> /\ f.code = code /\ Asks(f) = Asks(me[t])
  BY <1>1 DEF Frame, Field, Asks
<1> HIDE DEF f
<1>4. Asks(me[t]) \in Request
  BY <1>1 DEF Frame, Idle
<1>5. <<>> \in Seq(Line)
  OBVIOUS
<1>6. Frame(f)
  BY <1>3, <1>4, <1>5 DEF Frame, StreamsOK, MaybeInode
<1> QED BY <1>2, <1>3, <1>6

LEMMA NextPhaseIs ==
  ASSUME TypeInv, NEW t \in Thread, NextPhase(t), me[t].todo # <<>>,
         \/ Phase(t) \in {"exist", "published", "unregisterUser", "connectUser"}
         \/ Phase(t) = "append" /\ me[t].op = "REGISTER"
  PROVE  \E f : /\ Frame(f) /\ Steps(t, f)
                /\ f.step = "open" /\ f.todo = Tail(me[t].todo) /\ f.todo # <<>> /\ Asks(f) = Asks(me[t])
<1> DEFINE f == [me[t] EXCEPT !.todo = Tail(@), !.step = "open", !.in = NoInode,
                              !.out = NoInode, !.copy = <<>>]
<1>1. Frame(me[t])
  BY DEF TypeInv
<1>2. Steps(t, f)
  BY DEF NextPhase
<1>3. /\ DOMAIN f = Field /\ f.todo = Tail(me[t].todo) /\ f.step = "open" /\ f.in = NoInode
      /\ f.out = NoInode /\ f.copy = <<>> /\ f.code = me[t].code /\ Asks(f) = Asks(me[t])
      /\ f.op = me[t].op
  BY <1>1 DEF Frame, Field, Asks
<1> HIDE DEF f
<1>4. me[t].todo \in Todo(me[t].op) /\ me[t].step # "idle"
  BY <1>1 DEF Frame, StepsOf
<1>5. f.todo # <<>> /\ f.todo \in Todo(f.op)
  BY <1>3, <1>4, TodoIs DEF Phase
<1>6. Asks(f) \in Request
  BY <1>1, <1>3, <1>4 DEF Frame
<1>7. <<>> \in Seq(Line) /\ \A p : "open" \in StepsOf(p)
  BY DEF StepsOf
<1>8. Frame(f)
  BY <1>1, <1>3, <1>5, <1>6, <1>7 DEF Frame, StreamsOK, MaybeInode
<1> QED BY <1>2, <1>3, <1>5, <1>8

\* A frame that is at another step of the same phase.
LEMMA StaysIs ==
  ASSUME TypeInv, NEW t \in Thread, me[t].todo # <<>>,
         NEW f, DOMAIN f = Field, Asks(f) = Asks(me[t]), f.todo = me[t].todo,
         f.code = me[t].code, f.step \in StepsOf(Phase(t)), f.copy \in Seq(Line), StreamsOK(f)
  PROVE  Frame(f)
<1>1. Frame(me[t])
  BY DEF TypeInv
<1>2. me[t].todo \in Todo(me[t].op) /\ me[t].step # "idle" /\ f.op = me[t].op
  BY <1>1 DEF Frame, StepsOf, Asks
<1> QED BY <1>1, <1>2 DEF Frame, Phase

\* What a frame says of its thread's command.
LEMMA CommandIs ==
  ASSUME TypeInv, NEW t \in Thread, me[t].todo # <<>>
  PROVE  /\ ~Idle(t) /\ me[t].todo \in Todo(me[t].op) /\ me[t].step \in StepsOf(Phase(t))
         /\ Asks(me[t]) \in Request /\ me[t].user \in User
         /\ me[t].op = "CONNECT" => me[t].arg \in Addr
         /\ me[t].op = "PUBLISH" => me[t].arg \in File
         /\ me[t].op = "LIST_CONTENT" => me[t].arg \in User
         /\ Phase(t) \in DOMAIN Owners => me[t].op \in Owners[Phase(t)]
         /\ Phase(t) = "updateUserIPPort" => me[t].arg \in Addr
         /\ DOMAIN me[t] = Field /\ me[t].code \in 0..4 /\ me[t].copy \in Seq(Line)
         /\ me[t].in \in MaybeInode /\ me[t].out \in MaybeInode
<1>1. Frame(me[t])
  BY DEF TypeInv
<1>2. me[t].todo \in Todo(me[t].op) /\ me[t].step \in StepsOf(Phase(t)) /\ me[t].step # "idle"
  BY <1>1 DEF Frame, StepsOf, Phase
<1>3. Asks(me[t]) \in Request
  BY <1>1, <1>2 DEF Frame
<1>4. /\ me[t].user \in User
      /\ me[t].op = "CONNECT" => me[t].arg \in Addr
      /\ me[t].op = "PUBLISH" => me[t].arg \in File
      /\ me[t].op = "LIST_CONTENT" => me[t].arg \in User
  BY <1>3, RequestIs DEF Asks
<1>5. Phase(t) \in DOMAIN Owners => me[t].op \in Owners[Phase(t)]
  BY <1>2, TodoIs DEF Phase
<1>6. Phase(t) = "updateUserIPPort" => me[t].arg \in Addr
  BY <1>4, <1>5 DEF Owners
<1> QED BY <1>1, <1>2, <1>3, <1>4, <1>5, <1>6 DEF Idle, Frame, StreamsOK

\* A step of t: to another frame of the same command.
Moved(t) ==
  /\ TypeInv' /\ raced' = raced
  /\ Asks(me'[t]) = Asks(me[t]) /\ me'[t].step # "idle"
  /\ \A o \in Thread \ {t} : me'[o] = me[o]

\* It has replied, is at the next phase, or at another step of this one.
Replied(t) == me'[t].todo = <<>>
Advanced(t) == me'[t].todo = Tail(me[t].todo) /\ me'[t].todo # <<>> /\ me'[t].step = "open"
Stayed(t, step) == me'[t].todo = me[t].todo /\ me'[t].step = step

LEMMA Replying ==
  ASSUME TypeInv, NEW t \in Thread, ~Idle(t), NEW code \in 0..4, NEW list,
         Replies(t, code, list), FilesTyped'
  PROVE  Moved(t) /\ Replied(t)
<1>1. PICK f : /\ Frame(f) /\ Steps(t, f)
               /\ f.step = "done" /\ f.todo = <<>> /\ Asks(f) = Asks(me[t])
  BY RepliesIs
<1> QED BY <1>1, KeepsTypes, Moves DEF Moved, Replied

LEMMA Advancing ==
  ASSUME TypeInv, NEW t \in Thread, NextPhase(t), me[t].todo # <<>>, FilesTyped',
         \/ Phase(t) \in {"exist", "published", "unregisterUser", "connectUser"}
         \/ Phase(t) = "append" /\ me[t].op = "REGISTER"
  PROVE  Moved(t) /\ Advanced(t)
<1>1. PICK f : /\ Frame(f) /\ Steps(t, f) /\ f.step = "open"
               /\ f.todo = Tail(me[t].todo) /\ f.todo # <<>> /\ Asks(f) = Asks(me[t])
  BY NextPhaseIs
<1> QED BY <1>1, KeepsTypes, Moves DEF Moved, Advanced

LEMMA Staying ==
  ASSUME TypeInv, NEW t \in Thread, me[t].todo # <<>>, FilesTyped',
         NEW f, Steps(t, f), DOMAIN f = Field, Asks(f) = Asks(me[t]), f.todo = me[t].todo,
         f.code = me[t].code, f.step \in StepsOf(Phase(t)), f.copy \in Seq(Line), StreamsOK(f)
  PROVE  Moved(t) /\ Stayed(t, f.step) /\ me'[t] = f
<1>1. Frame(f)
  BY StaysIs
<1>2. f.step # "idle"
  BY DEF StepsOf
<1> QED BY <1>1, <1>2, KeepsTypes, Moves DEF Moved, Stayed

LEMMA ReadOnly ==
  ASSUME TypeInv, UNCHANGED fileVars PROVE FilesTyped'
BY DEF TypeInv, FilesTyped, fileVars

-----------------------------------------------------------------------------
(* The actions that read.                                                  *)

\* A thread that goes to another step, with a stream to read from.
LEMMA Reading ==
  ASSUME TypeInv, NEW t \in Thread, me[t].todo # <<>>, FilesTyped', NEW n \in Name, Exists(n),
         NEW step \in {"temp", "scan", "count"} \cap StepsOf(Phase(t)),
         step = "scan" => Phase(t) \notin Rewrites,
         Steps(t, [me[t] EXCEPT !.in = dir[n], !.step = step])
  PROVE  Moved(t) /\ Stayed(t, step) /\ me'[t].in = dir[n]
<1> DEFINE f == [me[t] EXCEPT !.in = dir[n], !.step = step]
<1>1. /\ DOMAIN me[t] = Field /\ me[t].copy \in Seq(Line) /\ me[t].out \in MaybeInode
      /\ dir[n] \in MaybeInode
  BY CommandIs DEF TypeInv, FilesTyped
<1>2. /\ DOMAIN f = Field /\ Asks(f) = Asks(me[t]) /\ f.todo = me[t].todo /\ f.code = me[t].code
      /\ f.step = step /\ f.copy = me[t].copy /\ f.in = dir[n] /\ f.out = me[t].out
  BY <1>1 DEF Field, Asks
<1>3. Steps(t, f)
  OBVIOUS
<1> HIDE DEF f
<1>4. StreamsOK(f)
  BY <1>1, <1>2 DEF StreamsOK, Exists, Phase
<1> QED BY <1>1, <1>2, <1>3, <1>4, Staying

LEMMA ExistAnswersIs ==
  ASSUME TypeInv, NEW t \in Thread, me[t].todo # <<>>, Phase(t) = "exist", FilesTyped',
         NEW yes \in BOOLEAN, ExistAnswers(t, yes)
  PROVE  Moved(t) /\ (Replied(t) \/ (Advanced(t) /\ (me[t].op = "REGISTER" => ~yes)))
<1>1. UnknownUser(t) \in 0..4 /\ ~Idle(t)
  BY CommandIs DEF UnknownUser
<1>2. CASE Replies(t, 1, {}) \/ Replies(t, UnknownUser(t), {})
  BY <1>1, <1>2, Replying
<1>3. CASE NextPhase(t) /\ (me[t].op = "REGISTER" => ~yes)
  BY <1>3, Advancing
<1> QED BY <1>2, <1>3 DEF ExistAnswers

LEMMA ExistOpenIs ==
  ASSUME TypeInv, NEW t \in Thread, ExistOpen(t)
  PROVE  /\ Moved(t) /\ UNCHANGED fileVars /\ me[t].todo # <<>> /\ Phase(t) = "exist"
         /\ \/ Replied(t)
            \/ Advanced(t) /\ (me[t].op = "REGISTER" => ~Exists("users"))
            \/ Stayed(t, "scan") /\ me'[t].in = dir["users"]
<1>1. me[t].todo # <<>> /\ Phase(t) = "exist" /\ UNCHANGED fileVars /\ "users" \in Name
  BY DEF ExistOpen, At, Name
<1>2. FilesTyped'
  BY <1>1, ReadOnly
<1>3. CASE Exists("users")
  <2>1. Steps(t, [me[t] EXCEPT !.in = dir["users"], !.step = "scan"])
    BY <1>3 DEF ExistOpen
  <2>2. "scan" \in {"temp", "scan", "count"} \cap StepsOf(Phase(t)) /\ Phase(t) \notin Rewrites
    BY <1>1 DEF StepsOf, Rewrites
  <2> QED BY <1>1, <1>2, <1>3, <2>1, <2>2, Reading
<1>4. CASE ~Exists("users")
  <2>1. ExistAnswers(t, FALSE)
    BY <1>4 DEF ExistOpen
  <2> QED BY <1>1, <1>2, <1>4, <2>1, ExistAnswersIs
<1> QED BY <1>3, <1>4

LEMMA ExistScanIs ==
  ASSUME TypeInv, NEW t \in Thread, ExistScan(t)
  PROVE  /\ Moved(t) /\ UNCHANGED fileVars /\ At(t, {"exist"}, "scan")
         /\ \/ Replied(t)
            \/ Advanced(t) /\ (me[t].op = "REGISTER" => ~Named(content[me[t].in], me[t].user))
<1>1. me[t].todo # <<>> /\ Phase(t) = "exist" /\ UNCHANGED fileVars /\ At(t, {"exist"}, "scan")
  BY DEF ExistScan, At
<1>2. FilesTyped'
  BY <1>1, ReadOnly
<1>3. Named(content[me[t].in], Asked(t)) \in BOOLEAN /\ (me[t].op = "REGISTER" => Asked(t) = me[t].user)
  BY DEF Named, Asked
<1>4. ExistAnswers(t, Named(content[me[t].in], Asked(t)))
  BY DEF ExistScan
<1> QED BY <1>1, <1>2, <1>3, <1>4, ExistAnswersIs

LEMMA PublishedOpenIs ==
  ASSUME TypeInv, NEW t \in Thread, PublishedOpen(t)
  PROVE  /\ Moved(t) /\ UNCHANGED fileVars /\ me[t].todo # <<>> /\ Phase(t) = "published"
         /\ Replied(t) \/ (Stayed(t, "scan") /\ me'[t].in = dir[me[t].user])
<1>1. me[t].todo # <<>> /\ Phase(t) = "published" /\ UNCHANGED fileVars /\ me[t].user \in Name
  BY CommandIs DEF PublishedOpen, At, Name
<1>2. FilesTyped'
  BY <1>1, ReadOnly
<1>3. CASE Exists(me[t].user)
  <2>1. Steps(t, [me[t] EXCEPT !.in = dir[me[t].user], !.step = "scan"])
    BY <1>3 DEF PublishedOpen
  <2>2. "scan" \in {"temp", "scan", "count"} \cap StepsOf(Phase(t)) /\ Phase(t) \notin Rewrites
    BY <1>1 DEF StepsOf, Rewrites
  <2> QED BY <1>1, <1>2, <1>3, <2>1, <2>2, Reading
<1>4. CASE ~Exists(me[t].user)
  BY <1>1, <1>2, <1>4, CommandIs, Replying DEF PublishedOpen
<1> QED BY <1>3, <1>4

LEMMA PublishedScanIs ==
  ASSUME TypeInv, NEW t \in Thread, PublishedScan(t)
  PROVE  /\ Moved(t) /\ UNCHANGED fileVars /\ At(t, {"published"}, "scan")
         /\ Replied(t) \/ (Advanced(t) /\ ~Named(content[me[t].in], me[t].arg))
<1>1. me[t].todo # <<>> /\ Phase(t) = "published" /\ UNCHANGED fileVars /\ At(t, {"published"}, "scan")
  BY DEF PublishedScan, At
<1>2. FilesTyped' /\ ~Idle(t)
  BY <1>1, ReadOnly, CommandIs
<1>3. CASE Replies(t, 3, {})
  BY <1>1, <1>2, <1>3, Replying
<1>4. CASE NextPhase(t) /\ ~Named(content[me[t].in], me[t].arg)
  BY <1>1, <1>2, <1>4, Advancing
<1> QED BY <1>3, <1>4 DEF PublishedScan

-----------------------------------------------------------------------------
(* What the operations on files change.                                    *)

\* No file has two names.
Distinct == \A m, n \in Name : Exists(m) /\ dir[m] = dir[n] => m = n

\* A step that leaves every other file as it is.
Touches(N) ==
  \A n \in Name \ N : dir'[n] = dir[n] /\ (Exists(n) => content'[dir[n]] = content[dir[n]])

\* A name keeps its file or loses it, or gets a temporary one or a new one: in
\* no case one that another name had and a thread may still write to.
Links ==
  \A n \in Name : \/ dir'[n] \in {dir[n], NoInode}
                  \/ \E m \in Temps : dir'[n] = dir[m]
                  \/ \A o \in Thread : dir'[n] # me[o].out

Keeps(N) == FilesTyped' /\ Links /\ (Distinct => Distinct' /\ Touches(N))

LEMMA ReadOnlyKeeps ==
  ASSUME TypeInv, UNCHANGED fileVars PROVE Keeps({})
BY ReadOnly DEF Keeps, Links, Distinct, Touches, Exists, fileVars

LEMMA OpenKeeps ==
  ASSUME TypeInv, NEW n \in Name, NEW c \in Seq(Line), dir' = [dir EXCEPT ![n] = Opened(n)],
         content' = [content EXCEPT ![Opened(n)] = c]
  PROVE  /\ Keeps({n}) /\ dir'[n] = Opened(n) /\ content'[dir'[n]] = c
         /\ Opened(n) \in Inode /\ Opened(n) # NoInode
<1> DEFINE i == Opened(n)
<1>1. i \in Inode /\ i # NoInode
  BY OpenedIs
<1>2. \A m \in Name : dir[m] = i => m = n \/ (Exists(n) /\ dir[m] = dir[n] /\ Exists(m))
  BY <1>1, FreeInodeIs DEF Opened, InUse, Exists
<1> HIDE DEF i
<1>3. dir \in [Name -> MaybeInode] /\ content \in [Inode -> Seq(Line)]
  BY DEF TypeInv, FilesTyped
<1>4. dir' = [dir EXCEPT ![n] = i] /\ content' = [content EXCEPT ![i] = c]
  BY DEF i
<1>5. FilesTyped'
  BY <1>1, <1>3, <1>4 DEF FilesTyped, MaybeInode
<1>6. ASSUME Distinct PROVE Distinct' /\ Touches({n})
  <2>1. \A m \in Name : dir[m] = i => m = n
    BY <1>2, <1>6 DEF Distinct
  <2>2. \A m \in Name : dir'[m] = IF m = n THEN i ELSE dir[m]
    BY <1>3, <1>4
  <2>3. Distinct'
    BY <1>6, <2>1, <2>2 DEF Distinct, Exists
  <2>4. Touches({n})
    BY <1>3, <1>4, <2>1, <2>2 DEF Touches, Exists, MaybeInode
  <2> QED BY <2>3, <2>4
<1>7. Links
  <2>1. i = dir[n] \/ \A o \in Thread : i # me[o].out
    BY FreeInodeIs DEF i, Opened, InUse
  <2> QED BY <1>3, <1>4, <2>1 DEF Links
<1> QED BY <1>1, <1>3, <1>4, <1>5, <1>6, <1>7 DEF Keeps, i

LEMMA WriteKeeps ==
  ASSUME TypeInv, NEW i \in Inode, NEW c \in Seq(Line), UNCHANGED dir,
         content' = [content EXCEPT ![i] = c]
  PROVE  /\ FilesTyped' /\ content'[i] = c
         /\ \A n \in Name : i = dir[n] => Keeps({n})
         /\ (\A n \in Name : i # dir[n]) => Keeps({})
<1>1. dir \in [Name -> MaybeInode] /\ content \in [Inode -> Seq(Line)]
  BY DEF TypeInv, FilesTyped
<1>2. FilesTyped'
  BY <1>1 DEF FilesTyped
<1>3. ASSUME Distinct, NEW n \in Name, i = dir[n] PROVE Distinct' /\ Touches({n})
  BY <1>1, <1>3 DEF Distinct, Touches, Exists
<1>4. ASSUME Distinct, \A n \in Name : i # dir[n] PROVE Distinct' /\ Touches({})
  BY <1>1, <1>4 DEF Distinct, Touches, Exists
<1>5. Links
  BY DEF Links
<1> QED BY <1>1, <1>2, <1>3, <1>4, <1>5 DEF Keeps

LEMMA RemoveKeeps ==
  ASSUME TypeInv, NEW n \in Name, UNCHANGED content, dir' = [dir EXCEPT ![n] = NoInode]
  PROVE  Keeps({n}) /\ dir'[n] = NoInode
<1>1. dir \in [Name -> MaybeInode] /\ content \in [Inode -> Seq(Line)]
  BY DEF TypeInv, FilesTyped
<1>2. FilesTyped' /\ dir'[n] = NoInode
  BY <1>1 DEF FilesTyped, MaybeInode
<1>3. ASSUME Distinct PROVE Distinct' /\ Touches({n})
  BY <1>1, <1>3 DEF Distinct, Touches, Exists
<1>4. Links
  BY <1>1 DEF Links
<1> QED BY <1>2, <1>3, <1>4 DEF Keeps

LEMMA RenameKeeps ==
  ASSUME TypeInv, NEW m \in Temps, m \in Name, NEW n \in Name, m # n, UNCHANGED content,
         dir' = [dir EXCEPT ![n] = dir[m], ![m] = NoInode]
  PROVE  Keeps({m, n}) /\ dir'[n] = dir[m] /\ dir'[m] = NoInode
<1>1. dir \in [Name -> MaybeInode] /\ content \in [Inode -> Seq(Line)]
  BY DEF TypeInv, FilesTyped
<1>2. FilesTyped' /\ dir'[n] = dir[m] /\ dir'[m] = NoInode
  BY <1>1 DEF FilesTyped, MaybeInode
<1>3. \A x \in Name \ {m, n} : dir'[x] = dir[x]
  BY <1>1
<1>4. ASSUME Distinct PROVE Distinct' /\ Touches({m, n})
  BY <1>2, <1>3, <1>4 DEF Distinct, Touches, Exists
<1>5. Links
  BY <1>2, <1>3 DEF Links
<1> QED BY <1>2, <1>4, <1>5 DEF Keeps

-----------------------------------------------------------------------------
(* The actions that append, and create.                                    *)

AppendsTo(f) == IF f.op = "REGISTER" THEN "users" ELSE f.user
NewName(f) == IF f.op = "REGISTER" THEN f.user ELSE f.arg

LEMMA AppendedIs ==
  ASSUME TypeInv, NEW t \in Thread, me[t].todo # <<>>, Phase(t) = "append"
  PROVE  Appended(t) \in Line /\ Appended(t).name = NewName(me[t]) /\ AppendsTo(me[t]) \in Name
<1>1. /\ me[t].op \in {"REGISTER", "PUBLISH"} /\ me[t].user \in User
      /\ me[t].op = "PUBLISH" => me[t].arg \in File
  BY CommandIs DEF Owners
<1> QED BY <1>1 DEF Appended, NewName, AppendsTo, Line, UserLine, Name

LEMMA AppendOpenIs ==
  ASSUME TypeInv, NEW t \in Thread, AppendOpen(t)
  PROVE  LET n == AppendsTo(me[t])
         IN /\ Moved(t) /\ Keeps({n}) /\ At(t, {"append"}, "open")
            /\ Stayed(t, "flush") /\ me'[t].out = dir'[n] /\ n \in Name
            /\ Exists(n) => dir'[n] = dir[n] /\ content'[dir'[n]] = content[dir[n]]
            /\ ~Exists(n) => content'[dir'[n]] = <<>>
<1> DEFINE n == AppendsTo(me[t])
           c == IF Exists(n) THEN content[Opened(n)] ELSE <<>>
           f == [me[t] EXCEPT !.out = Opened(n), !.step = "flush"]
<1>1. me[t].todo # <<>> /\ Phase(t) = "append" /\ At(t, {"append"}, "open")
  BY DEF AppendOpen, At
<1>2. Appends(n) /\ Steps(t, f)
  BY DEF AppendOpen, AppendsTo
<1>3. n \in Name
  BY <1>1, AppendedIs
<1>4. Opened(n) \in Inode /\ Opened(n) # NoInode
  BY <1>3, OpenedIs
<1>5. c \in Seq(Line) /\ content' = [content EXCEPT ![Opened(n)] = c] /\ dir' = [dir EXCEPT ![n] = Opened(n)]
  BY <1>2, <1>4 DEF Appends, TypeInv, FilesTyped
<1>6. Exists(n) => c = content[dir[n]] /\ Opened(n) = dir[n]
  BY DEF Opened
<1>7. ~Exists(n) => c = <<>>
  OBVIOUS
<1> HIDE DEF c, n
<1>8. Keeps({n}) /\ dir'[n] = Opened(n) /\ content'[dir'[n]] = c
  BY <1>3, <1>5, OpenKeeps
<1>9. DOMAIN me[t] = Field /\ me[t].copy \in Seq(Line) /\ me[t].in \in MaybeInode
  BY <1>1, CommandIs
<1>10. /\ DOMAIN f = Field /\ Asks(f) = Asks(me[t]) /\ f.todo = me[t].todo /\ f.code = me[t].code
       /\ f.step = "flush" /\ f.copy = me[t].copy /\ f.in = me[t].in /\ f.out = Opened(n)
  BY <1>9 DEF Field, Asks
<1> HIDE DEF f
<1>11. StreamsOK(f) /\ f.step \in StepsOf(Phase(t))
  BY <1>1, <1>4, <1>9, <1>10 DEF StreamsOK, MaybeInode, StepsOf, Phase, Rewrites
<1>12. Moved(t) /\ Stayed(t, "flush") /\ me'[t] = f
  BY <1>1, <1>2, <1>8, <1>9, <1>10, <1>11, Staying DEF Keeps
<1> QED BY <1>1, <1>3, <1>6, <1>7, <1>8, <1>10, <1>12 DEF n

LEMMA AppendFlushIs ==
  ASSUME TypeInv, NEW t \in Thread, AppendFlush(t)
  PROVE  /\ Moved(t) /\ At(t, {"append"}, "flush") /\ UNCHANGED dir
         /\ \A n \in Name : me[t].out = dir[n] =>
              /\ Keeps({n}) /\ Exists(n)
              /\ content'[dir[n]] = Append(content[dir[n]], Appended(t))
         /\ (\A n \in Name : me[t].out # dir[n]) => Keeps({})
         /\ IF me[t].op = "REGISTER" THEN Advanced(t) ELSE Replied(t)
<1> DEFINE i == me[t].out
           c == Append(content[i], Appended(t))
<1>1. me[t].todo # <<>> /\ Phase(t) = "append" /\ At(t, {"append"}, "flush") /\ UNCHANGED dir
  BY DEF AppendFlush, At
<1>2. i \in Inode /\ i # NoInode /\ ~Idle(t)
  BY <1>1, CommandIs DEF At, TypeInv, Frame, StreamsOK, MaybeInode
<1>3. c \in Seq(Line) /\ content' = [content EXCEPT ![i] = c]
  BY <1>1, <1>2, AppendedIs DEF AppendFlush, TypeInv, FilesTyped
<1>4. /\ FilesTyped' /\ content'[i] = c /\ \A n \in Name : i = dir[n] => Keeps({n})
      /\ (\A n \in Name : i # dir[n]) => Keeps({})
  BY <1>1, <1>2, <1>3, WriteKeeps
<1> HIDE DEF c, i
<1>5. Moved(t) /\ IF me[t].op = "REGISTER" THEN Advanced(t) ELSE Replied(t)
  <2>1. CASE me[t].op = "REGISTER"
    BY <1>1, <1>4, <2>1, Advancing DEF AppendFlush
  <2>2. CASE me[t].op # "REGISTER"
    BY <1>1, <1>2, <1>4, <2>2, Replying DEF AppendFlush
  <2> QED BY <2>1, <2>2
<1> QED BY <1>1, <1>2, <1>4, <1>5 DEF i, c, Exists

LEMMA CreateIs ==
  ASSUME TypeInv, NEW t \in Thread, Create(t)
  PROVE  /\ Moved(t) /\ Replied(t) /\ Keeps({me[t].user}) /\ me[t].user \in User
         /\ content'[dir'[me[t].user]] = <<>> /\ me[t].todo # <<>> /\ Phase(t) = "create"
         /\ Exists(me[t].user) => dir'[me[t].user] = dir[me[t].user]
<1> DEFINE n == me[t].user
<1>1. me[t].todo # <<>> /\ Phase(t) = "create" /\ n \in User /\ n \in Name /\ ~Idle(t)
  BY CommandIs DEF Create, At, Name
<1>2. <<>> \in Seq(Line) /\ dir' = [dir EXCEPT ![n] = Opened(n)]
      /\ content' = [content EXCEPT ![Opened(n)] = <<>>]
  BY DEF Create, Truncates
<1>3. Keeps({n}) /\ content'[dir'[n]] = <<>> /\ (Exists(n) => dir'[n] = dir[n])
  BY <1>1, <1>2, OpenKeeps DEF Opened
<1>4. Moved(t) /\ Replied(t)
  BY <1>1, <1>3, Replying DEF Create, Keeps
<1> QED BY <1>1, <1>3, <1>4

-----------------------------------------------------------------------------
(* The actions that rewrite a file.                                        *)

LEMMA OverlayIs ==
  ASSUME NEW old \in Seq(Line), NEW copy \in Seq(Line)
  PROVE  Overlay(old, copy) \in Seq(Line) /\ (old = <<>> => Overlay(old, copy) = copy)
<1> DEFINE rest == SubSeq(old, Len(copy) + 1, Len(old))
<1>1. rest \in Seq(Line)
  OBVIOUS
<1>2. old = <<>> => rest = <<>>
  OBVIOUS
<1> HIDE DEF rest
<1>3. copy \o rest \in Seq(Line) /\ (rest = <<>> => copy \o rest = copy)
  BY <1>1
<1> QED BY <1>2, <1>3 DEF Overlay, rest

LEMMA RewritingIs ==
  ASSUME TypeInv, NEW t \in Thread, me[t].todo # <<>>, Phase(t) \in Rewrites
  PROVE  /\ Target(t) = TargetOf(me[t]) /\ Temp(t) = TempOf(me[t]) /\ ~Idle(t)
         /\ Rewrite(t, <<>>).missing \in 0..4
         /\ Target(t) \in Name /\ Target(t) \in {"users", me[t].user} /\ Temp(t) \in Temps \cap Name
         /\ Target(t) # Temp(t) /\ (me[t].op = "DELETE" => Temp(t) = "tmp_content")
         /\ me[t].op \in {"UNREGISTER", "CONNECT", "DISCONNECT", "DELETE"}
         /\ me[t].user \in User
<1>1. Phase(t) = "updateUserIPPort" => me[t].arg \in Addr
  BY CommandIs
<1>2. Target(t) = TargetOf(me[t]) /\ Temp(t) = TempOf(me[t]) /\ Rewrite(t, <<>>).missing \in 0..4
  BY <1>1, TargetIs
<1>3. me[t].op \in Owners[Phase(t)] /\ me[t].user \in User /\ ~Idle(t)
  BY CommandIs DEF Rewrites, Owners
<1>4. me[t].op \in {"UNREGISTER", "CONNECT", "DISCONNECT", "DELETE"}
      /\ (me[t].op = "DELETE" => Phase(t) = "deleteContent")
  BY <1>3 DEF Rewrites, Owners
<1>5. /\ TargetOf(me[t]) \in {"users", me[t].user} /\ TempOf(me[t]) \in Temps
      /\ Phase(t) = "deleteContent" => TempOf(me[t]) = "tmp_content"
  BY DEF TargetOf, TempOf, Phase, Temps
<1>6. me[t].user \notin Temps /\ "users" \notin Temps
  BY <1>3, DirectoryAssumption DEF Temps
<1> QED BY <1>2, <1>3, <1>4, <1>5, <1>6 DEF Name

LEMMA RewriteOpenIs ==
  ASSUME TypeInv, NEW t \in Thread, RewriteOpen(t)
  PROVE  /\ Moved(t) /\ UNCHANGED fileVars /\ me[t].todo # <<>> /\ Phase(t) \in Rewrites
         /\ Replied(t) \/ (Stayed(t, "temp") /\ me'[t].in = dir[TargetOf(me[t])])
<1>1. me[t].todo # <<>> /\ Phase(t) \in Rewrites /\ UNCHANGED fileVars
  BY DEF RewriteOpen, At
<1>2. FilesTyped' /\ Target(t) \in Name /\ ~Idle(t) /\ Rewrite(t, <<>>).missing \in 0..4
      /\ Target(t) = TargetOf(me[t])
  BY <1>1, ReadOnly, RewritingIs
<1>3. CASE Exists(Target(t))
  <2>1. Steps(t, [me[t] EXCEPT !.in = dir[Target(t)], !.step = "temp"])
    BY <1>3 DEF RewriteOpen
  <2>2. "temp" \in {"temp", "scan", "count"} \cap StepsOf(Phase(t))
    BY <1>1 DEF StepsOf, Rewrites
  <2> QED BY <1>1, <1>2, <1>3, <2>1, <2>2, Reading
<1>4. CASE ~Exists(Target(t))
  BY <1>1, <1>2, <1>4, Replying DEF RewriteOpen
<1> QED BY <1>3, <1>4

LEMMA RewriteTempIs ==
  ASSUME TypeInv, NEW t \in Thread, RewriteTemp(t)
  PROVE  LET n == TempOf(me[t])
         IN /\ Moved(t) /\ Keeps({n}) /\ n \in Temps /\ n \in Name
            /\ At(t, Rewrites, "temp") /\ Stayed(t, "scan") /\ me'[t].in = me[t].in
            /\ me'[t].out = dir'[n] /\ content'[dir'[n]] = <<>>
<1> DEFINE n == TempOf(me[t])
           f == [me[t] EXCEPT !.out = Opened(n), !.step = "scan"]
<1>1. me[t].todo # <<>> /\ Phase(t) \in Rewrites /\ At(t, Rewrites, "temp")
  BY DEF RewriteTemp, At
<1>2. Temp(t) = n /\ n \in Temps /\ n \in Name
  BY <1>1, RewritingIs
<1>3. Truncates(n) /\ Steps(t, f)
  BY <1>2 DEF RewriteTemp
<1> HIDE DEF n
<1>4. <<>> \in Seq(Line) /\ dir' = [dir EXCEPT ![n] = Opened(n)]
      /\ content' = [content EXCEPT ![Opened(n)] = <<>>]
  BY <1>3 DEF Truncates
<1>5. Keeps({n}) /\ dir'[n] = Opened(n) /\ content'[dir'[n]] = <<>>
      /\ Opened(n) \in Inode /\ Opened(n) # NoInode
  BY <1>2, <1>4, OpenKeeps
<1>6. DOMAIN me[t] = Field /\ me[t].copy \in Seq(Line) /\ me[t].in \in MaybeInode /\ me[t].in # NoInode
  BY <1>1, CommandIs DEF At, TypeInv, Frame, StreamsOK
<1>7. /\ DOMAIN f = Field /\ Asks(f) = Asks(me[t]) /\ f.todo = me[t].todo /\ f.code = me[t].code
      /\ f.step = "scan" /\ f.copy = me[t].copy /\ f.in = me[t].in /\ f.out = Opened(n)
  BY <1>6 DEF Field, Asks
<1> HIDE DEF f
<1>8. StreamsOK(f) /\ f.step \in StepsOf(Phase(t))
  BY <1>1, <1>5, <1>6, <1>7 DEF StreamsOK, MaybeInode, StepsOf, Rewrites
<1>9. Moved(t) /\ Stayed(t, "scan") /\ me'[t] = f
  BY <1>1, <1>3, <1>5, <1>6, <1>7, <1>8, Staying DEF Keeps
<1> QED BY <1>1, <1>2, <1>5, <1>7, <1>9 DEF n

LEMMA RewriteScanIs ==
  ASSUME TypeInv, NEW t \in Thread, RewriteScan(t)
  PROVE  /\ Moved(t) /\ UNCHANGED fileVars /\ At(t, Rewrites, "scan")
         /\ Stayed(t, "flush") /\ me'[t].out = me[t].out
         /\ \A x, R : Once(content[me[t].in], x, R) => Once(me'[t].copy, x, R)
<1> DEFINE lines == content[me[t].in]
           copy == Rewrite(t, lines).copy
<1>1. me[t].todo # <<>> /\ Phase(t) \in Rewrites /\ UNCHANGED fileVars /\ At(t, Rewrites, "scan")
  BY DEF RewriteScan, At
<1>2. FilesTyped'
  BY <1>1, ReadOnly
<1>3. /\ DOMAIN me[t] = Field /\ me[t].in \in Inode /\ me[t].in # NoInode
      /\ me[t].out \in MaybeInode /\ me[t].out # NoInode
  BY <1>1, CommandIs DEF At, TypeInv, Frame, StreamsOK, MaybeInode, Phase
<1>4. lines \in Seq(Line)
  BY <1>3 DEF TypeInv, FilesTyped
<1>5. Phase(t) = "updateUserIPPort" => me[t].arg \in Addr
  BY <1>1, CommandIs
<1>6. copy \in Seq(Line) /\ \A x, R : Once(lines, x, R) => Once(copy, x, R)
  <2> HIDE DEF lines
  <2> QED BY <1>1, <1>4, <1>5, RewriteIs
<1>7. PICK found, was : Steps(t, [me[t] EXCEPT !.copy = copy, !.found = found, !.step = "flush", !.was = was])
  BY DEF RewriteScan
<1> DEFINE f == [me[t] EXCEPT !.copy = copy, !.found = found, !.step = "flush", !.was = was]
<1> HIDE DEF copy, lines
<1>8. /\ DOMAIN f = Field /\ Asks(f) = Asks(me[t]) /\ f.todo = me[t].todo /\ f.code = me[t].code
      /\ f.step = "flush" /\ f.copy = copy /\ f.in = me[t].in /\ f.out = me[t].out
  BY <1>3 DEF Field, Asks
<1>9. Steps(t, f)
  BY <1>7
<1> HIDE DEF f
<1>10. StreamsOK(f) /\ f.step \in StepsOf(Phase(t))
  BY <1>1, <1>3, <1>8 DEF StreamsOK, MaybeInode, StepsOf, Rewrites
<1>11. Moved(t) /\ Stayed(t, "flush") /\ me'[t] = f
  BY <1>1, <1>2, <1>6, <1>8, <1>9, <1>10, Staying
<1> QED BY <1>1, <1>6, <1>8, <1>11 DEF lines

LEMMA RewriteFlushIs ==
  ASSUME TypeInv, NEW t \in Thread, RewriteFlush(t)
  PROVE  /\ Moved(t) /\ At(t, Rewrites, "flush") /\ UNCHANGED dir
         /\ Stayed(t, "drop") \/ Stayed(t, "remove")
         /\ \A n \in Name : me[t].out = dir[n] =>
              /\ Keeps({n}) /\ Exists(n)
              /\ content[dir[n]] = <<>> => content'[dir[n]] = me[t].copy
<1> DEFINE i == me[t].out
           c == Overlay(content[i], me[t].copy)
           step == IF Phase(t) \in {"connectUser", "disconnectUser"} /\ ~me[t].found THEN "drop" ELSE "remove"
           f == [me[t] EXCEPT !.in = NoInode, !.out = NoInode, !.copy = <<>>, !.step = step]
<1>1. me[t].todo # <<>> /\ Phase(t) \in Rewrites /\ At(t, Rewrites, "flush") /\ UNCHANGED dir
  BY DEF RewriteFlush, At
<1>2. DOMAIN me[t] = Field /\ me[t].copy \in Seq(Line) /\ i \in Inode /\ i # NoInode
  BY <1>1, CommandIs DEF At, TypeInv, Frame, StreamsOK, MaybeInode
<1>3. content[i] \in Seq(Line)
  BY <1>2 DEF TypeInv, FilesTyped
<1>4. c \in Seq(Line) /\ (content[i] = <<>> => c = me[t].copy)
  BY <1>2, <1>3, OverlayIs
<1>5. content' = [content EXCEPT ![i] = c] /\ Steps(t, f)
  BY DEF RewriteFlush
<1>6. FilesTyped' /\ content'[i] = c /\ \A n \in Name : i = dir[n] => Keeps({n})
  BY <1>1, <1>2, <1>4, <1>5, WriteKeeps
<1>7. step \in {"drop", "remove"}
  OBVIOUS
<1> HIDE DEF c, i, step
<1>8. /\ DOMAIN f = Field /\ Asks(f) = Asks(me[t]) /\ f.todo = me[t].todo /\ f.code = me[t].code
      /\ f.step = step /\ f.copy = <<>> /\ f.in = NoInode /\ f.out = NoInode
  BY <1>2 DEF Field, Asks
<1> HIDE DEF f
<1>9. StreamsOK(f) /\ f.step \in StepsOf(Phase(t)) /\ f.copy \in Seq(Line)
  BY <1>1, <1>7, <1>8 DEF StreamsOK, MaybeInode, StepsOf, Rewrites
<1>10. Moved(t) /\ Stayed(t, step) /\ me'[t] = f
  BY <1>1, <1>2, <1>5, <1>6, <1>8, <1>9, Staying
<1> QED BY <1>1, <1>2, <1>4, <1>6, <1>7, <1>10 DEF i, Exists

LEMMA RewriteDropIs ==
  ASSUME TypeInv, NEW t \in Thread, RewriteDrop(t)
  PROVE  /\ Moved(t) /\ Replied(t) /\ me[t].todo # <<>> /\ Phase(t) \in Rewrites
         /\ Keeps({TempOf(me[t])}) /\ TempOf(me[t]) \in Temps
<1>1. me[t].todo # <<>> /\ Phase(t) \in Rewrites
  BY DEF RewriteDrop, At
<1>2. /\ TempOf(me[t]) = Temp(t) /\ Temp(t) \in Temps /\ Temp(t) \in Name
      /\ ~Idle(t) /\ Rewrite(t, <<>>).missing \in 0..4
  BY <1>1, RewritingIs
<1>3. Keeps({Temp(t)})
  BY <1>2, RemoveKeeps DEF RewriteDrop
<1>4. Moved(t) /\ Replied(t)
  BY <1>2, <1>3, Replying DEF RewriteDrop, Keeps
<1> QED BY <1>1, <1>2, <1>3, <1>4

LEMMA RewriteRemoveIs ==
  ASSUME TypeInv, NEW t \in Thread, RewriteRemove(t)
  PROVE  LET n == TargetOf(me[t])
         IN /\ Moved(t) /\ At(t, Rewrites, "remove") /\ Stayed(t, "rename")
            /\ Keeps({n}) /\ n \in {"users", me[t].user} /\ dir'[n] = NoInode
<1> DEFINE f == [me[t] EXCEPT !.step = "rename"]
           n == TargetOf(me[t])
<1>1. me[t].todo # <<>> /\ Phase(t) \in Rewrites /\ At(t, Rewrites, "remove")
  BY DEF RewriteRemove, At
<1>2. n = Target(t) /\ n \in Name /\ n \in {"users", me[t].user}
  BY <1>1, RewritingIs
<1>3. Keeps({n}) /\ dir'[n] = NoInode
  BY <1>2, RemoveKeeps DEF RewriteRemove
<1>4. /\ DOMAIN me[t] = Field /\ me[t].copy \in Seq(Line)
      /\ me[t].in \in MaybeInode /\ me[t].out \in MaybeInode
  BY <1>1, CommandIs
<1>5. /\ DOMAIN f = Field /\ Asks(f) = Asks(me[t]) /\ f.todo = me[t].todo /\ f.code = me[t].code
      /\ f.step = "rename" /\ f.copy = me[t].copy /\ f.in = me[t].in /\ f.out = me[t].out
  BY <1>4 DEF Field, Asks
<1>6. Steps(t, f)
  BY DEF RewriteRemove, Goto
<1> HIDE DEF f, n
<1>7. StreamsOK(f) /\ f.step \in StepsOf(Phase(t))
  BY <1>1, <1>4, <1>5 DEF StreamsOK, StepsOf, Rewrites
<1>8. Moved(t) /\ Stayed(t, "rename")
  BY <1>1, <1>3, <1>4, <1>5, <1>6, <1>7, Staying DEF Keeps
<1> QED BY <1>1, <1>2, <1>3, <1>8 DEF n

LEMMA RewriteRenameIs ==
  ASSUME TypeInv, NEW t \in Thread, RewriteRename(t)
  PROVE  LET m == TempOf(me[t]) n == TargetOf(me[t])
         IN /\ Moved(t) /\ (Replied(t) \/ Advanced(t)) /\ At(t, Rewrites, "rename") /\ UNCHANGED content
            /\ Keeps({m, n}) /\ m \in Temps /\ m \in Name /\ n \in {"users", me[t].user} /\ n \in Name
            /\ Exists(m) => dir'[n] = dir[m]
            /\ ~Exists(m) => UNCHANGED dir
<1> DEFINE n == TargetOf(me[t])
           m == TempOf(me[t])
<1>1. me[t].todo # <<>> /\ Phase(t) \in Rewrites /\ At(t, Rewrites, "rename") /\ UNCHANGED content
  BY DEF RewriteRename, At
<1>2. /\ n = Target(t) /\ n \in Name /\ n \in {"users", me[t].user} /\ ~Idle(t) /\ m # n
      /\ m = Temp(t) /\ m \in Temps /\ m \in Name
  BY <1>1, RewritingIs
<1> HIDE DEF m, n
<1>3. Keeps({m, n}) /\ (Exists(m) => dir'[n] = dir[m]) /\ (~Exists(m) => UNCHANGED dir)
  <2>1. Exists(m) => Keeps({m, n}) /\ dir'[n] = dir[m]
    <3> SUFFICES ASSUME Exists(m) PROVE Keeps({m, n}) /\ dir'[n] = dir[m]
      OBVIOUS
    <3>1. dir' = [dir EXCEPT ![n] = dir[m], ![m] = NoInode]
      BY <1>2 DEF RewriteRename
    <3> QED BY <1>1, <1>2, <3>1, RenameKeeps
  <2>2. ~Exists(m) => Keeps({m, n}) /\ UNCHANGED dir
    <3> SUFFICES ASSUME ~Exists(m) PROVE Keeps({m, n}) /\ UNCHANGED dir
      OBVIOUS
    <3>1. UNCHANGED dir
      BY <1>2 DEF RewriteRename
    <3>2. Keeps({})
      BY <1>1, <3>1, ReadOnlyKeeps DEF fileVars
    <3> QED BY <3>1, <3>2 DEF Keeps, Touches
  <2> QED BY <2>1, <2>2
<1>4. Moved(t) /\ (Replied(t) \/ Advanced(t))
  <2>1. CASE NextPhase(t) /\ Phase(t) \in {"unregisterUser", "connectUser"}
    BY <1>1, <1>3, <2>1, Advancing DEF Keeps
  <2>2. CASE \E code \in 0..4 : Replies(t, code, {})
    BY <1>1, <1>2, <1>3, <2>2, Replying DEF Keeps
  <2>3. Rewritten(t)
    BY DEF RewriteRename
  <2>4. 0 \in 0..4 /\ 2 \in 0..4 /\ 3 \in 0..4
    OBVIOUS
  <2> QED BY <1>1, <2>1, <2>2, <2>3, <2>4 DEF Rewritten, Rewrites
<1> QED BY <1>1, <1>2, <1>3, <1>4 DEF m, n

LEMMA RemoveContentsIs ==
  ASSUME TypeInv, NEW t \in Thread, RemoveContents(t)
  PROVE  /\ Moved(t) /\ Replied(t) /\ me[t].todo # <<>> /\ Phase(t) = "removeContents"
         /\ Keeps({me[t].user}) /\ me[t].user \in User /\ dir'[me[t].user] = NoInode
<1>1. me[t].todo # <<>> /\ Phase(t) = "removeContents" /\ ~Idle(t)
      /\ me[t].user \in User /\ me[t].user \in Name
  BY CommandIs DEF RemoveContents, At, Name
<1>2. Keeps({me[t].user}) /\ dir'[me[t].user] = NoInode
  BY <1>1, RemoveKeeps DEF RemoveContents
<1>3. Moved(t) /\ Replied(t)
  BY <1>1, <1>2, Replying DEF RemoveContents, Keeps
<1> QED BY <1>1, <1>2, <1>3

-----------------------------------------------------------------------------
(* The actions that list, and the beginning and the end of a command.      *)

LEMMA ListOpenIs ==
  ASSUME TypeInv, NEW t \in Thread, ListOpen(t)
  PROVE  /\ Moved(t) /\ UNCHANGED fileVars /\ me[t].todo # <<>> /\ Phase(t) = "list"
         /\ Replied(t) \/ Stayed(t, "count")
<1> DEFINE n == IF me[t].op = "LIST_CONTENT" THEN me[t].arg ELSE "users"
<1>1. me[t].todo # <<>> /\ Phase(t) = "list" /\ UNCHANGED fileVars
  BY DEF ListOpen, At
<1>2. FilesTyped' /\ n \in Name /\ ~Idle(t)
  BY <1>1, ReadOnly, CommandIs DEF Name
<1>3. IF Exists(n) THEN Steps(t, [me[t] EXCEPT !.in = dir[n], !.step = "count"]) ELSE Replies(t, 2, {})
  BY DEF ListOpen
<1> HIDE DEF n
<1>4. CASE Exists(n)
  <2>1. Steps(t, [me[t] EXCEPT !.in = dir[n], !.step = "count"])
    BY <1>3, <1>4
  <2>2. "count" \in {"temp", "scan", "count"} \cap StepsOf(Phase(t))
    BY <1>1 DEF StepsOf
  <2> QED BY <1>1, <1>2, <1>4, <2>1, <2>2, Reading
<1>5. CASE ~Exists(n)
  BY <1>1, <1>2, <1>3, <1>5, Replying
<1> QED BY <1>4, <1>5

LEMMA ListCountIs ==
  ASSUME TypeInv, NEW t \in Thread, ListCount(t)
  PROVE  /\ Moved(t) /\ UNCHANGED fileVars /\ me[t].todo # <<>> /\ Phase(t) = "list"
         /\ Stayed(t, "send")
<1> DEFINE c == content[me[t].in]
           f == [me[t] EXCEPT !.copy = c, !.step = "send"]
<1>1. me[t].todo # <<>> /\ Phase(t) = "list" /\ UNCHANGED fileVars /\ Steps(t, f)
  BY DEF ListCount, At
<1>2. FilesTyped'
  BY <1>1, ReadOnly
<1>3. DOMAIN me[t] = Field /\ me[t].in \in Inode /\ me[t].in # NoInode /\ me[t].out \in MaybeInode
  BY <1>1, CommandIs DEF ListCount, At, TypeInv, Frame, StreamsOK, MaybeInode
<1>4. c \in Seq(Line)
  BY <1>3 DEF TypeInv, FilesTyped
<1> HIDE DEF c
<1>5. /\ DOMAIN f = Field /\ Asks(f) = Asks(me[t]) /\ f.todo = me[t].todo /\ f.code = me[t].code
      /\ f.step = "send" /\ f.copy = c /\ f.in = me[t].in /\ f.out = me[t].out
  BY <1>3 DEF Field, Asks
<1> HIDE DEF f
<1>6. StreamsOK(f) /\ f.step \in StepsOf(Phase(t))
  BY <1>1, <1>3, <1>5 DEF StreamsOK, MaybeInode, StepsOf
<1> QED BY <1>1, <1>2, <1>3, <1>4, <1>5, <1>6, Staying

LEMMA ListSendIs ==
  ASSUME TypeInv, NEW t \in Thread, ListSend(t)
  PROVE  /\ Moved(t) /\ UNCHANGED fileVars /\ me[t].todo # <<>> /\ Phase(t) = "list" /\ Replied(t)
<1>1. me[t].todo # <<>> /\ Phase(t) = "list" /\ UNCHANGED fileVars
  BY DEF ListSend, At
<1> QED BY <1>1, ReadOnly, CommandIs, Replying DEF ListSend

LEMMA NoFrameIs == Frame(NoFrame) /\ NoFrame.todo = <<>> /\ NoFrame.step = "idle"
<1>1. <<>> \in Seq(Line)
  OBVIOUS
<1> QED BY <1>1 DEF NoFrame, Frame, Field, StreamsOK, MaybeInode

\* What two commands contend for are lines of the files.
LEMMA ContendedIs ==
  ASSUME NEW r \in Request, NEW s \in Request
  PROVE  Contended(r, s) \subseteq ListedLine
<1>1. \A q \in Request : Adds(q) \subseteq ListedLine
  BY RequestIs DEF Adds, ListedLine, Listing
<1> QED BY <1>1 DEF Contended

LEMMA BeginIs ==
  ASSUME TypeInv, NEW t \in Thread, NEW r \in Request, Begin(t, r)
  PROVE  /\ TypeInv' /\ UNCHANGED fileVars /\ Asks(me'[t]) = r /\ me'[t].step = "open"
         /\ \A o \in Thread \ {t} : me'[o] = me[o] /\ (~Idle(o) => MayOverlap(r, Asks(me[o])))
         /\ me'[t].todo = Phases(r.op) /\ me'[t].todo # <<>>
         /\ raced \subseteq raced'
         /\ \A o \in Thread : me[o].todo # <<>> => Contended(r, Asks(me[o])) \subseteq raced'
<1> DEFINE f == [NoFrame EXCEPT !.op = r.op, !.user = r.user, !.arg = r.arg,
                                !.todo = Phases(r.op), !.step = "open"]
           C == {Contended(r, Asks(me[o])) : o \in {x \in Thread : me[x].todo # <<>>}}
<1>1. UNCHANGED fileVars /\ UNCHANGED crashes /\ me' = [me EXCEPT ![t] = f] /\ raced' = raced \cup UNION C
  BY DEF Begin
<1>2. \A o \in Thread \ {t} : ~Idle(o) => MayOverlap(r, Asks(me[o]))
  BY DEF Begin
<1>3. /\ DOMAIN f = Field /\ f.op = r.op /\ Asks(f) = [op |-> r.op, user |-> r.user, arg |-> r.arg]
      /\ f.todo = Phases(r.op) /\ f.step = "open" /\ f.in = NoInode /\ f.out = NoInode
      /\ f.copy = <<>> /\ f.code = 0
  BY DEF NoFrame, Field, Asks
<1> HIDE DEF f
<1>4. Asks(f) = r
  BY <1>3, RequestIs DEF Asks
<1>5. f.todo \in Todo(f.op) /\ f.todo # <<>> /\ f.step \in StepsOf(Head(f.todo))
  BY <1>3, PhasesAre, TodoIs DEF StepsOf
<1>6. <<>> \in Seq(Line)
  OBVIOUS
<1>7. Frame(f)
  BY <1>3, <1>4, <1>5, <1>6 DEF Frame, StreamsOK, MaybeInode
<1>8. raced' \subseteq ListedLine
  <2>1. \A o \in Thread : me[o].todo # <<>> => Contended(r, Asks(me[o])) \subseteq ListedLine
    BY CommandIs, ContendedIs
  <2> QED BY <1>1, <2>1 DEF TypeInv
<1>9. /\ me'[t] = f /\ \A o \in Thread \ {t} : me'[o] = me[o]
      /\ DOMAIN me' = Thread
  BY <1>1 DEF TypeInv
<1>10. TypeInv'
  BY <1>1, <1>7, <1>8, <1>9, ReadOnly DEF TypeInv
<1>11. \A o \in Thread : me[o].todo # <<>> => Contended(r, Asks(me[o])) \subseteq raced'
  BY <1>1
<1> QED BY <1>1, <1>2, <1>3, <1>4, <1>5, <1>9, <1>10, <1>11

LEMMA EndIs ==
  ASSUME TypeInv, NEW t \in Thread, End(t)
  PROVE  /\ TypeInv' /\ UNCHANGED fileVars /\ raced' = raced /\ me'[t] = NoFrame
         /\ \A o \in Thread \ {t} : me'[o] = me[o]
<1>1. UNCHANGED fileVars /\ Steps(t, NoFrame)
  BY DEF End
<1> QED BY <1>1, NoFrameIs, ReadOnly, KeepsTypes, Moves

LEMMA CrashIs ==
  ASSUME TypeInv, Crash
  PROVE  TypeInv' /\ UNCHANGED fileVars /\ raced' = raced /\ \A t \in Thread : me'[t] = NoFrame
<1>1. FilesTyped'
  BY ReadOnly DEF Crash
<1>2. crashes' \in 0..MaxCrashes
  BY DirectoryAssumption DEF Crash, TypeInv
<1>3. DOMAIN me' = Thread /\ \A t \in Thread : me'[t] = NoFrame
  BY DEF Crash
<1> QED BY <1>1, <1>2, <1>3, NoFrameIs DEF TypeInv, Crash

LEMMA InitTypeInv == DirInit => TypeInv
<1> SUFFICES ASSUME DirInit PROVE TypeInv
  OBVIOUS
<1>1. <<>> \in Seq(Line)
  OBVIOUS
<1>2. FilesTyped
  BY <1>1 DEF DirInit, FilesTyped, MaybeInode
<1>3. DOMAIN me = Thread /\ \A t \in Thread : me[t] = NoFrame
  BY DEF DirInit
<1>4. crashes \in 0..MaxCrashes /\ raced \subseteq ListedLine
  BY DirectoryAssumption DEF DirInit
<1> QED BY <1>2, <1>3, <1>4, NoFrameIs DEF TypeInv

LEMMA NextTypeInv == TypeInv /\ [DirNext]_vars => TypeInv'
<1> SUFFICES ASSUME TypeInv, [DirNext]_vars PROVE TypeInv'
  OBVIOUS
<1>1. CASE Crash
  BY <1>1, CrashIs
<1>2. ASSUME NEW t \in Thread, NEW r \in Request, Begin(t, r) PROVE TypeInv'
  BY <1>2, BeginIs
<1>3. ASSUME NEW t \in Thread, End(t) PROVE TypeInv'
  BY <1>3, EndIs
<1>4. ASSUME NEW t \in Thread, Step(t) PROVE TypeInv'
  <2>1. CASE ExistOpen(t) \/ ExistScan(t) \/ PublishedOpen(t) \/ PublishedScan(t)
    BY <2>1, ExistOpenIs, ExistScanIs, PublishedOpenIs, PublishedScanIs DEF Moved
  <2>2. CASE AppendOpen(t) \/ AppendFlush(t) \/ Create(t)
    BY <2>2, AppendOpenIs, AppendFlushIs, CreateIs DEF Moved
  <2>3. CASE RewriteOpen(t) \/ RewriteTemp(t) \/ RewriteScan(t) \/ RewriteFlush(t) \/ RewriteDrop(t)
    BY <2>3, RewriteOpenIs, RewriteTempIs, RewriteScanIs, RewriteFlushIs, RewriteDropIs DEF Moved
  <2>4. CASE RewriteRemove(t) \/ RewriteRename(t) \/ RemoveContents(t)
    BY <2>4, RewriteRemoveIs, RewriteRenameIs, RemoveContentsIs DEF Moved
  <2>5. CASE ListOpen(t) \/ ListCount(t) \/ ListSend(t)
    BY <2>5, ListOpenIs, ListCountIs, ListSendIs DEF Moved
  <2> QED BY <1>4, <2>1, <2>2, <2>3, <2>4, <2>5 DEF Step
<1>5. CASE UNCHANGED vars
  BY <1>5 DEF vars, fileVars, TypeInv, FilesTyped
<1> QED BY <1>1, <1>2, <1>3, <1>4, <1>5 DEF DirNext

\* The types are an invariant, whatever commands overlap: every stream that a
\* step reads or writes is open (logic.c looks at what fopen returned before
\* it goes on), every code is one of the protocol's, and a thread has nothing
\* left to do if and only if it is idle or has replied.
THEOREM DirTypeCorrect == DirSpec => []DirTypeOK
<1>1. TypeInv => DirTypeOK
  <2> SUFFICES ASSUME TypeInv PROVE DirTypeOK
    OBVIOUS
  <2>1. /\ dir \in [Name -> Inode \cup {NoInode}] /\ crashes \in 0..MaxCrashes
        /\ raced \subseteq ({"users"} \cup User) \X (User \cup File)
    BY DEF TypeInv, FilesTyped, MaybeInode, ListedLine, Listing
  <2>2. ASSUME NEW t \in Thread
        PROVE  /\ {me[t].in, me[t].out} \subseteq Inode \cup {NoInode}
               /\ me[t].code \in 0..4
               /\ me[t].step \in {"temp", "scan", "count", "send"} => me[t].in # NoInode
               /\ me[t].step = "flush" => me[t].out # NoInode
               /\ me[t].todo = <<>> <=> me[t].step \in {"idle", "done"}
    BY DEF TypeInv, Frame, StreamsOK, MaybeInode, StepsOf
  <2> QED BY <2>1, <2>2 DEF DirTypeOK
<1> QED BY <1>1, InitTypeInv, NextTypeInv, PTL DEF DirSpec

-----------------------------------------------------------------------------
(* No line twice.  A thread that looks for a line and then appends it, or  *)
(* copies a file and then renames the copy, counts on the files staying as *)
(* it has seen them; InTurn is why they do, but for the lines that two     *)
(* commands have contended for.                                            *)

\* Two commands that may be at work at the same time, of one user name too:
\* neither one that rewrites users.txt, and not two deletions, which would
\* share tmp_content.txt.
Apart(r, s) ==
  /\ {r.op, s.op} \cap {"UNREGISTER", "CONNECT", "DISCONNECT"} = {}
  /\ ~(r.op = "DELETE" /\ s.op = "DELETE")

InTurn ==
  \A t, o \in Thread : t # o /\ ~Idle(t) /\ ~Idle(o) =>
    /\ Apart(Asks(me[t]), Asks(me[o]))
    /\ me[t].todo # <<>> /\ me[o].todo # <<>> => Contended(Asks(me[t]), Asks(me[o])) \subseteq raced

FilesOK == Distinct /\ \A n \in Listing : Exists(n) => Once(content[dir[n]], n, raced)

Lacks(n, x) == Exists(n) => ~Named(content[dir[n]], x)

\* What a frame has found and has in its streams is still so.
HoldsScan(f) ==
  /\ Head(f.todo) = "exist" /\ f.step = "scan" => f.in = dir["users"]
  /\ Head(f.todo) = "published" /\ f.step = "scan" /\ <<f.user, f.arg>> \notin raced => f.in = dir[f.user]

Unraced(f) == <<AppendsTo(f), NewName(f)>> \notin raced

\* No other name has the file that is appended to, contended for or not.
HoldsAppend(f) ==
  Head(f.todo) = "append" =>
    /\ Unraced(f) => Lacks(AppendsTo(f), NewName(f))
    /\ f.step = "flush" /\ Unraced(f) => f.out = dir[AppendsTo(f)]
    /\ f.step = "flush" => \A m \in Name \ {AppendsTo(f)} : dir[m] # f.out

HoldsRewrite(f) ==
  Head(f.todo) \in Rewrites =>
    /\ f.step \in {"temp", "scan"} => f.in = dir[TargetOf(f)]
    /\ f.step \in {"scan", "flush"} => f.out = dir[TempOf(f)] /\ content[f.out] = <<>>
    /\ f.step = "flush" => Once(f.copy, TargetOf(f), raced)
    /\ f.step \in {"drop", "remove", "rename"} =>
         Exists(TempOf(f)) /\ Once(content[dir[TempOf(f)]], TargetOf(f), raced)

Holds(f) == f.todo # <<>> => HoldsScan(f) /\ HoldsAppend(f) /\ HoldsRewrite(f)

DirInv == InTurn /\ FilesOK /\ \A t \in Thread : Holds(me[t])

LEMMA AppendNames ==
  ASSUME NEW s \in Seq(Line), NEW l \in Line
  PROVE  /\ \A x : Named(Append(s, l), x) <=> Named(s, x) \/ l.name = x
         /\ \A n, R : /\ Once(s, n, R)
                      /\ ~Named(s, l.name) \/ <<n, l.name>> \in R
                      => Once(Append(s, l), n, R)
<1> DEFINE w == Append(s, l)
<1>1. /\ Len(s) \in Nat /\ DOMAIN s = 1..Len(s) /\ DOMAIN w = 1..(Len(s) + 1)
      /\ w[Len(s) + 1] = l /\ \A n \in 1..Len(s) : w[n] = s[n]
  OBVIOUS
<1> HIDE DEF w
<1>2. ASSUME NEW x PROVE Named(w, x) <=> Named(s, x) \/ l.name = x
  <2>1. Named(s, x) => Named(w, x)
    BY <1>1 DEF Named
  <2>2. l.name = x => Named(w, x)
    <3>1. Len(s) + 1 \in DOMAIN w
      BY <1>1
    <3> QED BY <1>1, <3>1 DEF Named
  <2>3. Named(w, x) => Named(s, x) \/ l.name = x
    BY <1>1 DEF Named
  <2> QED BY <2>1, <2>2, <2>3
<1>3. ASSUME NEW n, NEW R, Once(s, n, R), ~Named(s, l.name) \/ <<n, l.name>> \in R
      PROVE  Once(w, n, R)
  BY <1>1, <1>3 DEF Once, Named
<1> QED BY <1>2, <1>3 DEF w

LEMMA IdleIs ==
  ASSUME TypeInv, NEW t \in Thread, Idle(t) PROVE me[t].todo = <<>>
BY CommandIs

-----------------------------------------------------------------------------
(* The other threads.                                                      *)

\* A file that is there keeps its name.
Stays(n) == Exists(n) => dir'[n] = dir[n]

\* What has to stay for a thread to find the files as it has seen them.
LEMMA Unwatched ==
  ASSUME TypeInv, NEW o \in Thread, me[o].todo # <<>>, Holds(me[o]), me'[o] = me[o],
         raced' = raced, Links, Stays("users"),
         Head(me[o].todo) = "published" /\ <<me[o].user, me[o].arg>> \notin raced => Stays(me[o].user),
         Head(me[o].todo) = "append" /\ Unraced(me[o]) => Stays(AppendsTo(me[o])),
         Head(me[o].todo) = "append" /\ Unraced(me[o]) /\ Lacks(AppendsTo(me[o]), NewName(me[o]))
           => Lacks(AppendsTo(me[o]), NewName(me[o]))',
         Head(me[o].todo) \in Rewrites =>
           /\ Stays(TargetOf(me[o])) /\ Stays(TempOf(me[o]))
           /\ Exists(TempOf(me[o])) => content'[dir[TempOf(me[o])]] = content[dir[TempOf(me[o])]]
  PROVE  Holds(me[o])'
<1> DEFINE f == me[o]
<1>1. f' = f /\ raced' = raced
  OBVIOUS
<1>2. /\ f.step \in {"temp", "scan"} => f.in # NoInode
      /\ f.step = "flush" => f.out # NoInode
      /\ Head(f.todo) \in Rewrites /\ f.step = "scan" => f.out # NoInode
  BY DEF TypeInv, Frame, StreamsOK
<1>3. HoldsScan(f) /\ HoldsAppend(f) /\ HoldsRewrite(f)
  BY DEF Holds
<1>4. HoldsScan(f)'
  BY <1>1, <1>2, <1>3 DEF HoldsScan, Stays, Exists
<1>5. HoldsAppend(f)'
  <2> SUFFICES ASSUME Head(f.todo) = "append" PROVE HoldsAppend(f)'
    BY <1>1 DEF HoldsAppend
  <2> DEFINE n == AppendsTo(f)
  <2>1. /\ AppendsTo(f)' = n /\ NewName(f)' = NewName(f) /\ Unraced(f)' = Unraced(f)
    BY <1>1 DEF AppendsTo, NewName, Unraced
  <2>2. n \in Listing /\ n \notin Temps
    BY CommandIs, DirectoryAssumption DEF AppendsTo, Listing, Temps
  <2>3. f.step = "flush" => \A m \in Name \ {n} : dir'[m] # f.out
    <3> SUFFICES ASSUME f.step = "flush", NEW m \in Name \ {n} PROVE dir'[m] # f.out
      OBVIOUS
    <3>1. \A x \in Name \ {n} : dir[x] # f.out
      BY <1>3 DEF HoldsAppend
    <3>2. f.out # NoInode /\ Temps \subseteq Name \ {n}
      BY <1>2, <2>2 DEF Name
    <3> QED BY <3>1, <3>2 DEF Links
  <2>4. f.step = "flush" /\ Unraced(f) => f.out = dir'[n]
    BY <1>2, <1>3 DEF HoldsAppend, Stays, Exists
  <2>5. Unraced(f) => Lacks(n, NewName(f))'
    BY <1>3 DEF HoldsAppend
  <2> HIDE DEF n
  <2> QED BY <1>1, <2>1, <2>3, <2>4, <2>5 DEF HoldsAppend, n
<1>6. HoldsRewrite(f)'
  <2> SUFFICES ASSUME Head(f.todo) \in Rewrites PROVE HoldsRewrite(f)'
    BY <1>1 DEF HoldsRewrite
  <2>1. TargetOf(f)' = TargetOf(f) /\ TempOf(f)' = TempOf(f)
    BY <1>1 DEF TargetOf, TempOf
  <2> HIDE DEF f
  <2>2. /\ f.step \in {"temp", "scan"} => f.in = dir'[TargetOf(f)]
        /\ f.step \in {"scan", "flush"} => f.out = dir'[TempOf(f)] /\ content'[f.out] = <<>>
    BY <1>2, <1>3 DEF HoldsRewrite, Stays, Exists, f
  <2>3. f.step \in {"drop", "remove", "rename"} =>
          /\ dir'[TempOf(f)] = dir[TempOf(f)] /\ dir[TempOf(f)] # NoInode
          /\ content'[dir[TempOf(f)]] = content[dir[TempOf(f)]]
    BY <1>3 DEF HoldsRewrite, Stays, Exists, f
  <2> QED BY <1>1, <1>3, <2>1, <2>2, <2>3 DEF HoldsRewrite, Exists
<1> QED BY <1>1, <1>4, <1>5, <1>6 DEF Holds

\* The names that only a thread with this command replaces.
Own(f) == {f.user} \cup (IF f.op = "DELETE" THEN {"tmp_content"} ELSE {})

\* Whether a command may replace the files N.
MayReplace(f, N) ==
  \/ f.op \in {"UNREGISTER", "CONNECT", "DISCONNECT"}
  \/ f.op = "DELETE" /\ N \subseteq Own(f)
  \/ N = {}

\* Who is at work beside a command, and what both contend for.
LEMMA Beside ==
  ASSUME TypeInv, DirInv, NEW t \in Thread, me[t].todo # <<>>,
         NEW o \in Thread \ {t}, me[o].todo # <<>>
  PROVE  /\ me[t].op \notin {"UNREGISTER", "CONNECT", "DISCONNECT"}
         /\ me[o].op \notin {"UNREGISTER", "CONNECT", "DISCONNECT"}
         /\ ~(me[t].op = "DELETE" /\ me[o].op = "DELETE")
         /\ Contended(Asks(me[t]), Asks(me[o])) \subseteq raced
         /\ Head(me[o].todo) \in Rewrites => /\ me[o].op = "DELETE" /\ TargetOf(me[o]) = me[o].user
                                             /\ TempOf(me[o]) = "tmp_content"
         /\ Head(me[o].todo) \in {"published", "append"} => me[o].op \in {"REGISTER", "PUBLISH"}
         /\ Head(me[o].todo) = "published" => me[o].op = "PUBLISH"
<1>1. /\ Apart(Asks(me[t]), Asks(me[o]))
      /\ Contended(Asks(me[t]), Asks(me[o])) \subseteq raced
  BY CommandIs DEF DirInv, InTurn
<1>2. /\ me[t].op \notin {"UNREGISTER", "CONNECT", "DISCONNECT"}
      /\ me[o].op \notin {"UNREGISTER", "CONNECT", "DISCONNECT"}
      /\ ~(me[t].op = "DELETE" /\ me[o].op = "DELETE")
  BY <1>1 DEF Apart, Asks
<1>3. Phase(o) \in DOMAIN Owners => me[o].op \in Owners[Phase(o)]
  BY CommandIs
<1>4. Head(me[o].todo) \in Rewrites => Head(me[o].todo) = "deleteContent" /\ me[o].op = "DELETE"
  BY <1>2, <1>3 DEF Phase, Rewrites, Owners
<1>5. /\ Head(me[o].todo) \in {"published", "append"} => me[o].op \in {"REGISTER", "PUBLISH"}
      /\ Head(me[o].todo) = "published" => me[o].op = "PUBLISH"
  BY <1>3 DEF Phase, Owners
<1> QED BY <1>1, <1>2, <1>4, <1>5 DEF TargetOf, TempOf

LEMMA OthersHold ==
  ASSUME TypeInv, DirInv, NEW t \in Thread, me[t].todo # <<>>, NEW N, Touches(N), Links,
         MayReplace(me[t], N), raced' = raced, NEW o \in Thread \ {t}, me'[o] = me[o]
  PROVE  Holds(me[o])'
<1> DEFINE f == me[o]
<1>1. CASE f.todo = <<>>
  BY <1>1 DEF Holds
<1>2. CASE f.todo # <<>>
  <2>1. /\ ~(me[t].op = "DELETE" /\ f.op = "DELETE")
        /\ Contended(Asks(me[t]), Asks(f)) \subseteq raced
        /\ Head(f.todo) \in Rewrites => /\ f.op = "DELETE" /\ TargetOf(f) = f.user
                                        /\ TempOf(f) = "tmp_content"
        /\ Head(f.todo) \in {"published", "append"} => f.op \in {"REGISTER", "PUBLISH"}
        /\ Head(f.todo) = "published" => f.op = "PUBLISH"
        /\ me[t].op \notin {"UNREGISTER", "CONNECT", "DISCONNECT"}
    BY <1>2, Beside
  <2>2. N = {} \/ (me[t].op = "DELETE" /\ N \subseteq {me[t].user, "tmp_content"})
    BY <2>1 DEF MayReplace, Own
  <2>3. /\ me[t].user \in User /\ f.user \in User /\ "users" \notin User /\ "tmp_content" \notin User
        /\ {"users", "tmp_content", f.user} \subseteq Name
    BY <1>2, CommandIs, DirectoryAssumption DEF Temps, Name
  <2>4. \A n \in Name \ N : Stays(n) /\ (Exists(n) => content'[dir[n]] = content[dir[n]])
                            /\ dir'[n] = dir[n]
    BY DEF Touches, Stays
  <2>5. "users" \in Name \ N
    BY <2>2, <2>3
  <2>6. f.op = "PUBLISH" /\ <<f.user, f.arg>> \notin raced => f.user \in Name \ N
    <3>1. ASSUME me[t].op = "DELETE", f.op = "PUBLISH", f.user = me[t].user
          PROVE  <<f.user, f.arg>> \in Contended(Asks(me[t]), Asks(f))
      BY <3>1 DEF Contended, Adds, Renews, Asks
    <3> QED BY <2>1, <2>2, <2>3, <3>1
  <2>7. Head(f.todo) = "append" /\ Unraced(f) => AppendsTo(f) \in Name \ N
    BY <2>1, <2>5, <2>6 DEF Unraced, AppendsTo, NewName
  <2>8. Head(f.todo) = "append" /\ Unraced(f) /\ Lacks(AppendsTo(f), NewName(f))
          => Lacks(AppendsTo(f), NewName(f))'
    <3> SUFFICES ASSUME Head(f.todo) = "append", Unraced(f), Lacks(AppendsTo(f), NewName(f))
                 PROVE  Lacks(AppendsTo(f), NewName(f))'
      OBVIOUS
    <3>1. AppendsTo(f)' = AppendsTo(f) /\ NewName(f)' = NewName(f)
      BY DEF AppendsTo, NewName
    <3>2. dir'[AppendsTo(f)] = dir[AppendsTo(f)]
          /\ (Exists(AppendsTo(f)) => content'[dir[AppendsTo(f)]] = content[dir[AppendsTo(f)]])
      BY <2>4, <2>7
    <3> HIDE DEF f
    <3> QED BY <3>1, <3>2 DEF Lacks, Exists, Named
  <2>9. Head(f.todo) \in Rewrites => {TargetOf(f), TempOf(f)} \subseteq Name \ N
    BY <2>1, <2>2, <2>3
  <2>10. /\ Head(f.todo) = "published" /\ <<f.user, f.arg>> \notin raced => Stays(f.user)
         /\ Head(f.todo) = "append" /\ Unraced(f) => Stays(AppendsTo(f))
         /\ Stays("users")
         /\ Head(f.todo) \in Rewrites =>
              /\ Stays(TargetOf(f)) /\ Stays(TempOf(f))
              /\ Exists(TempOf(f)) => content'[dir[TempOf(f)]] = content[dir[TempOf(f)]]
    BY <2>1, <2>4, <2>5, <2>6, <2>7, <2>9
  <2> QED BY <1>2, <2>8, <2>10, Unwatched DEF DirInv
<1> QED BY <1>1, <1>2

\* A command that appends to a file, or empties it, leaves it where it is, and
\* adds no line but its own.
AppendsAtMost(t, n) ==
  /\ Touches({n}) /\ Links /\ Stays(n)
  /\ \A x : <<n, x>> \notin Adds(Asks(me[t])) /\ (Exists(n) => ~Named(content[dir[n]], x))
              => (dir'[n] # NoInode => ~Named(content'[dir'[n]], x))

LEMMA OthersHoldAppends ==
  ASSUME TypeInv, DirInv, NEW t \in Thread, me[t].todo # <<>>, raced' = raced,
         NEW n \in Listing, AppendsAtMost(t, n), NEW o \in Thread \ {t}, me'[o] = me[o]
  PROVE  Holds(me[o])'
<1> DEFINE f == me[o]
<1>1. CASE f.todo = <<>>
  BY <1>1 DEF Holds
<1>2. CASE f.todo # <<>>
  <2>1. /\ Contended(Asks(me[t]), Asks(f)) \subseteq raced
        /\ Head(f.todo) \in Rewrites => TargetOf(f) = f.user /\ TempOf(f) = "tmp_content"
        /\ Head(f.todo) = "append" => f.op \in {"REGISTER", "PUBLISH"}
    BY <1>2, Beside
  <2>2. f.user \in User /\ "tmp_content" \notin Listing
        /\ {"users", "tmp_content", f.user, AppendsTo(f)} \subseteq Name
    BY <1>2, CommandIs, DirectoryAssumption DEF Temps, Name, Listing, AppendsTo
  <2>3. \A m \in Name \ {n} : dir'[m] = dir[m] /\ (Exists(m) => content'[dir[m]] = content[dir[m]])
    BY DEF AppendsAtMost, Touches
  <2>4. \A m \in Name : Stays(m)
    BY <2>3 DEF AppendsAtMost, Stays
  <2>5. Head(f.todo) = "append" /\ Unraced(f) /\ Lacks(AppendsTo(f), NewName(f))
          => Lacks(AppendsTo(f), NewName(f))'
    <3> SUFFICES ASSUME Head(f.todo) = "append", Unraced(f), Lacks(AppendsTo(f), NewName(f))
                 PROVE  Lacks(AppendsTo(f), NewName(f))'
      OBVIOUS
    <3> DEFINE m == AppendsTo(f)
               x == NewName(f)
    <3>1. AppendsTo(f)' = m /\ NewName(f)' = x
      BY DEF AppendsTo, NewName
    <3>2. Lacks(m, x) /\ m \in Name
      BY <2>2
    <3>3. dir'[m] # NoInode => ~Named(content'[dir'[m]], x)
      <4>1. CASE m # n
        <5>1. dir'[m] = dir[m] /\ (Exists(m) => content'[dir[m]] = content[dir[m]])
          BY <2>3, <3>2, <4>1
        <5> HIDE DEF m, x
        <5> QED BY <3>2, <5>1 DEF Lacks, Exists
      <4>2. CASE m = n
        <5>1. <<m, x>> \in Adds(Asks(f)) /\ <<m, x>> \notin raced
          BY <2>1 DEF Adds, Asks, AppendsTo, NewName, Unraced
        <5>2. <<m, x>> \notin Adds(Asks(me[t]))
          BY <2>1, <5>1 DEF Contended
        <5> HIDE DEF m, x
        <5> QED BY <3>2, <4>2, <5>2 DEF AppendsAtMost, Lacks
      <4> QED BY <4>1, <4>2
    <3> HIDE DEF m, x, f
    <3> QED BY <3>1, <3>3 DEF Lacks, Exists, Named
  <2>6. Head(f.todo) \in Rewrites =>
          /\ Stays(TargetOf(f)) /\ Stays(TempOf(f))
          /\ Exists(TempOf(f)) => content'[dir[TempOf(f)]] = content[dir[TempOf(f)]]
    BY <2>1, <2>2, <2>3, <2>4
  <2> QED BY <1>2, <2>2, <2>4, <2>5, <2>6, Unwatched DEF DirInv, AppendsAtMost
<1> QED BY <1>1, <1>2

LEMMA InTurnStays ==
  ASSUME TypeInv, InTurn, NEW t \in Thread, Moved(t), me[t].todo # <<>>
  PROVE  InTurn'
<1>1. \A o \in Thread : Asks(me[o])' = Asks(me[o]) /\ (Idle(o)' <=> Idle(o))
  BY CommandIs DEF Moved, Idle, Asks
<1>2. \A o \in Thread : (me[o].todo)' # <<>> => me[o].todo # <<>>
  BY DEF Moved
<1>3. raced' = raced
  BY DEF Moved
<1> QED BY <1>1, <1>2, <1>3 DEF InTurn

LEMMA FilesStay ==
  ASSUME FilesOK, NEW N, Keeps(N), raced' = raced,
         \A n \in N \cap Listing : dir'[n] # NoInode => Once(content'[dir'[n]], n, raced)
  PROVE  FilesOK'
<1>1. Distinct' /\ Touches(N)
  BY DEF FilesOK, Keeps
<1>2. ASSUME NEW n \in Listing, dir'[n] # NoInode PROVE Once(content'[dir'[n]], n, raced)
  <2>1. CASE n \in N
    BY <1>2, <2>1
  <2>2. CASE n \notin N
    <3>1. dir'[n] = dir[n] /\ Exists(n) /\ content'[dir[n]] = content[dir[n]]
      BY <1>1, <1>2, <2>2 DEF Touches, Exists, Listing, Name
    <3> QED BY <1>2, <3>1 DEF FilesOK
  <2> QED BY <2>1, <2>2
<1> QED BY <1>1, <1>2 DEF FilesOK, Once, Exists

\* A step of t that replaces files.
LEMMA OwnStep ==
  ASSUME TypeInv, DirInv, NEW t \in Thread, me[t].todo # <<>>, Moved(t), NEW N, Keeps(N),
         MayReplace(me[t], N),
         \A n \in N \cap Listing : dir'[n] # NoInode => Once(content'[dir'[n]], n, raced),
         Holds(me[t])'
  PROVE  DirInv'
<1>1. Touches(N) /\ Links /\ FilesOK /\ InTurn /\ raced' = raced
  BY DEF DirInv, FilesOK, Keeps, Moved
<1>2. FilesOK'
  BY <1>1, FilesStay
<1>3. InTurn'
  BY <1>1, InTurnStays
<1>4. ASSUME NEW o \in Thread \ {t} PROVE Holds(me[o])'
  <2>1. me'[o] = me[o]
    BY DEF Moved
  <2> QED BY <1>1, <2>1, OthersHold
<1> QED BY <1>2, <1>3, <1>4 DEF DirInv

\* A step of t that appends to a file or empties it.
LEMMA AppendStep ==
  ASSUME TypeInv, DirInv, NEW t \in Thread, me[t].todo # <<>>, Moved(t), NEW n \in Listing,
         Keeps({n}), Stays(n),
         \A x : <<n, x>> \notin Adds(Asks(me[t])) /\ (Exists(n) => ~Named(content[dir[n]], x))
                  => (dir'[n] # NoInode => ~Named(content'[dir'[n]], x)),
         dir'[n] # NoInode => Once(content'[dir'[n]], n, raced),
         Holds(me[t])'
  PROVE  DirInv'
<1>1. AppendsAtMost(t, n) /\ FilesOK /\ InTurn /\ raced' = raced
  BY DEF DirInv, FilesOK, Keeps, Moved, AppendsAtMost
<1>2. FilesOK'
  BY <1>1, FilesStay
<1>3. InTurn'
  BY <1>1, InTurnStays
<1>4. ASSUME NEW o \in Thread \ {t} PROVE Holds(me[o])'
  <2>1. me'[o] = me[o]
    BY DEF Moved
  <2> QED BY <1>1, <2>1, OthersHoldAppends
<1> QED BY <1>2, <1>3, <1>4 DEF DirInv

\* A thread that has replied, or begins another phase.
LEMMA Onward ==
  ASSUME TypeInv, NEW t \in Thread, me[t].todo # <<>>, Moved(t), Replied(t) \/ Advanced(t),
         Advanced(t) /\ Phase(t) = "exist" /\ me[t].op = "REGISTER" => Lacks("users", me[t].user)',
         Advanced(t) /\ Phase(t) = "published" /\ <<me[t].user, me[t].arg>> \notin raced
           => Lacks(me[t].user, me[t].arg)'
  PROVE  Holds(me[t])'
<1>1. CASE Replied(t)
  BY <1>1 DEF Replied, Holds
<1>2. CASE Advanced(t)
  <2> DEFINE f == me'[t]
  <2>1. f.todo = Tail(me[t].todo) /\ f.todo # <<>> /\ f.step = "open"
    BY <1>2 DEF Advanced
  <2>2. f.op = me[t].op /\ f.user = me[t].user /\ f.arg = me[t].arg /\ raced' = raced
    BY DEF Moved, Asks
  <2>3. Head(f.todo) = "append" => \/ Phase(t) = "exist" /\ me[t].op = "REGISTER"
                                   \/ Phase(t) = "published" /\ me[t].op = "PUBLISH"
    BY <2>1, CommandIs, TodoIs DEF Phase
  <2>4. Head(f.todo) = "append" /\ Unraced(me[t])' => Lacks(AppendsTo(me[t]), NewName(me[t]))'
    <3>1. CASE Phase(t) = "exist" /\ me[t].op = "REGISTER"
      BY <1>2, <2>2, <3>1 DEF AppendsTo, NewName, Lacks, Named
    <3>2. CASE Phase(t) = "published" /\ me[t].op = "PUBLISH"
      BY <1>2, <2>2, <3>2 DEF AppendsTo, NewName, Lacks, Named, Unraced
    <3> QED BY <2>3, <3>1, <3>2
  <2> QED BY <2>1, <2>4 DEF Holds, HoldsScan, HoldsAppend, HoldsRewrite
<1> QED BY <1>1, <1>2

-----------------------------------------------------------------------------
(* Every action keeps DirInv.                                              *)

\* A thread that only reads.
LEMMA ReadStep ==
  ASSUME TypeInv, DirInv, NEW t \in Thread, me[t].todo # <<>>, Moved(t), UNCHANGED fileVars,
         Holds(me[t])'
  PROVE  DirInv'
<1>1. Keeps({})
  BY ReadOnlyKeeps
<1>2. MayReplace(me[t], {})
  BY DEF MayReplace
<1> QED BY <1>1, <1>2, OwnStep

LEMMA ReadersKeep ==
  ASSUME TypeInv, DirInv, NEW t \in Thread,
         \/ ExistOpen(t) \/ ExistScan(t) \/ PublishedOpen(t) \/ PublishedScan(t)
         \/ RewriteOpen(t) \/ RewriteScan(t) \/ ListOpen(t) \/ ListCount(t) \/ ListSend(t)
  PROVE  DirInv'
<1> DEFINE f == me'[t]
<1>1. CASE ExistOpen(t)
  <2>1. /\ Moved(t) /\ UNCHANGED fileVars /\ me[t].todo # <<>> /\ Phase(t) = "exist"
        /\ \/ Replied(t)
           \/ Advanced(t) /\ (me[t].op = "REGISTER" => ~Exists("users"))
           \/ Stayed(t, "scan") /\ f.in = dir["users"]
    BY <1>1, ExistOpenIs
  <2>2. CASE Stayed(t, "scan") /\ f.in = dir["users"]
    BY <2>1, <2>2, ReadStep DEF Stayed, Holds, HoldsScan, HoldsAppend, HoldsRewrite, Phase, Rewrites, fileVars
  <2>3. CASE Replied(t) \/ (Advanced(t) /\ (me[t].op = "REGISTER" => ~Exists("users")))
    <3>1. Advanced(t) /\ me[t].op = "REGISTER" => Lacks("users", me[t].user)'
      BY <2>1, <2>3 DEF Lacks, Exists, fileVars, Advanced, Replied
    <3> QED BY <2>1, <2>3, <3>1, Onward, ReadStep
  <2> QED BY <2>1, <2>2, <2>3
<1>2. CASE ExistScan(t)
  <2>1. /\ Moved(t) /\ UNCHANGED fileVars /\ me[t].todo # <<>> /\ Phase(t) = "exist"
        /\ me[t].step = "scan"
        /\ \/ Replied(t)
           \/ Advanced(t) /\ (me[t].op = "REGISTER" => ~Named(content[me[t].in], me[t].user))
    BY <1>2, ExistScanIs DEF At
  <2>2. me[t].in = dir["users"]
    BY <2>1 DEF DirInv, Holds, HoldsScan, Phase
  <2>3. Advanced(t) /\ me[t].op = "REGISTER" => Lacks("users", me[t].user)'
    BY <2>1, <2>2 DEF Lacks, Named, fileVars, Advanced, Replied, Moved, Asks
  <2> QED BY <2>1, <2>3, Onward, ReadStep
<1>3. CASE PublishedOpen(t)
  <2>1. /\ Moved(t) /\ UNCHANGED fileVars /\ me[t].todo # <<>> /\ Phase(t) = "published"
        /\ Replied(t) \/ (Stayed(t, "scan") /\ f.in = dir[me[t].user])
    BY <1>3, PublishedOpenIs
  <2>2. CASE Replied(t)
    BY <2>1, <2>2, ReadStep DEF Replied, Holds
  <2>3. CASE Stayed(t, "scan") /\ f.in = dir[me[t].user]
    <3>1. f.user = me[t].user /\ f.todo = me[t].todo /\ f.step = "scan"
      BY <2>1, <2>3 DEF Moved, Asks, Stayed
    <3> QED BY <2>1, <2>3, <3>1, ReadStep DEF Holds, HoldsScan, HoldsAppend, HoldsRewrite, Phase, Rewrites, fileVars
  <2> QED BY <2>1, <2>2, <2>3
<1>4. CASE PublishedScan(t)
  <2>1. /\ Moved(t) /\ UNCHANGED fileVars /\ me[t].todo # <<>> /\ Phase(t) = "published"
        /\ me[t].step = "scan"
        /\ Replied(t) \/ (Advanced(t) /\ ~Named(content[me[t].in], me[t].arg))
    BY <1>4, PublishedScanIs DEF At
  <2>2. <<me[t].user, me[t].arg>> \notin raced => me[t].in = dir[me[t].user]
    BY <2>1 DEF DirInv, Holds, HoldsScan, Phase
  <2>3. Advanced(t) /\ <<me[t].user, me[t].arg>> \notin raced => Lacks(me[t].user, me[t].arg)'
    BY <2>1, <2>2 DEF Lacks, Named, fileVars, Advanced, Replied, Moved, Asks
  <2> QED BY <2>1, <2>3, Onward, ReadStep
<1>5. CASE RewriteOpen(t)
  <2>1. /\ Moved(t) /\ UNCHANGED fileVars /\ me[t].todo # <<>> /\ Phase(t) \in Rewrites
        /\ Replied(t) \/ (Stayed(t, "temp") /\ f.in = dir[TargetOf(me[t])])
    BY <1>5, RewriteOpenIs
  <2>2. CASE Replied(t)
    BY <2>1, <2>2, ReadStep DEF Replied, Holds
  <2>3. CASE Stayed(t, "temp") /\ f.in = dir[TargetOf(me[t])]
    <3>1. f.user = me[t].user /\ f.todo = me[t].todo /\ f.step = "temp" /\ UNCHANGED <<dir, content>>
      BY <2>1, <2>3 DEF Moved, Asks, Stayed, fileVars
    <3>2. TargetOf(f) = TargetOf(me[t])
      BY <3>1 DEF TargetOf
    <3>3. Holds(me[t])'
      BY <2>1, <2>3, <3>1, <3>2 DEF Holds, HoldsScan, HoldsAppend, HoldsRewrite, Phase, Rewrites
    <3> QED BY <2>1, <3>3, ReadStep
  <2> QED BY <2>1, <2>2, <2>3
<1>6. CASE RewriteScan(t)
  <2>1. /\ Moved(t) /\ UNCHANGED <<dir, content>> /\ me[t].todo # <<>> /\ Phase(t) \in Rewrites
        /\ me[t].step = "scan" /\ Stayed(t, "flush") /\ f.out = me[t].out
        /\ \A x, R : Once(content[me[t].in], x, R) => Once(f.copy, x, R)
    BY <1>6, RewriteScanIs DEF At, fileVars
  <2>2. f.user = me[t].user /\ f.todo = me[t].todo /\ f.step = "flush"
    BY <2>1 DEF Moved, Asks, Stayed
  <2>3. TempOf(f) = TempOf(me[t]) /\ TargetOf(f) = TargetOf(me[t]) /\ raced' = raced
    BY <2>1, <2>2 DEF TempOf, TargetOf, Moved
  <2>4. /\ me[t].in = dir[TargetOf(me[t])] /\ me[t].in # NoInode
        /\ me[t].out = dir[TempOf(me[t])] /\ content[me[t].out] = <<>>
    BY <2>1 DEF DirInv, Holds, HoldsRewrite, Phase, TypeInv, Frame, StreamsOK
  <2>5. TargetOf(me[t]) \in Listing
    BY <2>1, RewritingIs DEF Listing
  <2>6. Once(f.copy, TargetOf(me[t]), raced)
    BY <2>1, <2>4, <2>5 DEF DirInv, FilesOK, Exists
  <2>7. Holds(me[t])'
    BY <2>1, <2>2, <2>3, <2>4, <2>6 DEF Holds, HoldsScan, HoldsAppend, HoldsRewrite, Phase, Rewrites
  <2> QED BY <2>1, <2>7, ReadStep DEF fileVars
<1>7. CASE ListOpen(t) \/ ListCount(t) \/ ListSend(t)
  <2>1. /\ Moved(t) /\ UNCHANGED fileVars /\ me[t].todo # <<>> /\ Phase(t) = "list"
        /\ Replied(t) \/ f.todo = me[t].todo
    BY <1>7, ListOpenIs, ListCountIs, ListSendIs DEF Stayed
  <2>2. Holds(me[t])'
    BY <2>1 DEF Replied, Holds, HoldsScan, HoldsAppend, HoldsRewrite, Phase, Rewrites
  <2> QED BY <2>1, <2>2, ReadStep
<1> QED BY <1>1, <1>2, <1>3, <1>4, <1>5, <1>6, <1>7

\* What a command may do to its own files.
LEMMA OwnNames ==
  ASSUME TypeInv, NEW t \in Thread, me[t].todo # <<>>
  PROVE  /\ me[t].user \in User /\ me[t].user \in Name
         /\ Temps \cap Listing = {}
         /\ Phase(t) \in Rewrites =>
              \A N \in SUBSET {TargetOf(me[t]), TempOf(me[t])} : MayReplace(me[t], N)
<1>1. me[t].user \in User
  BY CommandIs
<1>2. Temps \cap Listing = {}
  BY DirectoryAssumption DEF Temps, Listing
<1>3. ASSUME Phase(t) \in Rewrites, me[t].op \notin {"UNREGISTER", "CONNECT", "DISCONNECT"}
      PROVE  me[t].op = "DELETE" /\ {TargetOf(me[t]), TempOf(me[t])} \subseteq Own(me[t])
  <2>1. me[t].op = "DELETE" /\ Phase(t) \in DOMAIN Owners /\ me[t].op \in Owners[Phase(t)]
    BY <1>3, RewritingIs, CommandIs DEF Rewrites, Owners
  <2>2. Phase(t) = "deleteContent"
    BY <1>3, <2>1 DEF Rewrites, Owners
  <2> QED BY <2>1, <2>2 DEF TargetOf, TempOf, Own, Phase
<1> QED BY <1>1, <1>2, <1>3 DEF MayReplace, Name

LEMMA RewritersKeep ==
  ASSUME TypeInv, DirInv, NEW t \in Thread,
         RewriteTemp(t) \/ RewriteFlush(t) \/ RewriteDrop(t) \/ RewriteRemove(t) \/ RewriteRename(t)
  PROVE  DirInv'
<1> DEFINE f == me'[t]
           n == TargetOf(me[t])
           m == TempOf(me[t])
<1>1. me[t].todo # <<>> /\ Phase(t) \in Rewrites /\ Moved(t)
  BY RewriteTempIs, RewriteFlushIs, RewriteDropIs, RewriteRemoveIs, RewriteRenameIs DEF At
<1>2. /\ n \in Name /\ m \in Name /\ m \in Temps /\ n # m /\ n \in Listing /\ m \notin Listing
      /\ MayReplace(me[t], {n}) /\ MayReplace(me[t], {m}) /\ MayReplace(me[t], {n, m})
  <2>1. \A N \in SUBSET {n, m} : MayReplace(me[t], N)
    BY <1>1, OwnNames
  <2>2. n \in Name /\ m \in Name /\ m \in Temps /\ n # m /\ n \in Listing
    BY <1>1, RewritingIs DEF Listing
  <2>3. m \notin Listing
    BY <1>1, <2>2, OwnNames
  <2> HIDE DEF n, m
  <2> QED BY <2>1, <2>2, <2>3
<1>3. HoldsRewrite(me[t]) /\ Distinct
  BY <1>1 DEF DirInv, Holds, FilesOK
<1>4. f.user = me[t].user /\ raced' = raced
  BY <1>1 DEF Moved, Asks
<1>5. f.todo = me[t].todo => TargetOf(f) = n /\ TempOf(f) = m
  BY <1>4 DEF TargetOf, TempOf
<1>6. ASSUME f.todo = me[t].todo, HoldsRewrite(me[t])' PROVE Holds(me[t])'
  BY <1>1, <1>6 DEF Holds, HoldsScan, HoldsAppend, Phase, Rewrites
<1>7. Phase(t) \notin {"exist", "published"}
  BY <1>1 DEF Rewrites
<1>8. CASE RewriteTemp(t)
  <2>1. /\ Keeps({m}) /\ me[t].step = "temp" /\ Stayed(t, "scan") /\ f.in = me[t].in
        /\ f.out = dir'[m] /\ content'[dir'[m]] = <<>>
    BY <1>8, RewriteTempIs DEF At
  <2>2. dir'[n] = dir[n] /\ me[t].in = dir[n]
    BY <1>1, <1>2, <1>3, <2>1 DEF Keeps, Touches, HoldsRewrite, Phase
  <2>3. HoldsRewrite(me[t])'
    BY <1>4, <1>5, <2>1, <2>2 DEF HoldsRewrite, Stayed
  <2>4. Holds(me[t])'
    BY <1>6, <2>1, <2>3 DEF Stayed
  <2> HIDE DEF m, n
  <2> QED BY <1>1, <1>2, <2>1, <2>4, OwnStep
<1>9. CASE RewriteFlush(t)
  <2>1. /\ me[t].step = "flush" /\ UNCHANGED dir /\ (Stayed(t, "drop") \/ Stayed(t, "remove"))
        /\ me[t].out = dir[m] =>
              /\ Keeps({m}) /\ Exists(m)
              /\ content[dir[m]] = <<>> => content'[dir[m]] = me[t].copy
    BY <1>2, <1>9, RewriteFlushIs DEF At
  <2>2. me[t].out = dir[m] /\ content[dir[m]] = <<>> /\ Once(me[t].copy, n, raced)
    BY <1>1, <1>3, <2>1 DEF HoldsRewrite, Phase
  <2>3. HoldsRewrite(me[t])'
    BY <1>4, <1>5, <2>1, <2>2 DEF HoldsRewrite, Stayed, Exists
  <2>4. Holds(me[t])'
    BY <1>6, <2>1, <2>3 DEF Stayed
  <2> HIDE DEF m, n
  <2> QED BY <1>1, <1>2, <2>1, <2>2, <2>4, OwnStep
<1>10. CASE RewriteDrop(t)
  <2>1. Keeps({m}) /\ Replied(t)
    BY <1>10, RewriteDropIs
  <2>2. Holds(me[t])'
    BY <2>1 DEF Replied, Holds
  <2> HIDE DEF m, n
  <2> QED BY <1>1, <1>2, <2>1, <2>2, OwnStep
<1>11. CASE RewriteRemove(t)
  <2>1. me[t].step = "remove" /\ Stayed(t, "rename") /\ Keeps({n}) /\ dir'[n] = NoInode
    BY <1>11, RewriteRemoveIs DEF At
  <2>2. Exists(m) /\ Once(content[dir[m]], n, raced)
    BY <1>1, <1>3, <2>1 DEF HoldsRewrite, Phase
  <2>3. dir'[m] = dir[m] /\ content'[dir[m]] = content[dir[m]]
    BY <1>2, <1>3, <2>1, <2>2 DEF Keeps, Touches
  <2>4. HoldsRewrite(me[t])'
    BY <1>4, <1>5, <2>1, <2>2, <2>3 DEF HoldsRewrite, Stayed, Exists
  <2>5. Holds(me[t])'
    BY <1>6, <2>1, <2>4 DEF Stayed
  <2> HIDE DEF m, n
  <2> QED BY <1>1, <1>2, <2>1, <2>5, OwnStep
<1>12. CASE RewriteRename(t)
  <2>1. /\ me[t].step = "rename" /\ (Replied(t) \/ Advanced(t)) /\ UNCHANGED content
        /\ Keeps({m, n}) /\ (Exists(m) => dir'[n] = dir[m])
    BY <1>12, RewriteRenameIs DEF At
  <2>2. Exists(m) /\ Once(content[dir[m]], n, raced)
    BY <1>1, <1>3, <2>1 DEF HoldsRewrite, Phase
  <2>3. Once(content'[dir'[n]], n, raced)
    BY <2>1, <2>2
  <2>4. Holds(me[t])'
    BY <1>1, <1>7, <2>1, Onward
  <2> HIDE DEF m, n
  <2> QED BY <1>1, <1>2, <2>1, <2>3, <2>4, OwnStep
<1> QED BY <1>8, <1>9, <1>10, <1>11, <1>12

LEMMA RemoverKeeps ==
  ASSUME TypeInv, DirInv, NEW t \in Thread, RemoveContents(t)
  PROVE  DirInv'
<1>1. /\ me[t].todo # <<>> /\ Moved(t) /\ Replied(t) /\ Keeps({me[t].user})
      /\ dir'[me[t].user] = NoInode /\ Phase(t) = "removeContents"
  BY RemoveContentsIs
<1>2. Holds(me[t])'
  BY <1>1 DEF Replied, Holds
<1>3. MayReplace(me[t], {me[t].user})
  BY <1>1, CommandIs DEF MayReplace, Owners
<1> QED BY <1>1, <1>2, <1>3, OwnStep

LEMMA CreatorKeeps ==
  ASSUME TypeInv, DirInv, NEW t \in Thread, Create(t)
  PROVE  DirInv'
<1> DEFINE n == me[t].user
<1>1. /\ me[t].todo # <<>> /\ Moved(t) /\ Replied(t) /\ Keeps({n}) /\ Stays(n)
      /\ content'[dir'[n]] = <<>> /\ n \in Listing
  BY CreateIs DEF Stays, Listing
<1>2. Holds(me[t])'
  BY <1>1 DEF Replied, Holds
<1>3. (\A x : ~Named(<<>>, x)) /\ Once(<<>>, n, raced)
  BY EmptyIsOnce DEF Named
<1> HIDE DEF n
<1>4. (\A x : ~Named(content'[dir'[n]], x)) /\ Once(content'[dir'[n]], n, raced)
  BY <1>1, <1>3
<1> QED BY <1>1, <1>2, <1>4, AppendStep

LEMMA AppendOpenKeeps ==
  ASSUME TypeInv, DirInv, NEW t \in Thread, AppendOpen(t)
  PROVE  DirInv'
<1> DEFINE n == AppendsTo(me[t])
           x == NewName(me[t])
<1>1. me[t].todo # <<>> /\ Phase(t) = "append" /\ me[t].user \in User
  BY CommandIs DEF AppendOpen, At
<1>2. /\ Moved(t) /\ Keeps({n}) /\ Stayed(t, "flush") /\ me'[t].out = dir'[n]
      /\ Exists(n) => dir'[n] = dir[n] /\ content'[dir'[n]] = content[dir[n]]
      /\ ~Exists(n) => content'[dir'[n]] = <<>>
  BY AppendOpenIs
<1>3. n \in Name /\ n \in Listing
  BY <1>1 DEF AppendsTo, Name, Listing
<1>4. HoldsAppend(me[t]) /\ FilesOK
  BY <1>1 DEF DirInv, Holds, Phase
<1>5. AppendsTo(me[t])' = n /\ NewName(me[t])' = x /\ Unraced(me[t])' = Unraced(me[t]) /\ raced' = raced
  BY <1>2 DEF Moved, Asks, AppendsTo, NewName, Unraced
<1>6. (\A y : ~Named(<<>>, y)) /\ Once(<<>>, n, raced)
  BY EmptyIsOnce DEF Named
<1>7. dir'[n] # NoInode
  <2>1. TypeInv' /\ me'[t].step = "flush"
    BY <1>2 DEF Moved, Stayed
  <2>2. me'[t].out # NoInode
    BY <2>1 DEF TypeInv, Frame, StreamsOK
  <2> QED BY <1>2, <2>2
<1>8. Distinct'
  BY <1>2, <1>4 DEF FilesOK, Keeps
<1>9. Unraced(me[t]) => ~Named(content'[dir'[n]], x)
  <2> HIDE DEF x
  <2>1. Unraced(me[t]) => (Exists(n) => ~Named(content[dir[n]], x))
    BY <1>1, <1>4 DEF HoldsAppend, Lacks, Phase, x
  <2> HIDE DEF n
  <2> QED BY <1>2, <1>6, <2>1
<1>10. \A y : (Exists(n) => ~Named(content[dir[n]], y)) => ~Named(content'[dir'[n]], y)
  <2> HIDE DEF n
  <2> QED BY <1>2, <1>6
<1>11. Once(content'[dir'[n]], n, raced)
  <2> HIDE DEF n
  <2> QED BY <1>2, <1>3, <1>4, <1>6 DEF FilesOK
<1>12. \A m \in Name \ {n} : dir'[m] # dir'[n]
  <2> HIDE DEF n
  <2> QED BY <1>3, <1>7, <1>8 DEF Distinct, Exists
<1>13. HoldsAppend(me[t])'
  BY <1>2, <1>5, <1>9, <1>12 DEF HoldsAppend, Lacks, Named
<1>14. Holds(me[t])'
  BY <1>1, <1>2, <1>13 DEF Holds, HoldsScan, HoldsRewrite, Stayed, Phase, Rewrites
<1>15. Stays(n)
  BY <1>2 DEF Stays
<1> HIDE DEF n, x
<1> QED BY <1>1, <1>2, <1>3, <1>10, <1>11, <1>14, <1>15, AppendStep

LEMMA AppendFlushKeeps ==
  ASSUME TypeInv, DirInv, NEW t \in Thread, AppendFlush(t)
  PROVE  DirInv'
<1> DEFINE n == AppendsTo(me[t])
           x == NewName(me[t])
<1>1. me[t].todo # <<>> /\ Phase(t) = "append" /\ me[t].user \in User /\ me[t].step = "flush"
  BY CommandIs DEF AppendFlush, At
<1>2. n \in Name /\ n \in Listing /\ Appended(t) \in Line /\ Appended(t).name = x
  BY <1>1, AppendedIs DEF AppendsTo, Listing
<1>3. HoldsAppend(me[t]) /\ FilesOK
  BY <1>1 DEF DirInv, Holds, Phase
<1>4. Moved(t) /\ (Replied(t) \/ Advanced(t)) /\ UNCHANGED dir
  BY AppendFlushIs
<1>5. Holds(me[t])'
  BY <1>1, <1>4, Onward
<1>6. \A m \in Name \ {n} : dir[m] # me[t].out
  BY <1>1, <1>3 DEF HoldsAppend, Phase
<1>7. CASE me[t].out = dir[n]
  <2>1. Keeps({n}) /\ Exists(n) /\ content'[dir[n]] = Append(content[dir[n]], Appended(t))
    BY <1>2, <1>7, AppendFlushIs
  <2>2. content[dir[n]] \in Seq(Line)
    BY <1>2, <2>1 DEF TypeInv, FilesTyped, Exists, MaybeInode
  <2>3. ~Named(content[dir[n]], x) \/ <<n, x>> \in raced
    BY <1>1, <1>3, <2>1 DEF HoldsAppend, Lacks, Unraced, Phase
  <2>4. <<n, x>> \in Adds(Asks(me[t]))
    <3>1. me[t].op \in {"REGISTER", "PUBLISH"}
      BY <1>1, CommandIs DEF Owners
    <3> QED BY <3>1 DEF Adds, Asks, AppendsTo, NewName
  <2> HIDE DEF n, x
  <2>5. Once(content'[dir'[n]], n, raced)
    BY <1>2, <1>3, <1>4, <2>1, <2>2, <2>3, AppendNames DEF FilesOK
  <2>6. \A y : <<n, y>> \notin Adds(Asks(me[t])) /\ ~Named(content[dir[n]], y) => ~Named(content'[dir'[n]], y)
    <3> TAKE y
    <3>1. <<n, y>> \notin Adds(Asks(me[t])) => y # x
      BY <2>4
    <3> QED BY <1>2, <1>4, <2>1, <2>2, <3>1, AppendNames
  <2>7. Stays(n)
    BY <1>4 DEF Stays
  <2> QED BY <1>1, <1>2, <1>4, <1>5, <2>1, <2>5, <2>6, <2>7, AppendStep
<1>8. CASE me[t].out # dir[n]
  <2>1. \A m \in Name : me[t].out # dir[m]
    BY <1>6, <1>8
  <2>2. Keeps({})
    BY <2>1, AppendFlushIs
  <2> QED BY <1>1, <1>4, <1>5, <2>2, OwnStep DEF MayReplace
<1> QED BY <1>7, <1>8

LEMMA InitDirInv == DirInit => DirInv
<1> SUFFICES ASSUME DirInit PROVE DirInv
  OBVIOUS
<1>1. \A t \in Thread : me[t] = NoFrame
  BY DEF DirInit
<1>2. \A t \in Thread : Idle(t) /\ Holds(me[t])
  BY <1>1, NoFrameIs DEF Idle, Holds
<1>3. FilesOK
  BY DEF DirInit, FilesOK, Distinct, Exists, Listing, Name
<1> QED BY <1>2, <1>3 DEF DirInv, InTurn

\* That clients give at the same time only commands that may be.
TakeTurns == \A r, s \in Request : MayOverlap(r, s) => Apart(r, s)

\* What has been contended for only grows.
LEMMA StillHolds ==
  ASSUME NEW t \in Thread, Holds(me[t]), me'[t] = me[t], UNCHANGED <<dir, content>>, raced \subseteq raced'
  PROVE  Holds(me[t])'
<1> DEFINE f == me[t]
<1>1. f' = f /\ dir' = dir /\ content' = content
  OBVIOUS
<1>2. HoldsScan(f) => HoldsScan(f)'
  BY <1>1 DEF HoldsScan
<1>3. HoldsAppend(f) => HoldsAppend(f)'
  BY <1>1 DEF HoldsAppend, Lacks, Exists, Unraced, AppendsTo, NewName, Named
<1>4. HoldsRewrite(f) => HoldsRewrite(f)'
  <2>1. TargetOf(f)' = TargetOf(f) /\ TempOf(f)' = TempOf(f)
    BY <1>1 DEF TargetOf, TempOf
  <2>2. \A lines, n : Once(lines, n, raced) => Once(lines, n, raced')
    BY OnceGrows
  <2> HIDE DEF f
  <2> QED BY <1>1, <2>1, <2>2 DEF HoldsRewrite, Exists
<1> QED BY <1>1, <1>2, <1>3, <1>4 DEF Holds

LEMMA BeginKeeps ==
  ASSUME TakeTurns, TypeInv, DirInv, NEW t \in Thread, NEW r \in Request, Begin(t, r)
  PROVE  DirInv'
<1>1. /\ UNCHANGED <<dir, content>> /\ Asks(me'[t]) = r /\ me'[t].step = "open"
      /\ \A o \in Thread \ {t} : me'[o] = me[o] /\ (~Idle(o) => MayOverlap(r, Asks(me[o])))
      /\ me'[t].todo = Phases(r.op) /\ me'[t].todo # <<>>
      /\ raced \subseteq raced'
      /\ \A o \in Thread : me[o].todo # <<>> => Contended(r, Asks(me[o])) \subseteq raced'
  BY BeginIs DEF fileVars
<1>2. FilesOK'
  <2>1. \A n \in Listing : Exists(n) => Once(content[dir[n]], n, raced')
    BY <1>1, OnceGrows DEF DirInv, FilesOK
  <2> QED BY <1>1, <2>1 DEF DirInv, FilesOK, Distinct, Exists, Once
<1>3. ASSUME NEW o \in Thread \ {t} PROVE Holds(me[o])'
  BY <1>1, StillHolds DEF DirInv
<1>4. Head(me'[t].todo) # "append"
  BY <1>1 DEF Phases
<1>5. Holds(me[t])'
  BY <1>1, <1>4 DEF Holds, HoldsScan, HoldsAppend, HoldsRewrite
<1>6. InTurn'
  <2>1. ASSUME NEW o \in Thread \ {t}, ~Idle(o) PROVE Apart(r, Asks(me[o]))
    <3>1. Asks(me[o]) \in Request
      BY <2>1 DEF TypeInv, Frame, Idle
    <3> QED BY <1>1, <2>1, <3>1 DEF TakeTurns
  <2>2. \A x, y : (Apart(x, y) => Apart(y, x)) /\ Contended(x, y) = Contended(y, x)
    BY DEF Apart, Contended
  <2>3. \A o \in Thread \ {t} : /\ (Idle(o)' <=> Idle(o)) /\ Asks(me[o])' = Asks(me[o])
                                /\ me'[o].todo = me[o].todo
    BY <1>1 DEF Idle, Asks
  <2>4. Asks(me[t])' = r
    BY <1>1 DEF Asks
  <2>5. InTurn
    BY DEF DirInv
  <2>6. ASSUME NEW u \in Thread, NEW o \in Thread, u # o, ~Idle(u)', ~Idle(o)'
        PROVE  /\ Apart(Asks(me[u])', Asks(me[o])')
               /\ me'[u].todo # <<>> /\ me'[o].todo # <<>>
                    => Contended(Asks(me[u])', Asks(me[o])') \subseteq raced'
    <3>1. CASE u = t
      BY <1>1, <2>1, <2>3, <2>4, <2>6, <3>1
    <3>2. CASE o = t
      BY <1>1, <2>1, <2>2, <2>3, <2>4, <2>6, <3>2
    <3>3. CASE u # t /\ o # t
      BY <1>1, <2>3, <2>5, <2>6, <3>3 DEF InTurn
    <3> QED BY <3>1, <3>2, <3>3
  <2> QED BY <2>6 DEF InTurn
<1> QED BY <1>2, <1>3, <1>5, <1>6 DEF DirInv

\* Threads that become idle.
LEMMA IdleKeeps ==
  ASSUME TypeInv, DirInv, UNCHANGED fileVars, raced' = raced,
         \A t \in Thread : me'[t] = me[t] \/ me'[t] = NoFrame
  PROVE  DirInv'
<1>1. FilesOK'
  BY DEF DirInv, FilesOK, Distinct, Exists, fileVars, Once
<1>2. ASSUME NEW t \in Thread PROVE Holds(me[t])'
  <2>1. CASE me'[t] = me[t]
    BY <2>1, StillHolds DEF DirInv, fileVars
  <2>2. CASE me'[t] = NoFrame
    BY <2>2, NoFrameIs DEF Holds
  <2> QED BY <2>1, <2>2
<1>3. \A t \in Thread : ~Idle(t)' => /\ ~Idle(t) /\ Asks(me[t])' = Asks(me[t])
                                    /\ me'[t].todo = me[t].todo
  BY NoFrameIs DEF Idle, Asks
<1>4. InTurn'
  BY <1>3 DEF DirInv, InTurn
<1> QED BY <1>1, <1>2, <1>4 DEF DirInv

LEMMA NextDirInv ==
  ASSUME TakeTurns PROVE TypeInv /\ DirInv /\ [DirNext]_vars => DirInv'
<1> SUFFICES ASSUME TypeInv, DirInv, [DirNext]_vars PROVE DirInv'
  OBVIOUS
<1>1. CASE Crash
  BY <1>1, CrashIs, IdleKeeps
<1>2. ASSUME NEW t \in Thread, NEW r \in Request, Begin(t, r) PROVE DirInv'
  BY <1>2, BeginKeeps
<1>3. ASSUME NEW t \in Thread, End(t) PROVE DirInv'
  BY <1>3, EndIs, IdleKeeps
<1>4. ASSUME NEW t \in Thread, Step(t) PROVE DirInv'
  BY <1>4, ReadersKeep, RewritersKeep, RemoverKeeps, CreatorKeeps,
         AppendOpenKeeps, AppendFlushKeeps DEF Step
<1>5. CASE UNCHANGED vars
  BY <1>5, IdleKeeps DEF vars, fileVars
<1> QED BY <1>1, <1>2, <1>3, <1>4, <1>5 DEF DirNext

\* A file that has been removed and not yet renamed is its copy.
LEMMA LinesAreOnce == TypeInv /\ DirInv => NoLineTwice
<1> SUFFICES ASSUME TypeInv, DirInv, NEW n \in Listing PROVE Once(Lines(n), n, raced)
  BY DEF NoLineTwice, Once, Listing
<1>1. Once(<<>>, n, raced)
  BY EmptyIsOnce
<1>2. CASE Renaming(n) = {}
  BY <1>1, <1>2 DEF Lines, DirInv, FilesOK
<1>3. CASE Renaming(n) # {}
  <2> DEFINE t == CHOOSE t \in Renaming(n) : TRUE
  <2>1. t \in Renaming(n)
    BY <1>3
  <2> HIDE DEF t
  <2>2. t \in Thread /\ me[t].step = "rename"
    BY <2>1 DEF Renaming
  <2>3. me[t].todo # <<>> /\ Phase(t) \in Rewrites
    <3>1. me[t].todo # <<>> /\ me[t].step \in StepsOf(Head(me[t].todo))
          /\ me[t].todo \in Todo(me[t].op)
      BY <2>2 DEF TypeInv, Frame
    <3>2. Head(me[t].todo) \in {"exist", "published", "append", "create", "removeContents", "list"} \cup Rewrites
      BY <3>1, TodoIs
    <3> QED BY <2>2, <3>1, <3>2 DEF StepsOf, Phase
  <2>4. Temp(t) = TempOf(me[t]) /\ n = TargetOf(me[t])
    BY <2>1, <2>2, <2>3, RewritingIs DEF Renaming
  <2>5. Exists(Temp(t)) /\ Once(content[dir[Temp(t)]], n, raced)
    BY <2>2, <2>3, <2>4 DEF DirInv, Holds, HoldsRewrite, Phase
  <2> QED BY <1>3, <2>5 DEF Lines, t
<1> QED BY <1>2, <1>3

\* However the commands interleave, those of one user name too, and wherever
\* the server ends, users.txt has a user on two lines, or a list a content
\* twice, only if two commands have contended for just that line: registerUser
\* and publishContent look for it with one fopen and append it with another,
\* without a lock (logic.c, 59-75 and 210-236).  It is assumed that a command
\* that rewrites users.txt has no other beside it, and that two DELETEs do not
\* meet.
THEOREM NobodyIsListedTwice ==
  ASSUME TakeTurns PROVE DirSpec => []NoLineTwice
<1>1. TypeInv /\ DirInv /\ [DirNext]_vars => (TypeInv /\ DirInv)'
  BY NextTypeInv, NextDirInv
<1> QED BY <1>1, InitTypeInv, InitDirInv, LinesAreOnce, PTL DEF DirSpec
=============================================================================
