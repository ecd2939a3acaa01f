----------------------------- MODULE Directory -----------------------------
(***************************************************************************)
(* The directory server of the final project: the nine commands of         *)
(* server.c, each in a thread of its own, over the functions of logic.c    *)
(* and the files users.txt and contents_<user>.txt, without a lock.        *)
(*                                                                         *)
(* A command is a sequence of phases (todo), a phase a function of logic.c *)
(* or a part of one, and an action one operation on a file that other      *)
(* threads could notice.  Five of the phases rewrite a file: they copy it  *)
(* to a temporary one, with a change, remove it and rename the copy.       *)
(*                                                                         *)
(* Abstractions: a line is a record; a file is less than one stdio block,  *)
(* so a scan is one read, and the output of a function one write at        *)
(* fclose; ip and port are one value; what is said of a file (its          *)
(* description) is left out, and is not empty; an fopen for reading fails  *)
(* only if there is no file, the others never.  How a command reaches its  *)
(* thread is AcceptLoop.                                                   *)
(***************************************************************************)
EXTENDS DataFile

CONSTANTS User, File, Addr, NoAddr, NoArg,
          Thread,            \* bound: commands at a time
          Inode, NoInode,    \* bound: files in the file system; no file
          Commands,          \* bound: the commands that are given
          MaxCrashes,        \* bound: how often the server ends
          MaxRaced,          \* bound: no command begins when more lines than
                             \* that have been contended for
          MayOverlap(_, _)   \* which commands clients give at the same time

\* contents_<user>.txt has the name of its user.
Temps == {"temp", "users_temp", "users_tmp", "tmp_content"}
Name == {"users"} \cup Temps \cup User

\* No fopen for writing finds the file system full.
ASSUME DirectoryAssumption ==
  /\ NoAddr \notin Addr
  /\ NoInode \notin Inode
  /\ User \cap ({"users"} \cup Temps) = {}
  /\ IsFiniteSet(User) /\ IsFiniteSet(Thread)
  /\ IsFiniteSet(Inode) => Cardinality(Inode) > Cardinality(Name) + 2 * Cardinality(Thread)
  /\ MaxCrashes \in Nat /\ MaxRaced \in Nat

VARIABLES dir,      \* dir[n]: the inode of name n
          content,  \* content[i]: the lines of inode i
          me,       \* me[t]: the frame of thread t
          crashes,  \* how often the server has ended
          raced     \* the lines, <<file, name>>, that two commands at work at
                    \* the same time have contended for (history)

fileVars == <<dir, content>>
vars == <<dir, content, me, crashes, raced>>

D == INSTANCE UserDirectory
       WITH Caller <- Thread, made <- FALSE, users <- <<>>, contents <- <<>>, call <- <<>>
Request == D!Request

\* What each command calls, in order.
Phases(op) ==
  CASE op = "REGISTER"     -> <<"exist", "append", "create">>
    [] op = "UNREGISTER"   -> <<"unregisterUser", "removeContents">>
    [] op = "CONNECT"      -> <<"exist", "connectUser", "updateUserIPPort">>
    [] op = "DISCONNECT"   -> <<"disconnectUser">>
    [] op = "PUBLISH"      -> <<"exist", "exist", "published", "append">>
    [] op = "DELETE"       -> <<"exist", "exist", "deleteContent">>
    [] op = "LIST_CONTENT" -> <<"exist", "exist", "list">>
    [] OTHER               -> <<"list">>

\* The frame of a thread: its command, the phases still to do, the step in the
\* first of them, the streams, the lines copied or counted, what the scan has
\* found, and the reply.
NoFrame == [op |-> "none", user |-> NoArg, arg |-> NoArg, todo |-> <<>>, step |-> "idle",
            in |-> NoInode, out |-> NoInode, copy |-> <<>>, found |-> FALSE,
            was |-> FALSE, code |-> 0, list |-> {}]

Phase(t) == Head(me[t].todo)
At(t, phases, step) ==
  me[t].todo # <<>> /\ Phase(t) \in phases /\ me[t].step = step

DirInit ==
  /\ dir = [n \in Name |-> NoInode]
  /\ content = [i \in Inode |-> <<>>]
  /\ me = [t \in Thread |-> NoFrame]
  /\ crashes = 0
  /\ raced = {}

-----------------------------------------------------------------------------
(* Files, as in Claves.                                                    *)

Exists(n) == dir[n] # NoInode

InUse(i) == (\E n \in Name : dir[n] = i) \/ (\E t \in Thread : i \in {me[t].in, me[t].out})
FreeInode == CHOOSE i \in Inode : ~InUse(i)

Opened(n) == IF Exists(n) THEN dir[n] ELSE FreeInode

\* fopen with "w" and "a".
Truncates(n) ==
  /\ dir' = [dir EXCEPT ![n] = Opened(n)]
  /\ content' = [content EXCEPT ![Opened(n)] = <<>>]

Appends(n) ==
  /\ dir' = [dir EXCEPT ![n] = Opened(n)]
  /\ content' = [content EXCEPT ![Opened(n)] = IF Exists(n) THEN @ ELSE <<>>]

-----------------------------------------------------------------------------
(* Control.                                                                *)

Steps(t, frame) == me' = [me EXCEPT ![t] = frame] /\ UNCHANGED <<crashes, raced>>
Goto(t, step) == Steps(t, [me[t] EXCEPT !.step = step])

NextPhase(t) ==
  Steps(t, [me[t] EXCEPT !.todo = Tail(@), !.step = "open", !.in = NoInode,
                         !.out = NoInode, !.copy = <<>>])

\* The reply is sent; the frame keeps the command and the reply.
Replies(t, code, list) ==
  Steps(t, [me[t] EXCEPT !.todo = <<>>, !.step = "done", !.in = NoInode, !.out = NoInode,
                         !.copy = <<>>, !.found = FALSE, !.was = FALSE,
                         !.code = code, !.list = list])

Idle(t) == me[t].step = "idle"
Asks(f) == [op |-> f.op, user |-> f.user, arg |-> f.arg]

\* The line that a command looks for before it appends it, and the lists that a
\* command empties or replaces.
Adds(r) ==
  CASE r.op = "REGISTER" -> {<<"users", r.user>>}
    [] r.op = "PUBLISH"  -> {<<r.user, r.arg>>}
    [] OTHER             -> {}
Renews(r) == IF r.op \in {"REGISTER", "DELETE"} THEN {r.user} ELSE {}

\* Two commands contend for a line that both add, or that one adds to a list
\* which the other renews.
Contended(r, s) ==
  (Adds(r) \cap Adds(s)) \cup {l \in Adds(r) : l[1] \in Renews(s)}
                        \cup {l \in Adds(s) : l[1] \in Renews(r)}

\* tratar_peticion has read a command that its client gave now.
Begin(t, r) ==
  /\ Idle(t)
  /\ Cardinality(raced) <= MaxRaced
  /\ \A o \in Thread \ {t} : ~Idle(o) => MayOverlap(r, Asks(me[o]))
  /\ me' = [me EXCEPT ![t] = [NoFrame EXCEPT !.op = r.op, !.user = r.user, !.arg = r.arg,
                                             !.todo = Phases(r.op), !.step = "open"]]
  /\ raced' = raced \cup UNION {Contended(r, Asks(me[o])) : o \in {x \in Thread : me[x].todo # <<>>}}
  /\ UNCHANGED <<fileVars, crashes>>

\* The client has the reply.
End(t) ==
  /\ me[t].step = "done"
  /\ Steps(t, NoFrame)
  /\ UNCHANGED fileVars

-----------------------------------------------------------------------------
(* exist.  Which user the last call of a command asks for, and the code    *)
(* when there is none.                                                     *)

Asked(t) ==
  IF me[t].op = "LIST_CONTENT" /\ Len(me[t].todo) = 2 THEN me[t].arg ELSE me[t].user

\* publishContent and deleteContent return 1, which tratar_peticion makes 4.
UnknownUser(t) ==
  IF me[t].op \in {"PUBLISH", "DELETE"} /\ Len(me[t].todo) < Len(Phases(me[t].op)) THEN 4 ELSE 1

ExistAnswers(t, yes) ==
  IF me[t].op = "REGISTER"
    THEN IF yes THEN Replies(t, 1, {}) ELSE NextPhase(t)
    ELSE IF yes THEN NextPhase(t) ELSE Replies(t, UnknownUser(t), {})

Named(lines, u) == \E n \in DOMAIN lines : lines[n].name = u

ExistOpen(t) ==
  /\ At(t, {"exist"}, "open")
  /\ IF Exists("users")
       THEN Steps(t, [me[t] EXCEPT !.in = dir["users"], !.step = "scan"])
       ELSE ExistAnswers(t, FALSE)
  /\ UNCHANGED fileVars

ExistScan(t) ==
  /\ At(t, {"exist"}, "scan")
  /\ ExistAnswers(t, Named(content[me[t].in], Asked(t)))
  /\ UNCHANGED fileVars

-----------------------------------------------------------------------------
(* registerUser and publishContent.                                        *)

\* (Mutant: the result of fopen is not looked at.)
PublishedOpenUnchecked(t) ==
  /\ At(t, {"published"}, "open")
  /\ Steps(t, [me[t] EXCEPT !.in = dir[me[t].user], !.step = "scan"])
  /\ UNCHANGED fileVars

\* The scan for a content that is published already, code 3.
PublishedOpen(t) ==
  /\ At(t, {"published"}, "open")
  /\ IF Exists(me[t].user)
       THEN Steps(t, [me[t] EXCEPT !.in = dir[me[t].user], !.step = "scan"])
       ELSE Replies(t, 4, {})
  /\ UNCHANGED fileVars

\* (Mutant: a content is published again.)
PublishedScanIgnored(t) ==
  /\ At(t, {"published"}, "scan")
  /\ NextPhase(t)
  /\ UNCHANGED fileVars

PublishedScan(t) ==
  /\ At(t, {"published"}, "scan")
  /\ IF Named(content[me[t].in], me[t].arg) THEN Replies(t, 3, {}) ELSE NextPhase(t)
  /\ UNCHANGED fileVars

Appended(t) ==
  IF me[t].op = "REGISTER" THEN [name |-> me[t].user, addr |-> NoAddr, on |-> FALSE]
                           ELSE [name |-> me[t].arg]

AppendOpen(t) ==
  LET n == IF me[t].op = "REGISTER" THEN "users" ELSE me[t].user
  IN /\ At(t, {"append"}, "open")
     /\ Appends(n)
     /\ Steps(t, [me[t] EXCEPT !.out = Opened(n), !.step = "flush"])

AppendFlush(t) ==
  /\ At(t, {"append"}, "flush")
  /\ content' = [content EXCEPT ![me[t].out] = Append(@, Appended(t))]
  /\ IF me[t].op = "REGISTER" THEN NextPhase(t) ELSE Replies(t, 0, {})
  /\ UNCHANGED dir

\* The empty list of a new user.
Create(t) ==
  /\ At(t, {"create"}, "open")
  /\ Truncates(me[t].user)
  /\ Replies(t, 0, {})

-----------------------------------------------------------------------------
(* The five functions that rewrite a file: which file, through which       *)
(* temporary name, the copy of its lines, and the code if it is not there. *)

Changed(lines, u, l(_)) == [n \in DOMAIN lines |-> IF lines[n].name = u THEN l(lines[n]) ELSE lines[n]]

Others(lines, n) == Pick(lines, {i \in DOMAIN lines : lines[i].name # n})

unregisterUser(t, lines) ==
  [file |-> "users", temp |-> "temp", missing |-> 1, copy |-> Others(lines, me[t].user)]

connectUser(t, lines) ==
  [file |-> "users", temp |-> "users_temp", missing |-> 3,
   copy |-> Changed(lines, me[t].user, LAMBDA l : [l EXCEPT !.on = TRUE])]

disconnectUser(t, lines) ==
  [file |-> "users", temp |-> "users_temp", missing |-> 1,
   copy |-> Changed(lines, me[t].user, LAMBDA l : [l EXCEPT !.on = FALSE])]

\* (Mutant: the address is not changed.)
updateUserIPPortOnly(t, lines) ==
  [file |-> "users", temp |-> "users_tmp", missing |-> 0,
   copy |-> Changed(lines, me[t].user, LAMBDA l : [l EXCEPT !.on = TRUE])]

updateUserIPPort(t, lines) ==
  [file |-> "users", temp |-> "users_tmp", missing |-> 0,
   copy |-> Changed(lines, me[t].user, LAMBDA l : [l EXCEPT !.addr = me[t].arg, !.on = TRUE])]

deleteContent(t, lines) ==
  [file |-> me[t].user, temp |-> "tmp_content", missing |-> 4, copy |-> Others(lines, me[t].arg)]

Rewrite(t, lines) ==
  CASE Phase(t) = "unregisterUser"   -> unregisterUser(t, lines)
    [] Phase(t) = "connectUser"      -> connectUser(t, lines)
    [] Phase(t) = "disconnectUser"   -> disconnectUser(t, lines)
    [] Phase(t) = "updateUserIPPort" -> updateUserIPPort(t, lines)
    [] Phase(t) = "deleteContent"    -> deleteContent(t, lines)

Rewrites ==
  {"unregisterUser", "connectUser", "disconnectUser", "updateUserIPPort", "deleteContent"}
Target(t) == Rewrite(t, <<>>).file
Temp(t) == Rewrite(t, <<>>).temp

RewriteOpen(t) ==
  /\ At(t, Rewrites, "open")
  /\ IF Exists(Target(t))
       THEN Steps(t, [me[t] EXCEPT !.in = dir[Target(t)], !.step = "temp"])
       ELSE Replies(t, Rewrite(t, <<>>).missing, {})
  /\ UNCHANGED fileVars

RewriteTemp(t) ==
  /\ At(t, Rewrites, "temp")
  /\ Truncates(Temp(t))
  /\ Steps(t, [me[t] EXCEPT !.out = Opened(Temp(t)), !.step = "scan"])

\* What is found is the line of the user or of the content, and whether that
\* user was connected.
RewriteScan(t) ==
  /\ At(t, Rewrites, "scan")
  /\ LET lines == content[me[t].in]
         name == IF me[t].op = "DELETE" THEN me[t].arg ELSE me[t].user
     IN Steps(t, [me[t] EXCEPT
          !.copy = Rewrite(t, lines).copy, !.found = Named(lines, name), !.step = "flush",
          !.was = me[t].op # "DELETE" /\ \E n \in DOMAIN lines : lines[n].name = name /\ lines[n].on])
  /\ UNCHANGED fileVars

RewriteFlush(t) ==
  /\ At(t, Rewrites, "flush")
  /\ content' = [content EXCEPT ![me[t].out] = Overlay(@, me[t].copy)]
  /\ Steps(t, [me[t] EXCEPT !.in = NoInode, !.out = NoInode, !.copy = <<>>,
         !.step = IF Phase(t) \in {"connectUser", "disconnectUser"} /\ ~me[t].found
                    THEN "drop" ELSE "remove"])
  /\ UNCHANGED dir

\* connectUser and disconnectUser leave the file if they did not find the user.
RewriteDrop(t) ==
  /\ At(t, Rewrites, "drop")
  /\ dir' = [dir EXCEPT ![Temp(t)] = NoInode]
  /\ Replies(t, Rewrite(t, <<>>).missing, {})
  /\ UNCHANGED content

RewriteRemove(t) ==
  /\ At(t, Rewrites, "remove")
  /\ dir' = [dir EXCEPT ![Target(t)] = NoInode]
  /\ Goto(t, "rename")
  /\ UNCHANGED content

\* What tratar_peticion makes of the result.
Rewritten(t) ==
  LET code(a, b) == Replies(t, IF a THEN 0 ELSE b, {})
  IN CASE Phase(t) = "unregisterUser"   -> NextPhase(t)
       [] Phase(t) = "connectUser"      -> IF me[t].was THEN Replies(t, 2, {}) ELSE NextPhase(t)
       [] Phase(t) = "disconnectUser"   -> code(me[t].was, 2)
       [] Phase(t) = "updateUserIPPort" -> Replies(t, 0, {})
       [] Phase(t) = "deleteContent"    -> code(me[t].found, 3)

\* A rename of a file that another thread has renamed does nothing.
RewriteRename(t) ==
  /\ At(t, Rewrites, "rename")
  /\ IF Exists(Temp(t))
       THEN dir' = [dir EXCEPT ![Target(t)] = dir[Temp(t)], ![Temp(t)] = NoInode]
       ELSE UNCHANGED dir
  /\ Rewritten(t)
  /\ UNCHANGED content

\* unregisterUser removes the list of contents, whoever was found.
RemoveContents(t) ==
  /\ At(t, {"removeContents"}, "open")
  /\ dir' = [dir EXCEPT ![me[t].user] = NoInode]
  /\ Replies(t, IF me[t].found THEN 0 ELSE 1, {})
  /\ UNCHANGED content

-----------------------------------------------------------------------------
(* LIST_USERS, GET_FILE and LIST_CONTENT: the lines are counted, and then  *)
(* read again; the client reads as many as were counted.                   *)

ListOpen(t) ==
  LET n == IF me[t].op = "LIST_CONTENT" THEN me[t].arg ELSE "users"
  IN /\ At(t, {"list"}, "open")
     /\ IF Exists(n) THEN Steps(t, [me[t] EXCEPT !.in = dir[n], !.step = "count"])
                     ELSE Replies(t, 2, {})
     /\ UNCHANGED fileVars

ListCount(t) ==
  /\ At(t, {"list"}, "count")
  /\ Steps(t, [me[t] EXCEPT !.copy = content[me[t].in], !.step = "send"])
  /\ UNCHANGED fileVars

Listed(t, lines) ==
  {IF me[t].op = "LIST_CONTENT" THEN lines[n].name ELSE <<lines[n].name, lines[n].addr>>
     : n \in DOMAIN lines \cap DOMAIN me[t].copy}

ListSend(t) ==
  /\ At(t, {"list"}, "send")
  /\ Replies(t, 0, Listed(t, content[me[t].in]))
  /\ UNCHANGED fileVars

-----------------------------------------------------------------------------
\* The server ends, by SIGINT or SIGPIPE, and is started again; all it has are
\* its files.
Crash ==
  /\ crashes < MaxCrashes
  /\ crashes' = crashes + 1
  /\ me' = [t \in Thread |-> NoFrame]
  /\ UNCHANGED <<fileVars, raced>>

Step(t) ==
  \/ ExistOpen(t) \/ ExistScan(t) \/ PublishedOpen(t) \/ PublishedScan(t)
  \/ AppendOpen(t) \/ AppendFlush(t) \/ Create(t)
  \/ RewriteOpen(t) \/ RewriteTemp(t) \/ RewriteScan(t) \/ RewriteFlush(t) \/ RewriteDrop(t)
  \/ RewriteRemove(t) \/ RewriteRename(t) \/ RemoveContents(t)
  \/ ListOpen(t) \/ ListCount(t) \/ ListSend(t)

DirNext ==
  \/ Crash
  \/ \E t \in Thread : (\E r \in Request : Begin(t, r)) \/ Step(t) \/ End(t)

DirSpec == DirInit /\ [][DirNext]_vars

-----------------------------------------------------------------------------
(* The directory that the files stand for.  A file between remove and      *)
(* rename is its copy; a user who is connecting is so when the new address *)
(* is on its way; a user has a list from the moment of its registration    *)
(* and until it has been unregistered.                                     *)

Renaming(n) == {t \in Thread : me[t].step = "rename" /\ Target(t) = n}

Lines(n) ==
  LET m == IF Renaming(n) = {} THEN n ELSE Temp(CHOOSE t \in Renaming(n) : TRUE)
  IN IF Exists(m) THEN content[dir[m]] ELSE <<>>

HalfConnected(u) ==
  \E t \in Thread :
    /\ me[t].user = u
    /\ \/ At(t, {"connectUser"}, "rename") /\ ~me[t].was
       \/ \E step \in {"open", "temp", "scan", "flush", "remove"} : At(t, {"updateUserIPPort"}, step)

MadeImage == Exists("users") \/ Renaming("users") # {}

UsersImage ==
  LET lines == Lines("users")
      line(u) == lines[CHOOSE n \in DOMAIN lines : lines[n].name = u]
  IN [u \in {lines[n].name : n \in DOMAIN lines} |->
        [addr |-> line(u).addr, on |-> line(u).on /\ ~HalfConnected(u)]]

Creating(u) == \E t \in Thread : At(t, {"create"}, "open") /\ me[t].user = u
Forgetting(u) ==
  \E t \in Thread : /\ me[t].user = u
                    /\ At(t, {"removeContents"}, "open") \/ At(t, {"unregisterUser"}, "rename")

ContentsImage ==
  [u \in {x \in User : Creating(x) \/ ((Exists(x) \/ Renaming(x) # {}) /\ ~Forgetting(x))} |->
     LET lines == IF Creating(u) THEN <<>> ELSE Lines(u)
     IN {lines[n].name : n \in DOMAIN lines}]

\* A command has taken effect once its last change is bound to be seen.
ResultImage(t) ==
  IF me[t].step = "done" THEN [code |-> me[t].code, list |-> me[t].list]
  ELSE IF At(t, {"list"}, "send")
    THEN [code |-> 0, list |-> Listed(t, me[t].copy)]
  ELSE [code |-> CASE Phase(t) \in {"create", "updateUserIPPort"} -> 0
                   [] Phase(t) \in {"unregisterUser", "removeContents"} -> IF me[t].found THEN 0 ELSE 1
                   [] Phase(t) = "connectUser" -> 2
                   [] Phase(t) = "disconnectUser" -> IF me[t].was THEN 0 ELSE 2
                   [] OTHER -> IF me[t].found THEN 0 ELSE 3,
        list |-> {}]

LastSteps ==
  {<<"list", "send">>, <<"create", "open">>, <<"removeContents", "open">>}
    \cup {<<phase, "rename">> : phase \in Rewrites}

Effective(t) ==
  IF me[t].todo = <<>> THEN ~Idle(t)
  ELSE /\ <<Phase(t), me[t].step>> \in LastSteps
       /\ Phase(t) = "connectUser" => me[t].was

CallImage ==
  [t \in Thread |->
     LET r == Asks(me[t])
     IN IF Idle(t) THEN D!Idle ELSE IF Effective(t) THEN D!Done(r, ResultImage(t)) ELSE D!Pending(r)]

Atomic == INSTANCE UserDirectory
            WITH Caller <- Thread, made <- MadeImage, users <- UsersImage,
                 contents <- ContentsImage, call <- CallImage

\* As long as clients give at the same time only commands that MayOverlap
\* allows, and no two have contended for a line, every command of server.c takes
\* effect at one instant, with the codes of that instant; and wherever the
\* server ends, no more is lost than UserDirectory says.
ImplementsUserDirectory ==
  Atomic!UserInit /\ [][raced' # {} \/ Atomic!UserNext]_(Atomic!userVars)

-----------------------------------------------------------------------------
\* The type invariant: files and streams are inodes, a step that reads has a
\* stream to read from, and one that writes has one to write to.
DirTypeOK ==
  /\ dir \in [Name -> Inode \cup {NoInode}]
  /\ crashes \in 0..MaxCrashes
  /\ raced \subseteq ({"users"} \cup User) \X (User \cup File)
  /\ \A t \in Thread :
       /\ {me[t].in, me[t].out} \subseteq Inode \cup {NoInode}
       /\ me[t].code \in 0..4
       /\ me[t].step \in {"temp", "scan", "count", "send"} => me[t].in # NoInode
       /\ me[t].step = "flush" => me[t].out # NoInode
       /\ me[t].todo = <<>> <=> me[t].step \in {"idle", "done"}

\* No user has two lines in users.txt and no content two in its list, but those
\* that commands at work at the same time have contended for: every function of
\* logic.c stops at the first line, or treats all alike.
NoLineTwice ==
  \A n \in {"users"} \cup User :
    LET lines == Lines(n)
    IN \A i, j \in DOMAIN lines :
         lines[i].name = lines[j].name => i = j \/ <<n, lines[i].name>> \in raced

\* "Conectado exitosamente" (logic.c:160): when CONNECT has been answered with
\* 0 and no other command is at work, users.txt has the user connected, at the
\* address of the request.
ConnectedIsListed ==
  \A t \in Thread :
    /\ me[t].op = "CONNECT" /\ me[t].step = "done" /\ me[t].code = 0
    /\ \A o \in Thread : me[o].todo = <<>>
    => \E n \in DOMAIN Lines("users") :
         Lines("users")[n] = [name |-> me[t].user, addr |-> me[t].arg, on |-> TRUE]
=============================================================================
