---------------------------- MODULE UserDirectory ----------------------------
(***************************************************************************)
(* The directory server of the final project as its commands would be if   *)
(* each were one step, whatever it keeps its data in: the users with their *)
(* address, whether each is connected, and the names of the contents that  *)
(* each has published.  Every command takes effect at one instant between  *)
(* the request and its reply.  The codes are those that server.c sends.    *)
(* The comments of server.c and the messages of client.py give some of     *)
(* them another meaning, or name codes that are never sent: see PUBLISH,   *)
(* DELETE and LIST_USERS below.                                            *)
(*                                                                         *)
(* Crash is the most that a server which ends (SIGINT) does to the data.   *)
(***************************************************************************)
EXTENDS Naturals

CONSTANTS User, File,
          Addr, NoAddr,   \* ip and port of a listener; port 0
          NoArg,          \* the third argument of the commands that have none
          Caller,         \* bound: commands in progress at a time
          Commands        \* bound: the commands that are given

ASSUME UserDirectoryAssumption == NoAddr \notin Addr

VARIABLES made,      \* whether there is a list of users, be it empty
          users,     \* users[u]: where u is, for each registered u
          contents,  \* contents[u]: what u has published, if there is a list
          call       \* call[c]: the command in progress

userVars == <<made, users, contents, call>>

Request ==
  [op : {"REGISTER", "UNREGISTER", "DISCONNECT", "LIST_USERS", "GET_FILE"} \cap Commands,
   user : User, arg : {NoArg}]
    \cup [op : {"CONNECT"} \cap Commands, user : User, arg : Addr]
    \cup [op : {"PUBLISH", "DELETE"} \cap Commands, user : User, arg : File]
    \cup [op : {"LIST_CONTENT"} \cap Commands, user : User, arg : User]

\* A reply: the code and, for the commands that list, what they list.
Code(n) == [code |-> n, list |-> {}]

Idle == [st |-> "idle"]
Pending(r) == [st |-> "pending", req |-> r]
Done(r, x) == [st |-> "done", req |-> r, res |-> x]

Bind(f, k, v) == [x \in DOMAIN f \cup {k} |-> IF x = k THEN v ELSE f[x]]
Unbind(f, k) == [x \in DOMAIN f \ {k} |-> f[x]]
Empty == [x \in {} |-> x]

-----------------------------------------------------------------------------
UserInit ==
  /\ made = FALSE
  /\ users = Empty
  /\ contents = Empty
  /\ call = [c \in Caller |-> Idle]

Invoke(c) ==
  /\ call[c] = Idle
  /\ \E r \in Request : call' = [call EXCEPT ![c] = Pending(r)]
  /\ UNCHANGED <<made, users, contents>>

Registered(u) == u \in DOMAIN users

\* The first REGISTER makes the empty list before it takes effect.
MakesList(c) ==
  /\ call[c].st = "pending"
  /\ call[c].req.op = "REGISTER"
  /\ ~Registered(call[c].req.user)
  /\ made' = TRUE
  /\ UNCHANGED <<users, contents, call>>

Answers(c, x) == call' = [call EXCEPT ![c] = Done(@.req, x)]

Registers(c, r) ==
  /\ r.op = "REGISTER"
  /\ IF Registered(r.user)
       THEN Answers(c, Code(1)) /\ UNCHANGED <<made, users, contents>>
       ELSE /\ Answers(c, Code(0))
            /\ made' = TRUE
            /\ users' = Bind(users, r.user, [addr |-> NoAddr, on |-> FALSE])
            /\ contents' = Bind(contents, r.user, {})

Unregisters(c, r) ==
  /\ r.op = "UNREGISTER"
  /\ Answers(c, Code(IF Registered(r.user) THEN 0 ELSE 1))
  /\ users' = Unbind(users, r.user)
  /\ contents' = IF made THEN Unbind(contents, r.user) ELSE contents
  /\ UNCHANGED made

Connects(c, r) ==
  /\ r.op = "CONNECT"
  /\ IF ~Registered(r.user)
       THEN Answers(c, Code(1)) /\ UNCHANGED users
       ELSE IF users[r.user].on
         THEN Answers(c, Code(2)) /\ UNCHANGED users
         ELSE Answers(c, Code(0)) /\ users' = Bind(users, r.user, [addr |-> r.arg, on |-> TRUE])
  /\ UNCHANGED <<made, contents>>

Disconnects(c, r) ==
  /\ r.op = "DISCONNECT"
  /\ IF ~Registered(r.user)
       THEN Answers(c, Code(1)) /\ UNCHANGED users
       ELSE /\ Answers(c, Code(IF users[r.user].on THEN 0 ELSE 2))
            /\ users' = [users EXCEPT ![r.user].on = FALSE]
  /\ UNCHANGED <<made, contents>>

HasList(u) == u \in DOMAIN contents
Published(r) == HasList(r.user) /\ r.arg \in contents[r.user]

\* Whether the user is connected is not asked: a disconnected user gets 0, and
\* the 2 of server.c:143 and client.py:332 is never sent.
Publishes(c, r) ==
  /\ r.op = "PUBLISH"
  /\ IF Registered(r.user) /\ HasList(r.user) /\ ~Published(r)
       THEN Answers(c, Code(0)) /\ contents' = [contents EXCEPT ![r.user] = @ \cup {r.arg}]
       ELSE /\ Answers(c, Code(IF ~Registered(r.user) THEN 1 ELSE IF ~HasList(r.user) THEN 4 ELSE 3))
            /\ UNCHANGED contents
  /\ UNCHANGED <<made, users>>

\* The same, with server.c:163 and client.py:372.
Deletes(c, r) ==
  /\ r.op = "DELETE"
  /\ IF Registered(r.user) /\ Published(r)
       THEN Answers(c, Code(0)) /\ contents' = [contents EXCEPT ![r.user] = @ \ {r.arg}]
       ELSE /\ Answers(c, Code(IF ~Registered(r.user) THEN 1 ELSE IF ~HasList(r.user) THEN 4 ELSE 3))
            /\ UNCHANGED contents
  /\ UNCHANGED <<made, users>>

\* All users are listed, the disconnected ones too, to whoever asks.  A 2 says
\* that there is no list of users; client.py:414 reads it as "not connected",
\* and the 1 (no such user) that it knows is never sent.
ListsUsers(c, r) ==
  /\ r.op \in {"LIST_USERS", "GET_FILE"}
  /\ Answers(c, IF made THEN [code |-> 0, list |-> {<<u, users[u].addr>> : u \in DOMAIN users}]
                ELSE Code(2))
  /\ UNCHANGED <<made, users, contents>>

ListsContent(c, r) ==
  /\ r.op = "LIST_CONTENT"
  /\ Answers(c, IF ~Registered(r.user) \/ ~Registered(r.arg) THEN Code(1)
                ELSE IF ~HasList(r.arg) THEN Code(2)
                ELSE [code |-> 0, list |-> contents[r.arg]])
  /\ UNCHANGED <<made, users, contents>>

Perform(c) ==
  /\ call[c].st = "pending"
  /\ LET r == call[c].req
     IN \/ Registers(c, r) \/ Unregisters(c, r) \/ Connects(c, r) \/ Disconnects(c, r)
        \/ Publishes(c, r) \/ Deletes(c, r) \/ ListsUsers(c, r) \/ ListsContent(c, r)

Returns(c) ==
  /\ call[c].st = "done"
  /\ call' = [call EXCEPT ![c] = Idle]
  /\ UNCHANGED <<made, users, contents>>

\* The server ends during the commands in progress and starts again.  Without
\* an UNREGISTER, CONNECT or DISCONNECT among them no user is lost; with one,
\* all are, or a user who was connecting is connected at the old address.
\* Only the lists of users whose REGISTER, UNREGISTER or DELETE has taken
\* effect may be lost, and the first two may leave an old list behind.
InProgress(ops) ==
  {call[c].req.user : c \in {x \in Caller : call[x] # Idle /\ call[x].req.op \in ops}}

Performed(op, codes) ==
  {call[c].req.user : c \in {x \in Caller : /\ call[x].st = "done"
                                           /\ call[x].req.op = op
                                           /\ call[x].res.code \in codes}}

CrashUsers ==
  \/ UNCHANGED <<made, users>>
  \/ /\ InProgress({"UNREGISTER", "CONNECT", "DISCONNECT"}) # {}
     /\ made' = FALSE /\ users' = Empty
  \/ /\ \E u \in InProgress({"CONNECT"}) \cap DOMAIN users :
          users' = [users EXCEPT ![u].on = TRUE]
     /\ UNCHANGED made

CrashContents ==
  LET renewed == Performed("REGISTER", {0}) \cup Performed("UNREGISTER", {0, 1})
  IN \E lost \in SUBSET (renewed \cup Performed("DELETE", {0, 3})),
        back \in SUBSET renewed :
       \E old \in [back -> SUBSET File] :
         contents' = [u \in (DOMAIN contents \ lost) \cup back |->
                        IF u \in back THEN old[u] ELSE contents[u]]

Crash ==
  /\ call' = [c \in Caller |-> Idle]
  /\ CrashUsers
  /\ CrashContents

UserNext == (\E c \in Caller : Invoke(c) \/ MakesList(c) \/ Perform(c) \/ Returns(c)) \/ Crash

UserSpec == UserInit /\ [][UserNext]_userVars
=============================================================================
