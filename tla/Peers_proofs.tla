----------------------------- MODULE Peers_proofs -----------------------------
(***************************************************************************)
(* The clients of the directory, for any number of users, ports and        *)
(* deaths: GET_FILE keeps its word, who has connected stays reachable, and *)
(* the types, which say whose every socket and connection is.              *)
(*                                                                         *)
(* GetFileKeepsItsWord is not inductive: what a command returns depends on *)
(* what getfile has done to the local file some steps before, and a client *)
(* that is killed may leave a part of a file to the next one.              *)
(***************************************************************************)
EXTENDS Peers, TLAPS

Places == {"idle", "waits", "binds", "joins", "dials", "asks", "receives", "dead"}

\* A shell is a record, whatever its address and target.
ShellShape ==
  shell = [u \in User |-> [at |-> shell[u].at, port |-> shell[u].port,
                           target |-> shell[u].target, last |-> shell[u].last]]

\* At the prompt the file is what getfile said, and before there is a size
\* getfile has not begun to write.
FileInv(u) ==
  /\ At(u, "idle") => /\ shell[u].last = "ok" => local[u] = "whole"
                      /\ shell[u].last = "error" => local[u] # "part"
  /\ shell[u].at \in {"waits", "binds", "joins", "dials", "asks"} => local[u] # "part"

GetFileInv ==
  /\ ShellShape
  /\ local \in [User -> {"none", "part", "whole"}]
  /\ \A u \in User : FileInv(u)

\* What a step of u's client does to its shell and its file decides FileInv.
LEMMA OneClient ==
  ASSUME NEW u \in User, GetFileInv,
         NEW s, shell' = [shell EXCEPT ![u] = s],
         s = [at |-> s.at, port |-> s.port, target |-> s.target, last |-> s.last],
         NEW f \in {"none", "part", "whole"}, local' = [local EXCEPT ![u] = f],
         s.at = "idle" => (s.last = "ok" => f = "whole") /\ (s.last = "error" => f # "part"),
         s.at \in {"waits", "binds", "joins", "dials", "asks"} => f # "part"
  PROVE  GetFileInv'
<1>1. DOMAIN shell = User
  BY DEF GetFileInv, ShellShape
<1>2. /\ shell'[u] = s /\ local'[u] = f
      /\ \A v \in User \ {u} : shell'[v] = shell[v] /\ local'[v] = local[v]
      /\ DOMAIN shell' = User
  BY <1>1 DEF GetFileInv
<1>3. ShellShape'
  <2>1. \A v \in User : shell'[v] = [at |-> shell'[v].at, port |-> shell'[v].port,
                                    target |-> shell'[v].target, last |-> shell'[v].last]
    BY <1>2 DEF GetFileInv, ShellShape
  <2> QED BY <1>1, <2>1 DEF ShellShape
<1>4. local' \in [User -> {"none", "part", "whole"}]
  BY DEF GetFileInv
<1>5. \A v \in User : FileInv(v)'
  BY <1>2 DEF GetFileInv, FileInv, At
<1> QED BY <1>3, <1>4, <1>5 DEF GetFileInv

\* A step that leaves shells and files alone.
LEMMA NoClient ==
  GetFileInv /\ UNCHANGED <<shell, local>> => GetFileInv'
BY DEF GetFileInv, ShellShape, FileInv, At

LEMMA FileOfInit == PeersInit => GetFileInv
BY DEF PeersInit, GetFileInv, ShellShape, FileInv, At, AtPrompt

\* A step of u's client to a place, its file as it was or f.
LEMMA GoesOn ==
  ASSUME NEW u \in User, GetFileInv, NEW place \in Places \ {"idle"}, Goto(u, place),
         NEW f \in {"none", "part", "whole"}, local' = [local EXCEPT ![u] = f],
         place \in {"waits", "binds", "joins", "dials", "asks"} => f # "part"
  PROVE  GetFileInv'
<1> DEFINE s == [shell[u] EXCEPT !.at = place]
<1>1. s = [at |-> place, port |-> shell[u].port, target |-> shell[u].target, last |-> shell[u].last]
  BY DEF GetFileInv, ShellShape
<1>2. shell' = [shell EXCEPT ![u] = s]
  BY DEF Goto
<1> QED BY <1>1, <1>2, OneClient

\* The end of a command of u.
LEMMA GoesBack ==
  ASSUME NEW u \in User, GetFileInv, NEW last \in {"none", "ok", "error"}, Prompt(u, last),
         NEW f \in {"none", "part", "whole"}, local' = [local EXCEPT ![u] = f],
         last = "ok" => f = "whole",
         last = "error" => f # "part"
  PROVE  GetFileInv'
<1> DEFINE s == [AtPrompt EXCEPT !.last = last]
<1>1. s = [at |-> "idle", port |-> NoAddr, target |-> NoArg, last |-> last]
  BY DEF AtPrompt
<1>2. shell' = [shell EXCEPT ![u] = s]
  BY DEF Prompt
<1> QED BY <1>1, <1>2, OneClient

\* The file of u as it is.
LEMMA SameFile ==
  ASSUME NEW u \in User, GetFileInv, UNCHANGED local
  PROVE  /\ local[u] \in {"none", "part", "whole"}
         /\ local' = [local EXCEPT ![u] = local[u]]
         /\ FileInv(u)
BY DEF GetFileInv

LEMMA GiveKeeps ==
  ASSUME NEW u \in User, GetFileInv, Give(u) PROVE GetFileInv'
<1>1. PICK v : shell' = [shell EXCEPT ![u] = [AtPrompt EXCEPT !.at = "waits", !.target = v]]
  BY DEF Give
<1>2. local' = [local EXCEPT ![u] = "none"]
  BY DEF Give
<1> DEFINE prompt == [at |-> "waits", port |-> NoAddr, target |-> NoArg, last |-> "none"]
           s == [AtPrompt EXCEPT !.at = "waits", !.target = v]
<1>3. s = [at |-> "waits", port |-> NoAddr, target |-> v, last |-> "none"]
  <2>1. [AtPrompt EXCEPT !.at = "waits"] = prompt
    BY DEF AtPrompt
  <2>2. s = [prompt EXCEPT !.target = v]
    BY <2>1, Zenon
  <2>3. [prompt EXCEPT !.target = v]
          = [at |-> "waits", port |-> NoAddr, target |-> v, last |-> "none"]
    OBVIOUS
  <2> QED BY ONLY <2>2, <2>3
<1> QED BY <1>1, <1>2, <1>3, OneClient

\* The answer to a command: the prompt, an exception, or the next part of it.
LEMMA AnswerKeeps ==
  ASSUME NEW u \in User, GetFileInv,
         \/ RegisterReturns(u) \/ ConnectAnswered(u) \/ DisconnectAnswered(u)
         \/ GetFileAnswered(u) \/ NoResponse(u)
  PROVE  GetFileInv'
<1> USE SameFile
<1>1. UNCHANGED local /\ At(u, "waits")
  BY DEF RegisterReturns, ConnectAnswered, DisconnectAnswered, GetFileAnswered, NoResponse,
         Answered, fetchVars
<1>2. local[u] # "part"
  BY <1>1 DEF FileInv, At
<1>3. CASE \E last \in {"none", "error"} : Prompt(u, last)
  BY <1>1, <1>2, <1>3, GoesBack
<1>4. CASE \E place \in {"binds", "dials"}, p \in Addr \cup {call[u].req.arg} : GotoPort(u, place, p)
  <2>1. PICK place \in {"binds", "dials"}, p \in Addr \cup {call[u].req.arg} : GotoPort(u, place, p)
    BY <1>4
  <2> DEFINE there == [at |-> place, port |-> shell[u].port,
                       target |-> shell[u].target, last |-> shell[u].last]
             s == [shell[u] EXCEPT !.at = place, !.port = p]
  <2>2. [shell[u] EXCEPT !.at = place] = there
    BY DEF GetFileInv, ShellShape
  <2>3. s = [there EXCEPT !.port = p]
    BY ONLY <2>2, Zenon
  <2>4. [there EXCEPT !.port = p]
          = [at |-> place, port |-> p, target |-> shell[u].target, last |-> shell[u].last]
    BY ONLY TRUE
  <2>5. s = [at |-> place, port |-> p, target |-> shell[u].target, last |-> shell[u].last]
    BY ONLY <2>3, <2>4
  <2>6. shell' = [shell EXCEPT ![u] = s]
    BY <2>1 DEF GotoPort
  <2> HIDE DEF s
  <2>7. s = [at |-> s.at, port |-> s.port, target |-> s.target, last |-> s.last] /\ s.at = place
    BY <2>5
  <2> QED BY <1>1, <1>2, <2>6, <2>7, OneClient
<1>5. CASE Goto(u, "joins")
  BY <1>1, <1>2, <1>5, GoesOn DEF Places
<1> QED
  BY <1>3, <1>4, <1>5
  DEF RegisterReturns, ConnectAnswered, DisconnectAnswered, GetFileAnswered, NoResponse, Listed

\* connect and disconnect, after the server has answered.
LEMMA ListenerKeeps ==
  ASSUME NEW u \in User, GetFileInv, Binds(u) \/ BindFails(u) \/ Joins(u)
  PROVE  GetFileInv'
<1>1. UNCHANGED local /\ Prompt(u, "none")
  BY DEF Binds, BindFails, Joins, fetchVars
<1> QED BY <1>1, SameFile, GoesBack

\* getfile, after it has an address.
LEMMA FetchKeeps ==
  ASSUME NEW u \in User, GetFileInv,
         Dials(u) \/ GetsSize(u) \/ GetsNoFile(u) \/ IsCutOff(u) \/ GetsAll(u) \/ GetsPart(u)
  PROVE  GetFileInv'
<1>1. shell[u].at \in {"dials", "asks"} => local[u] # "part"
  BY DEF GetFileInv, FileInv
<1>2. CASE Dials(u)
  <2>1. CASE Goto(u, "asks") /\ UNCHANGED local
    <3>1. local[u] # "part"
      BY <1>1, <1>2 DEF Dials, At
    <3>2. local[u] \in {"none", "part", "whole"} /\ local' = [local EXCEPT ![u] = local[u]]
      BY <2>1, SameFile
    <3> QED BY <2>1, <3>1, <3>2, GoesOn DEF Places
  <2>2. CASE Prompt(u, "error") /\ local' = [local EXCEPT ![u] = "none"]
    BY <2>2, GoesBack
  <2> QED BY <1>2, <2>1, <2>2 DEF Dials
<1>3. CASE GetsSize(u)
  <2>1. Goto(u, "receives") /\ local' = [local EXCEPT ![u] = "part"]
    BY <1>3 DEF GetsSize
  <2>2. /\ "receives" \in Places \ {"idle"} /\ "part" \in {"none", "part", "whole"}
        /\ "receives" \notin {"waits", "binds", "joins", "dials", "asks"}
    BY DEF Places
  <2> QED BY ONLY <2>1, <2>2, GoesOn, GetFileInv, u \in User, Zenon
<1>4. CASE GetsNoFile(u)
  <2>1. Prompt(u, "error") /\ UNCHANGED local /\ local[u] # "part"
    BY <1>1, <1>4 DEF GetsNoFile, At
  <2> QED BY <2>1, SameFile, GoesBack
<1>5. CASE IsCutOff(u)
  <2>1. PICK f \in {"none", local[u]} : local' = [local EXCEPT ![u] = f]
    BY <1>5 DEF IsCutOff
  <2>2. f \in {"none", "part", "whole"} /\ f # "part"
    BY <1>1, <1>5, <2>1 DEF IsCutOff, At, GetFileInv
  <2>3. Prompt(u, "error")
    BY <1>5 DEF IsCutOff
  <2> QED BY <2>1, <2>2, <2>3, GoesBack
<1>6. CASE GetsAll(u)
  <2>1. Prompt(u, "ok") /\ local' = [local EXCEPT ![u] = "whole"]
    BY <1>6 DEF GetsAll
  <2> QED BY <2>1, GoesBack
<1>7. CASE GetsPart(u)
  <2>1. Prompt(u, "error") /\ local' = [local EXCEPT ![u] = "none"]
    BY <1>7 DEF GetsPart
  <2> QED BY <2>1, GoesBack
<1> QED BY <1>2, <1>3, <1>4, <1>5, <1>6, <1>7

\* A client that dies may leave a part of a file; the next one says nothing of it.
LEMMA DeathKeeps ==
  ASSUME NEW u \in User, GetFileInv, Quits(u) \/ Starts(u)
  PROVE  GetFileInv'
<1>1. UNCHANGED local
  BY DEF Quits, Starts, fetchVars
<1>2. CASE Quits(u)
  <2> DEFINE s == [AtPrompt EXCEPT !.at = "dead"]
  <2>1. s = [at |-> "dead", port |-> NoAddr, target |-> NoArg, last |-> "none"]
    BY DEF AtPrompt
  <2>2. shell' = [shell EXCEPT ![u] = s]
    BY <1>2 DEF Quits
  <2> QED BY <1>1, <2>1, <2>2, SameFile, OneClient
<1>3. CASE Starts(u)
  BY <1>1, <1>3, SameFile, GoesBack DEF Starts
<1> QED BY <1>2, <1>3

LEMMA FileOfStep == GetFileInv /\ [PeersNext]_peersVars => GetFileInv'
<1> SUFFICES ASSUME GetFileInv, [PeersNext]_peersVars PROVE GetFileInv'
  OBVIOUS
<1>1. ASSUME NEW u \in User, Give(u) \/ ShellStep(u) \/ Quits(u) \/ Starts(u)
      PROVE  GetFileInv'
  BY <1>1, GiveKeeps, AnswerKeeps, ListenerKeeps, FetchKeeps, DeathKeeps DEF ShellStep
<1>2. ASSUME NEW u \in User, ServerPrepares(u) \/ ServerPerforms(u) \/ Handles(u)
      PROVE  UNCHANGED <<shell, local>>
  BY <1>2 DEF ServerPrepares, ServerPerforms, Handles, ownVars
<1>3. ASSUME NEW p \in Addr, ThreadStep(p)
      PROVE  UNCHANGED <<shell, local>>
  BY <1>3 DEF ThreadStep, ThreadTests, ThreadAccepts, AcceptTimesOut, fetchVars
<1>4. ServerDies \/ UNCHANGED peersVars => UNCHANGED <<shell, local>>
  BY DEF ServerDies, peersVars, ownVars
<1> QED BY <1>1, <1>2, <1>3, <1>4, NoClient DEF PeersNext

-----------------------------------------------------------------------------
\* getfile (client.py, 486-561): when GET_FILE has said OK the local file is
\* whole, and when it has said FAIL there is no part of one, for any number of
\* clients and of deaths of clients and of the server.
THEOREM GetFileIsSound == PeersSpec => []GetFileKeepsItsWord
<1>1. GetFileInv => GetFileKeepsItsWord
  BY DEF GetFileInv, FileInv, GetFileKeepsItsWord
<1> QED BY FileOfInit, FileOfStep, <1>1, PTL DEF PeersSpec

-----------------------------------------------------------------------------
(* Who is registered where.  The address in the directory is the one that  *)
(* connect is about to bind, or has bound, because the requests about a    *)
(* user are all its client's, which gives one at a time.                   *)

OwnCall(u) ==
  /\ call[u].st = "idle" => call[u] = Idle
  /\ call[u].st # "idle" => /\ call[u].req.user = u
                            /\ call[u].req.op = "CONNECT" => call[u].req.arg \in Addr

ConnectOK(u) ==
  /\ call[u].st = "done" /\ call[u].req.op = "CONNECT" /\ call[u].res.code = 0
  /\ Registered(u)
  => users[u] = [addr |-> call[u].req.arg, on |-> TRUE]

BindsOK(u) ==
  At(u, "binds") => /\ call[u] = Idle
                    /\ shell[u].port \in Addr
                    /\ Registered(u) => users[u] = [addr |-> shell[u].port, on |-> TRUE]

CallInv ==
  /\ DOMAIN call = User
  /\ \A u \in User : OwnCall(u) /\ ConnectOK(u) /\ BindsOK(u)

\* What the parts of a shell are after it has moved; the others' are as before.
LEMMA ShellMoves ==
  ASSUME GetFileInv, NEW u \in User
  PROVE  /\ \A place : Goto(u, place) => /\ shell'[u].at = place /\ shell'[u].port = shell[u].port
                                         /\ \A v \in User \ {u} : shell'[v] = shell[v]
         /\ \A place : \A p : GotoPort(u, place, p) =>
                                /\ shell'[u].at = place /\ shell'[u].port = p
                                /\ \A v \in User \ {u} : shell'[v] = shell[v]
         /\ \A last : Prompt(u, last) => /\ shell'[u].at = "idle"
                                         /\ \A v \in User \ {u} : shell'[v] = shell[v]
<1>1. DOMAIN shell = User
  BY DEF GetFileInv, ShellShape
<1> DEFINE old == [at |-> shell[u].at, port |-> shell[u].port,
                   target |-> shell[u].target, last |-> shell[u].last]
<1>2. shell[u] = old
  BY DEF GetFileInv, ShellShape
<1>3. ASSUME NEW place, Goto(u, place)
      PROVE  /\ shell'[u].at = place /\ shell'[u].port = shell[u].port
             /\ \A v \in User \ {u} : shell'[v] = shell[v]
  BY <1>1, <1>2, <1>3 DEF Goto
<1>4. ASSUME NEW place, NEW p, GotoPort(u, place, p)
      PROVE  /\ shell'[u].at = place /\ shell'[u].port = p
             /\ \A v \in User \ {u} : shell'[v] = shell[v]
  <2> DEFINE there == [at |-> place, port |-> shell[u].port,
                       target |-> shell[u].target, last |-> shell[u].last]
  <2>1. [shell[u] EXCEPT !.at = place] = there
    BY <1>2
  <2>2. [there EXCEPT !.port = p]
          = [at |-> place, port |-> p, target |-> shell[u].target, last |-> shell[u].last]
    BY ONLY TRUE
  <2>3. [shell[u] EXCEPT !.at = place, !.port = p] = [there EXCEPT !.port = p]
    BY ONLY <2>1, Zenon
  <2>4. shell' = [shell EXCEPT ![u] = [shell[u] EXCEPT !.at = place, !.port = p]]
    BY <1>4 DEF GotoPort
  <2> HIDE DEF there
  <2> QED BY <1>1, <2>2, <2>3, <2>4
<1>5. ASSUME NEW last, Prompt(u, last)
      PROVE  shell'[u].at = "idle" /\ \A v \in User \ {u} : shell'[v] = shell[v]
  BY <1>1, <1>5 DEF Prompt, AtPrompt
<1> QED BY <1>3, <1>4, <1>5

LEMMA CallOfInit == PeersInit => CallInv
<1> SUFFICES ASSUME PeersInit PROVE CallInv
  OBVIOUS
<1>1. DOMAIN call = User /\ \A u \in User : call[u] = Idle /\ shell[u].at = "idle"
  BY PeersAssumption DEF PeersInit, UserInit, AtPrompt
<1> QED BY <1>1 DEF CallInv, OwnCall, ConnectOK, BindsOK, At, Idle

\* The server performs the command of u: only u's entry changes, and a CONNECT
\* that is answered with 0 has written the address of the request.
LEMMA PerformKeeps ==
  ASSUME NEW u \in User, CallInv, ServerPerforms(u) PROVE CallInv'
<1> DEFINE r == call[u].req
<1>1. r.user = u /\ call[u] # Idle /\ call[u].st = "pending" /\ UNCHANGED shell
  BY DEF CallInv, OwnCall, ServerPerforms, Idle, ownVars
<1>2. PICK x : call' = [call EXCEPT ![u] = Done(r, x)]
  BY DEF ServerPerforms, Registers, Unregisters, Connects, Disconnects, ListsUsers, Answers
<1>3. DOMAIN call' = User /\ call'[u] = Done(r, x) /\ \A v \in User \ {u} : call'[v] = call[v]
  BY <1>2 DEF CallInv
<1>4. \A v \in User \ {u} : Registered(v)' => Registered(v) /\ users'[v] = users[v]
  BY <1>1 DEF ServerPerforms, Registers, Unregisters, Connects, Disconnects, ListsUsers, Bind, Unbind,
              Registered
<1>5. \A v \in User \ {u} : (OwnCall(v) /\ ConnectOK(v) /\ BindsOK(v))'
  BY <1>1, <1>3, <1>4 DEF CallInv, OwnCall, ConnectOK, BindsOK, At
<1>6. OwnCall(u)'
  BY <1>1, <1>3 DEF CallInv, OwnCall, Done
<1>7. ConnectOK(u)'
  <2> SUFFICES ASSUME r.op = "CONNECT", x.code = 0, Registered(u)'
               PROVE  users'[u] = [addr |-> r.arg, on |-> TRUE]
    BY <1>3 DEF ConnectOK, Done
  <2>1. Connects(u, r)
    BY DEF ServerPerforms, Registers, Unregisters, Disconnects, ListsUsers
  <2>2. \A n : call' = [call EXCEPT ![u] = Done(r, Code(n))] => x.code = n
    BY <1>2 DEF CallInv, Done, Code
  <2> QED BY <1>1, <2>1, <2>2 DEF Connects, Answers, Bind, Registered
<1>8. BindsOK(u)'
  BY <1>1 DEF CallInv, BindsOK, At
<1> QED BY <1>3, <1>5, <1>6, <1>7, <1>8 DEF CallInv

\* The shell of u moves; it does not go to bind, or it has been told to.
LEMMA ShellKeepsCalls ==
  ASSUME NEW u \in User, CallInv, GetFileInv, UNCHANGED <<users>>,
         call' = call \/ call' = [call EXCEPT ![u] = Idle],
         \A v \in User \ {u} : shell'[v] = shell[v],
         shell'[u].at = "binds" =>
           /\ call'[u] = Idle
           /\ shell'[u].port \in Addr
           /\ Registered(u) => users[u] = [addr |-> shell'[u].port, on |-> TRUE]
  PROVE  CallInv'
<1>1. /\ DOMAIN call' = User
      /\ \A v \in User : call'[v] = call[v] \/ call'[v] = Idle
      /\ \A v \in User \ {u} : call'[v] = call[v]
  BY DEF CallInv
<1>2. \A v \in User : OwnCall(v)' /\ ConnectOK(v)'
  BY <1>1 DEF CallInv, OwnCall, ConnectOK, Registered, Idle
<1>3. \A v \in User : BindsOK(v)'
  BY <1>1 DEF CallInv, BindsOK, At, Registered
<1> QED BY <1>1, <1>2, <1>3 DEF CallInv

LEMMA CallOfStep == GetFileInv /\ CallInv /\ [PeersNext]_peersVars => CallInv'
<1> SUFFICES ASSUME GetFileInv, CallInv, [PeersNext]_peersVars PROVE CallInv'
  OBVIOUS
<1>1. ASSUME NEW u \in User, Give(u) PROVE CallInv'
  <2>1. PICK r \in Request : call' = [call EXCEPT ![u] = Pending(r)]
    BY <1>1 DEF Give, Invoke
  <2>2. DOMAIN call' = User /\ call'[u] = Pending(r) /\ \A v \in User \ {u} : call'[v] = call[v]
    BY <2>1 DEF CallInv
  <2>3. r.user = u
    BY <1>1, <2>2 DEF Give, Pending
  <2>4. r.op = "CONNECT" => r.arg \in Addr
    BY DEF Request
  <2>5. PICK w : shell' = [shell EXCEPT ![u] = [AtPrompt EXCEPT !.at = "waits", !.target = w]]
    BY <1>1 DEF Give
  <2>6. shell'[u].at = "waits" /\ \A v \in User \ {u} : shell'[v] = shell[v]
    BY <2>5 DEF GetFileInv, ShellShape, AtPrompt
  <2>7. UNCHANGED users
    BY <1>1 DEF Give, Invoke
  <2>8. \A v \in User \ {u} : (OwnCall(v) /\ ConnectOK(v) /\ BindsOK(v))'
    BY <2>2, <2>6, <2>7 DEF CallInv, OwnCall, ConnectOK, BindsOK, At, Registered
  <2>9. (OwnCall(u) /\ ConnectOK(u) /\ BindsOK(u))'
    BY <2>2, <2>3, <2>4, <2>6 DEF OwnCall, ConnectOK, BindsOK, At, Pending
  <2> QED BY <2>2, <2>8, <2>9 DEF CallInv
<1>2. ASSUME NEW u \in User, ServerPrepares(u) PROVE CallInv'
  BY <1>2 DEF ServerPrepares, MakesList, ownVars, CallInv, OwnCall, ConnectOK, BindsOK, At, Registered
<1>3. ASSUME NEW u \in User,
             RegisterReturns(u) \/ ConnectAnswered(u) \/ DisconnectAnswered(u) \/ GetFileAnswered(u)
      PROVE  CallInv'
  <2>1. At(u, "waits") /\ call[u].st = "done" /\ UNCHANGED users /\ call' = [call EXCEPT ![u] = Idle]
    BY <1>3 DEF RegisterReturns, ConnectAnswered, DisconnectAnswered, GetFileAnswered, Answered, Returns
  <2>2. CASE ConnectAnswered(u) /\ Reply(u).code = 0
    <3>1. GotoPort(u, "binds", call[u].req.arg) /\ call[u].req.op = "CONNECT"
      BY <2>2 DEF ConnectAnswered, Answered
    <3>2. /\ shell'[u].at = "binds" /\ shell'[u].port = call[u].req.arg
          /\ \A v \in User \ {u} : shell'[v] = shell[v]
      BY <3>1, ShellMoves
    <3>3. /\ call[u].req.arg \in Addr /\ call'[u] = Idle
          /\ Registered(u) => users[u] = [addr |-> call[u].req.arg, on |-> TRUE]
      BY <2>1, <2>2, <3>1 DEF CallInv, OwnCall, ConnectOK, Reply
    <3> QED BY <2>1, <3>2, <3>3, ShellKeepsCalls
  <2>3. CASE ~(ConnectAnswered(u) /\ Reply(u).code = 0)
    <3>1. \/ \E last : Prompt(u, last)
          \/ Goto(u, "joins")
          \/ \E p : GotoPort(u, "dials", p)
      BY <1>3, <2>3 DEF RegisterReturns, ConnectAnswered, DisconnectAnswered, GetFileAnswered
    <3>2. shell'[u].at # "binds" /\ \A v \in User \ {u} : shell'[v] = shell[v]
      BY <3>1, ShellMoves
    <3> QED BY <2>1, <3>2, ShellKeepsCalls
  <2> QED BY <2>2, <2>3
<1>4. ASSUME NEW u \in User,
             \/ NoResponse(u) \/ Binds(u) \/ BindFails(u) \/ Joins(u) \/ Dials(u) \/ GetsSize(u)
             \/ GetsNoFile(u) \/ IsCutOff(u) \/ GetsAll(u) \/ GetsPart(u)
      PROVE  CallInv'
  <2>1. UNCHANGED <<users, call>>
    BY <1>4 DEF NoResponse, Binds, BindFails, Joins, Dials, GetsSize, GetsNoFile, IsCutOff, GetsAll,
                GetsPart, userVars
  <2>2. (\E last : Prompt(u, last)) \/ \E place \in {"asks", "receives"} : Goto(u, place)
    BY <1>4 DEF NoResponse, Binds, BindFails, Joins, Dials, GetsSize, GetsNoFile, IsCutOff, GetsAll,
                GetsPart
  <2>3. shell'[u].at # "binds" /\ \A v \in User \ {u} : shell'[v] = shell[v]
    BY <2>2, ShellMoves
  <2> QED BY <2>1, <2>3, ShellKeepsCalls
<1>5. ASSUME NEW u \in User, Quits(u) PROVE CallInv'
  <2>1. UNCHANGED <<users, call>>
    BY <1>5 DEF Quits, userVars
  <2>2. shell'[u].at # "binds" /\ \A v \in User \ {u} : shell'[v] = shell[v]
    BY <1>5 DEF Quits, AtPrompt, GetFileInv, ShellShape
  <2> QED BY <2>1, <2>2, ShellKeepsCalls
<1>6. ASSUME NEW u \in User, Starts(u) PROVE CallInv'
  <2>1. UNCHANGED users /\ call' = [call EXCEPT ![u] = Idle] /\ Prompt(u, "none")
    BY <1>6 DEF Starts
  <2>2. shell'[u].at # "binds" /\ \A v \in User \ {u} : shell'[v] = shell[v]
    BY <2>1, ShellMoves
  <2> QED BY <2>1, <2>2, ShellKeepsCalls
<1>7. CASE ServerDies
  <2>1. UNCHANGED shell /\ DOMAIN call' = User /\ \A u \in User : call'[u] = Idle
    BY <1>7, PeersAssumption DEF ServerDies, Crash, ownVars
  <2>2. \A u \in User : Registered(u)' =>
          /\ Registered(u)
          /\ \A p : users[u] = [addr |-> p, on |-> TRUE] => users'[u] = [addr |-> p, on |-> TRUE]
    BY <1>7 DEF ServerDies, Crash, CrashUsers, Registered, Empty
  <2>3. \A u \in User : OwnCall(u)' /\ ConnectOK(u)'
    BY <2>1 DEF OwnCall, ConnectOK, Idle
  <2>4. \A u \in User : BindsOK(u)'
    BY <2>1, <2>2 DEF CallInv, BindsOK, At
  <2> QED BY <2>1, <2>3, <2>4 DEF CallInv
<1>8. ASSUME \/ \E u \in User : Handles(u)
             \/ \E p \in Addr : ThreadStep(p)
             \/ UNCHANGED peersVars
      PROVE  CallInv'
  <2>1. UNCHANGED <<users, call, shell>>
    BY <1>8 DEF Handles, ThreadStep, ThreadTests, ThreadAccepts, AcceptTimesOut, peersVars, userVars, ownVars
  <2> QED BY <2>1 DEF CallInv, OwnCall, ConnectOK, BindsOK, At, Registered
<1> QED BY <1>1, <1>2, <1>3, <1>4, <1>5, <1>6, <1>7, <1>8, PerformKeeps DEF PeersNext, ShellStep

-----------------------------------------------------------------------------
(* Who listens where.  A socket is bound to its client until the client    *)
(* closes it, which it does once the thread that it has told to stop has   *)
(* stopped.                                                                *)

ListenInv ==
  /\ stop \in [User -> BOOLEAN]
  /\ current \in [User -> BOOLEAN]
  /\ socket \in [User -> Addr \cup {NoAddr}]
  /\ bound \in [Addr -> User \cup {NoArg}]
  /\ thread \in [Addr -> {"none", "tests", "accepts"}]
  /\ \A p \in Addr : bound[p] = NoArg => thread[p] = "none"
  /\ \A u \in User : /\ socket[u] # NoAddr => bound[socket[u]] = u
                     /\ At(u, "joins") => stop[u]

LEMMA ListenOfInit == PeersInit => ListenInv
BY PeersAssumption DEF PeersInit, ListenInv, At, AtPrompt

\* A shell moves, or none does, and nobody begins or ends to listen.
LEMMA ShellKeepsListen ==
  ASSUME NEW u \in User, ListenInv, UNCHANGED listenVars,
         \A v \in User \ {u} : shell'[v] = shell[v],
         shell'[u].at = "joins" => stop[u]
  PROVE  ListenInv'
BY DEF ListenInv, listenVars, At

LEMMA ListenOfStep == GetFileInv /\ CallInv /\ ListenInv /\ [PeersNext]_peersVars => ListenInv'
<1> SUFFICES ASSUME GetFileInv, CallInv, ListenInv, [PeersNext]_peersVars PROVE ListenInv'
  OBVIOUS
<1>1. ASSUME NEW u \in User, Give(u) PROVE ListenInv'
  <2>1. PICK w : shell' = [shell EXCEPT ![u] = [AtPrompt EXCEPT !.at = "waits", !.target = w]]
    BY <1>1 DEF Give
  <2>2. shell'[u].at = "waits" /\ \A v \in User \ {u} : shell'[v] = shell[v]
    BY <2>1 DEF GetFileInv, ShellShape, AtPrompt
  <2>3. UNCHANGED listenVars
    BY <1>1 DEF Give
  <2> QED BY <2>2, <2>3, ShellKeepsListen
<1>2. ASSUME NEW u \in User,
             \/ RegisterReturns(u) \/ ConnectAnswered(u) \/ GetFileAnswered(u) \/ NoResponse(u)
             \/ BindFails(u) \/ Dials(u) \/ GetsSize(u) \/ GetsNoFile(u) \/ IsCutOff(u)
             \/ GetsAll(u) \/ GetsPart(u) \/ Starts(u)
      PROVE  ListenInv'
  <2>1. /\ \/ \E last : Prompt(u, last)
           \/ \E place \in {"asks", "receives"} : Goto(u, place)
           \/ \E place \in {"binds", "dials"} : \E p : GotoPort(u, place, p)
        /\ UNCHANGED listenVars
    BY <1>2 DEF RegisterReturns, ConnectAnswered, GetFileAnswered, NoResponse, BindFails, Dials,
                GetsSize, GetsNoFile, IsCutOff, GetsAll, GetsPart, Starts
  <2>2. shell'[u].at # "joins" /\ \A v \in User \ {u} : shell'[v] = shell[v]
    BY <2>1, ShellMoves
  <2> QED BY <2>1, <2>2, ShellKeepsListen
<1>3. ASSUME NEW u \in User, DisconnectAnswered(u) PROVE ListenInv'
  <2>1. UNCHANGED <<current, socket, bound, thread>>
    BY <1>3 DEF DisconnectAnswered
  <2>2. CASE Goto(u, "joins") /\ stop' = [stop EXCEPT ![u] = TRUE]
    <3>1. \A v \in User \ {u} : shell'[v] = shell[v]
      BY <2>2, ShellMoves
    <3> QED BY <2>1, <2>2, <3>1 DEF ListenInv, At
  <2>3. CASE Prompt(u, "none") /\ UNCHANGED stop
    <3>1. shell'[u].at # "joins" /\ \A v \in User \ {u} : shell'[v] = shell[v]
      BY <2>3, ShellMoves
    <3> QED BY <2>1, <2>3, <3>1, ShellKeepsListen DEF listenVars
  <2> QED BY <1>3, <2>2, <2>3 DEF DisconnectAnswered
<1>4. ASSUME NEW u \in User, Binds(u) PROVE ListenInv'
  <2> DEFINE p == shell[u].port
  <2>1. p \in Addr /\ bound[p] = NoArg
    BY <1>4 DEF Binds, CallInv, BindsOK
  <2>2. shell'[u].at = "idle" /\ \A v \in User \ {u} : shell'[v] = shell[v]
    BY <1>4, ShellMoves DEF Binds
  <2>3. /\ bound' = [bound EXCEPT ![p] = u] /\ socket' = [socket EXCEPT ![u] = p]
        /\ current' = [current EXCEPT ![u] = TRUE] /\ stop' = [stop EXCEPT ![u] = FALSE]
        /\ thread' = [thread EXCEPT ![p] = "tests"]
    BY <1>4 DEF Binds
  <2> HIDE DEF p
  <2>4. /\ stop' \in [User -> BOOLEAN] /\ current' \in [User -> BOOLEAN]
        /\ socket' \in [User -> Addr \cup {NoAddr}] /\ bound' \in [Addr -> User \cup {NoArg}]
        /\ thread' \in [Addr -> {"none", "tests", "accepts"}]
    BY <2>1, <2>3 DEF ListenInv
  <2>5. \A q \in Addr : bound'[q] = NoArg => thread'[q] = "none"
    BY <2>1, <2>3, PeersAssumption DEF ListenInv
  <2>6. \A v \in User : socket'[v] # NoAddr => bound'[socket'[v]] = v
    <3> TAKE v \in User
    <3>1. CASE v = u
      BY <2>1, <2>3, <3>1 DEF ListenInv
    <3>2. CASE v # u
      BY <2>1, <2>3, <3>2, PeersAssumption DEF ListenInv
    <3> QED BY <3>1, <3>2
  <2>7. \A v \in User : At(v, "joins")' => stop'[v]
    BY <2>2, <2>3 DEF ListenInv, At
  <2> QED BY <2>4, <2>5, <2>6, <2>7 DEF ListenInv
<1>5. ASSUME NEW u \in User, Joins(u) PROVE ListenInv'
  <2>1. shell'[u].at = "idle" /\ \A v \in User \ {u} : shell'[v] = shell[v]
    BY <1>5, ShellMoves DEF Joins
  <2>2. /\ bound' = [p \in Addr |-> IF p = socket[u] THEN NoArg ELSE bound[p]]
        /\ socket' = [socket EXCEPT ![u] = NoAddr] /\ current' = [current EXCEPT ![u] = FALSE]
        /\ UNCHANGED <<stop, thread>>
        /\ socket[u] # NoAddr => thread[socket[u]] = "none"
    BY <1>5 DEF Joins
  <2>3. /\ socket' \in [User -> Addr \cup {NoAddr}] /\ bound' \in [Addr -> User \cup {NoArg}]
        /\ current' \in [User -> BOOLEAN]
    BY <2>2 DEF ListenInv
  <2>4. \A p \in Addr : bound'[p] = NoArg => thread'[p] = "none"
    BY <2>2, UserDirectoryAssumption DEF ListenInv
  <2>5. \A v \in User : socket'[v] # NoAddr => bound'[socket'[v]] = v
    BY <2>2 DEF ListenInv
  <2>6. \A v \in User : At(v, "joins")' => stop'[v]
    BY <2>1, <2>2 DEF ListenInv, At
  <2> QED BY <2>2, <2>3, <2>4, <2>5, <2>6 DEF ListenInv
<1>6. ASSUME NEW u \in User, Quits(u) PROVE ListenInv'
  <2>1. shell'[u].at = "dead" /\ \A v \in User \ {u} : shell'[v] = shell[v]
    BY <1>6 DEF Quits, AtPrompt, GetFileInv, ShellShape
  <2>2. /\ bound' = [p \in Addr |-> IF bound[p] = u THEN NoArg ELSE bound[p]]
        /\ thread' = [p \in Addr |-> IF bound[p] = u THEN "none" ELSE thread[p]]
        /\ socket' = [socket EXCEPT ![u] = NoAddr] /\ current' = [current EXCEPT ![u] = FALSE]
        /\ stop' = [stop EXCEPT ![u] = FALSE]
    BY <1>6 DEF Quits
  <2>3. /\ stop' \in [User -> BOOLEAN] /\ current' \in [User -> BOOLEAN]
        /\ socket' \in [User -> Addr \cup {NoAddr}] /\ bound' \in [Addr -> User \cup {NoArg}]
        /\ thread' \in [Addr -> {"none", "tests", "accepts"}]
    BY <2>2 DEF ListenInv
  <2>4. \A p \in Addr : bound'[p] = NoArg => thread'[p] = "none"
    BY <2>2 DEF ListenInv
  <2>5. \A v \in User : socket'[v] # NoAddr => bound'[socket'[v]] = v
    BY <2>2 DEF ListenInv
  <2>6. \A v \in User : At(v, "joins")' => stop'[v]
    BY <2>1, <2>2 DEF ListenInv, At
  <2> QED BY <2>3, <2>4, <2>5, <2>6 DEF ListenInv
<1>7. ASSUME NEW p \in Addr, ThreadTests(p) PROVE ListenInv'
  <2>1. UNCHANGED <<shell, current, stop, socket>> /\ thread[p] = "tests"
    BY <1>7 DEF ThreadTests
  <2>2. CASE thread' = [thread EXCEPT ![p] = "accepts"] /\ UNCHANGED bound
    BY <2>1, <2>2 DEF ListenInv, At
  <2>3. CASE thread' = [thread EXCEPT ![p] = "none"] /\ UNCHANGED bound
    BY <2>1, <2>3 DEF ListenInv, At
  <2>4. CASE /\ thread' = [thread EXCEPT ![p] = "none"]
             /\ socket[bound[p]] # p
             /\ bound' = [bound EXCEPT ![p] = NoArg]
    BY <2>1, <2>4 DEF ListenInv, At
  <2> QED BY <1>7, <2>2, <2>3, <2>4 DEF ThreadTests
<1>8. ASSUME NEW p \in Addr, ThreadAccepts(p) \/ AcceptTimesOut(p) PROVE ListenInv'
  <2>1. /\ UNCHANGED <<shell, current, stop, socket, bound>>
        /\ thread[p] = "accepts" /\ thread' = [thread EXCEPT ![p] = "tests"]
    BY <1>8 DEF ThreadAccepts, AcceptTimesOut
  <2> QED BY <2>1 DEF ListenInv, At
<1>9. ASSUME \/ \E u \in User : ServerPrepares(u) \/ ServerPerforms(u) \/ Handles(u)
             \/ ServerDies
             \/ UNCHANGED peersVars
      PROVE  ListenInv'
  <2>1. UNCHANGED <<shell, listenVars>>
    BY <1>9 DEF ServerPrepares, ServerPerforms, Handles, ServerDies, peersVars, ownVars, listenVars
  <2> QED BY <2>1 DEF ListenInv, listenVars, At
<1> QED
  BY <1>1, <1>2, <1>3, <1>4, <1>5, <1>6, <1>7, <1>8, <1>9 DEF PeersNext, ShellStep, ThreadStep

-----------------------------------------------------------------------------
\* Whoever binds the port that it has registered is reachable.
LEMMA BindsReaches ==
  ASSUME CallInv, ListenInv, GetFileInv, NEW u \in User, Binds(u), Registered(u)
  PROVE  Reachable(u)'
<1> DEFINE p == shell[u].port
<1>1. p \in Addr /\ users[u] = [addr |-> p, on |-> TRUE]
  BY DEF CallInv, BindsOK, Binds
<1>2. socket'[u] = p /\ current'[u] = TRUE /\ stop'[u] = FALSE /\ bound'[p] = u /\ thread'[p] = "tests"
  BY <1>1 DEF Binds, ListenInv
<1>3. UNCHANGED users
  BY DEF Binds, userVars
<1>4. p # NoAddr
  BY <1>1, UserDirectoryAssumption
<1> HIDE DEF p
<1> QED BY <1>1, <1>2, <1>3, <1>4 DEF Reachable, Registered

\* The directory forgets or moves u only when u asks, or with the server.
LEMMA StaysRegistered ==
  ASSUME CallInv, NEW u \in User, [PeersNext]_peersVars,
         Registered(u), users[u].on = TRUE, ~Undone(u)
  PROVE  Registered(u)' /\ users'[u] = users[u]
<1>1. ASSUME NEW v \in User, ServerPerforms(v)
      PROVE  Registered(u)' /\ users'[u] = users[u]
  <2> DEFINE r == call[v].req
  <2>1. r.user = v /\ call[v] # Idle
    BY <1>1 DEF ServerPerforms, CallInv, OwnCall, Idle
  <2>2. CASE v = u
    <3>1. Registers(v, r) \/ Connects(v, r) \/ ListsUsers(v, r)
      BY <1>1, <2>1, <2>2 DEF ServerPerforms, Undone, Unregisters, Disconnects
    <3> QED BY <2>1, <2>2, <3>1 DEF Registers, Connects, ListsUsers, Registered
  <2>3. CASE v # u
    BY <1>1, <2>1, <2>3 DEF ServerPerforms, Registers, Unregisters, Connects, Disconnects, ListsUsers,
                            Bind, Unbind, Registered
  <2> QED BY <2>2, <2>3
<1>2. ASSUME ServerDies \/ \E v \in User : Quits(v)
      PROVE  FALSE
  <2>1. MaxFaults \in Nat /\ faults < MaxFaults /\ faults' = faults + 1
    BY <1>2, PeersAssumption DEF ServerDies, Quits, Fault
  <2>2. UNCHANGED faults
    BY DEF Undone
  <2> QED BY <2>1, <2>2
<1>3. ASSUME ~ \E v \in User : ServerPerforms(v)
      PROVE  UNCHANGED users
  BY <1>2, <1>3 DEF PeersNext, ShellStep, ThreadStep, Give, Invoke, ServerPrepares, MakesList,
     RegisterReturns, ConnectAnswered, DisconnectAnswered, GetFileAnswered, Answered, Returns, NoResponse,
     Binds, BindFails, Joins, Dials, GetsSize, GetsNoFile, IsCutOff, GetsAll, GetsPart, Handles, Starts,
     ThreadTests, ThreadAccepts, AcceptTimesOut, peersVars, userVars
<1> QED BY <1>1, <1>3 DEF Registered

LEMMA ReachableStep ==
  ASSUME CallInv, ListenInv, GetFileInv, NEW u \in User, [PeersNext]_peersVars, Reachable(u), ~Undone(u)
  PROVE  Reachable(u)'
<1>1. Registered(u)' /\ users'[u] = users[u]
  <2>1. Registered(u) /\ users[u].on = TRUE
    BY DEF Reachable
  <2> QED BY <2>1, StaysRegistered
<1> DEFINE p == socket[u]
<1>2. /\ p \in Addr /\ current[u] /\ ~stop[u] /\ bound[p] = u /\ thread[p] # "none"
      /\ users[u] = [addr |-> p, on |-> TRUE]
  BY DEF Reachable, ListenInv
<1>3. SUFFICES ASSUME ~Binds(u)
               PROVE  /\ UNCHANGED <<socket[u], current[u], stop[u], bound[p]>>
                      /\ thread'[p] # "none"
  BY <1>1, <1>2, BindsReaches, UserDirectoryAssumption DEF Reachable
<1>4. ASSUME NEW v \in User, Binds(v)
      PROVE  UNCHANGED <<socket[u], current[u], stop[u], bound[p]>> /\ thread'[p] # "none"
  BY <1>2, <1>3, <1>4, PeersAssumption DEF Binds, ListenInv
<1>5. ASSUME NEW v \in User, Joins(v)
      PROVE  UNCHANGED <<socket[u], current[u], stop[u], bound[p]>> /\ thread'[p] # "none"
  <2>1. v # u
    BY <1>2, <1>5 DEF Joins, ListenInv
  <2>2. socket[v] # p
    BY <1>2, <2>1, UserDirectoryAssumption DEF ListenInv
  <2> QED BY <1>2, <1>5, <2>1, <2>2 DEF Joins, ListenInv
<1>6. ASSUME NEW v \in User, DisconnectAnswered(v)
      PROVE  UNCHANGED <<socket[u], current[u], stop[u], bound[p]>> /\ thread'[p] # "none"
  <2>1. v # u
    BY <1>6 DEF DisconnectAnswered, Answered, Undone, Idle
  <2> QED BY <1>2, <1>6, <2>1 DEF DisconnectAnswered, ListenInv
<1>7. ASSUME NEW q \in Addr, ThreadTests(q)
      PROVE  UNCHANGED <<socket[u], current[u], stop[u], bound[p]>> /\ thread'[p] # "none"
  <2>1. CASE q = p
    BY <1>2, <1>7, <2>1 DEF ThreadTests, ListenInv
  <2>2. CASE q # p
    BY <1>2, <1>7, <2>2 DEF ThreadTests, ListenInv
  <2> QED BY <2>1, <2>2
<1>8. ASSUME NEW q \in Addr, ThreadAccepts(q) \/ AcceptTimesOut(q)
      PROVE  UNCHANGED <<socket[u], current[u], stop[u], bound[p]>> /\ thread'[p] # "none"
  BY <1>2, <1>8 DEF ThreadAccepts, AcceptTimesOut, ListenInv
<1>9. ASSUME NEW v \in User, Quits(v)
      PROVE  FALSE
  <2>1. MaxFaults \in Nat /\ faults < MaxFaults /\ faults' = faults + 1
    BY <1>9, PeersAssumption DEF Quits, Fault
  <2> QED BY <2>1 DEF Undone
<1>10. ASSUME UNCHANGED listenVars
       PROVE  UNCHANGED <<socket[u], current[u], stop[u], bound[p]>> /\ thread'[p] # "none"
  BY <1>2, <1>10 DEF listenVars
<1>11. \/ \E v \in User : Binds(v) \/ Joins(v) \/ DisconnectAnswered(v) \/ Quits(v)
       \/ \E q \in Addr : ThreadStep(q)
       \/ UNCHANGED listenVars
  <2>1. ASSUME NEW v \in User, Give(v) \/ ServerPrepares(v) \/ ServerPerforms(v)
        PROVE  UNCHANGED listenVars
    BY <2>1 DEF Give, ServerPrepares, ServerPerforms, ownVars, listenVars
  <2>2. ASSUME NEW v \in User, Handles(v) \/ Starts(v) PROVE UNCHANGED listenVars
    BY <2>2 DEF Handles, Starts, listenVars
  <2>3. ASSUME NEW v \in User,
               \/ RegisterReturns(v) \/ ConnectAnswered(v) \/ GetFileAnswered(v) \/ NoResponse(v)
               \/ BindFails(v) \/ Dials(v)
        PROVE  UNCHANGED listenVars
    BY <2>3 DEF RegisterReturns, ConnectAnswered, GetFileAnswered, NoResponse, BindFails, Dials,
                listenVars
  <2>4. ASSUME NEW v \in User,
               GetsSize(v) \/ GetsNoFile(v) \/ IsCutOff(v) \/ GetsAll(v) \/ GetsPart(v)
        PROVE  UNCHANGED listenVars
    BY <2>4 DEF GetsSize, GetsNoFile, IsCutOff, GetsAll, GetsPart, listenVars
  <2>5. ASSUME ServerDies PROVE UNCHANGED listenVars
    BY <2>5 DEF ServerDies, ownVars, listenVars
  <2>6. ASSUME UNCHANGED peersVars PROVE UNCHANGED listenVars
    BY <2>6 DEF peersVars, ownVars, listenVars
  <2> QED BY <2>1, <2>2, <2>3, <2>4, <2>5, <2>6 DEF PeersNext, ShellStep
<1> QED BY <1>4, <1>5, <1>6, <1>7, <1>8, <1>9, <1>10, <1>11 DEF ThreadStep

\* connect and disconnect (client.py, 185-290) and the listener thread: when
\* connect has bound the port that the directory has for its user, the client
\* is reachable at the address that the directory gives, and it remains so, for
\* any number of clients and ports, until its user leaves or disconnects or a
\* process dies.
THEOREM StaysReachable == PeersSpec => ReachableUntilUndone
<1>1. CallInv /\ ListenInv /\ GetFileInv /\ [PeersNext]_peersVars =>
        [\A u \in User :
           /\ Reachable(u) => Reachable(u)' \/ Undone(u)
           /\ Binds(u) /\ Registered(u) => Reachable(u)']_peersVars
  BY ReachableStep, BindsReaches
<1> QED
  BY FileOfInit, FileOfStep, CallOfInit, CallOfStep, ListenOfInit, ListenOfStep, <1>1, PTL
  DEF PeersSpec, ReachableUntilUndone

-----------------------------------------------------------------------------
(* Who waits in which backlog: the clients whose connection is queued      *)
(* there, each of them once.                                               *)

Distinct(q) == \A m, n \in DOMAIN q : q[m] = q[n] => m = n

\* A queue of which one has been taken out has all the others, once each.
LEMMA WithoutIs ==
  ASSUME NEW q \in Seq(User), Distinct(q), NEW u
  PROVE  /\ Without(q, u) \in Seq(User)
         /\ Distinct(Without(q, u))
         /\ \A n \in DOMAIN Without(q, u) : Without(q, u)[n] # u
         /\ \A n \in DOMAIN Without(q, u) : \E m \in DOMAIN q : Without(q, u)[n] = q[m]
         /\ \A m \in DOMAIN q : q[m] # u => \E n \in DOMAIN Without(q, u) : Without(q, u)[n] = q[m]
<1>1. CASE ~ \E n \in DOMAIN q : q[n] = u
  BY <1>1 DEF Without
<1>2. CASE \E n \in DOMAIN q : q[n] = u
  <2> DEFINE k == CHOOSE n \in DOMAIN q : q[n] = u
             at(n) == IF n < k THEN n ELSE n + 1
             w == [n \in 1..Len(q) - 1 |-> q[at(n)]]
  <2>1. Len(q) \in Nat /\ DOMAIN q = 1..Len(q) /\ k \in 1..Len(q) /\ q[k] = u
    BY <1>2
  <2>2. Without(q, u) = w
    BY <1>2 DEF Without
  <2> HIDE DEF k
  <2>3. \A n \in 1..Len(q) - 1 : at(n) \in 1..Len(q) /\ at(n) # k
    BY <2>1
  <2>4. \A m, n \in 1..Len(q) - 1 : at(m) = at(n) => m = n
    BY <2>1
  <2>5. /\ DOMAIN w = 1..Len(q) - 1
        /\ \A n \in 1..Len(q) - 1 : w[n] = q[at(n)] /\ w[n] \in User
    BY <2>1, <2>3
  <2>6. w \in Seq(User)
    <3>1. Len(q) - 1 \in Nat
      BY <2>1
    <3>2. w \in [1..Len(q) - 1 -> User]
      BY <2>1, <2>3
    <3> HIDE DEF w
    <3> QED BY <3>1, <3>2
  <2> HIDE DEF w
  <2>7. Distinct(w)
    BY <2>1, <2>3, <2>4, <2>5 DEF Distinct
  <2>8. \A n \in DOMAIN w : w[n] # u /\ \E m \in DOMAIN q : w[n] = q[m]
    BY <2>1, <2>3, <2>5 DEF Distinct
  <2>9. ASSUME NEW m \in DOMAIN q, q[m] # u
        PROVE  \E n \in DOMAIN w : w[n] = q[m]
    <3>1. CASE m < k
      <4>1. m \in 1..Len(q) - 1 /\ at(m) = m
        BY <2>1, <3>1
      <4> QED BY <2>5, <4>1
    <3>2. CASE m > k
      <4>1. m - 1 \in 1..Len(q) - 1 /\ at(m - 1) = m
        BY <2>1, <3>2
      <4> QED BY <2>5, <4>1
    <3> QED BY <2>1, <2>9, <3>1, <3>2
  <2> QED BY <2>2, <2>6, <2>7, <2>8, <2>9
<1> QED BY <1>1, <1>2

\* The first is taken out.
LEMMA TailIs ==
  ASSUME NEW q \in Seq(User), Distinct(q), q # <<>>
  PROVE  /\ Head(q) \in User
         /\ Tail(q) \in Seq(User)
         /\ Distinct(Tail(q))
         /\ \A n \in DOMAIN Tail(q) : Tail(q)[n] # Head(q)
         /\ \A n \in DOMAIN Tail(q) : \E m \in DOMAIN q : Tail(q)[n] = q[m]
         /\ \A m \in DOMAIN q : q[m] # Head(q) => \E n \in DOMAIN Tail(q) : Tail(q)[n] = q[m]
<1>1. /\ Len(q) \in Nat \ {0} /\ DOMAIN q = 1..Len(q) /\ Head(q) = q[1] /\ Head(q) \in User
      /\ Tail(q) \in Seq(User) /\ Len(Tail(q)) = Len(q) - 1 /\ DOMAIN Tail(q) = 1..Len(q) - 1
      /\ \A n \in 1..Len(q) - 1 : Tail(q)[n] = q[n + 1]
  OBVIOUS
<1>2. Distinct(Tail(q))
  BY <1>1 DEF Distinct
<1>3. \A n \in DOMAIN Tail(q) : Tail(q)[n] # Head(q)
  BY <1>1 DEF Distinct
<1>4. \A n \in DOMAIN Tail(q) : \E m \in DOMAIN q : Tail(q)[n] = q[m]
  BY <1>1
<1>5. ASSUME NEW m \in DOMAIN q, q[m] # Head(q)
      PROVE  \E n \in DOMAIN Tail(q) : Tail(q)[n] = q[m]
  <2>1. m - 1 \in DOMAIN Tail(q) /\ Tail(q)[m - 1] = q[m]
    BY <1>1, <1>5
  <2> QED BY <2>1
<1> QED BY <1>1, <1>2, <1>3, <1>4, <1>5

\* One is put at the end.
LEMMA AppendIs ==
  ASSUME NEW q \in Seq(User), Distinct(q), NEW u \in User, \A n \in DOMAIN q : q[n] # u
  PROVE  /\ Append(q, u) \in Seq(User)
         /\ Distinct(Append(q, u))
         /\ \A n \in DOMAIN Append(q, u) :
              Append(q, u)[n] # u => \E m \in DOMAIN q : Append(q, u)[n] = q[m]
         /\ \A m \in DOMAIN q : \E n \in DOMAIN Append(q, u) : Append(q, u)[n] = q[m]
         /\ \E n \in DOMAIN Append(q, u) : Append(q, u)[n] = u
<1> DEFINE a == Append(q, u)
<1>1. /\ Len(q) \in Nat /\ DOMAIN q = 1..Len(q)
      /\ a \in Seq(User) /\ Len(a) = Len(q) + 1 /\ DOMAIN a = 1..Len(q) + 1
      /\ \A n \in 1..Len(q) : a[n] = q[n]
      /\ a[Len(q) + 1] = u
  OBVIOUS
<1> HIDE DEF a
<1>2. \A n \in DOMAIN a : n \in DOMAIN q \/ n = Len(q) + 1
  BY <1>1
<1>3. Distinct(a)
  BY <1>1, <1>2 DEF Distinct
<1>4. \A m \in DOMAIN q : m \in DOMAIN a
  BY <1>1
<1>5. Len(q) + 1 \in DOMAIN a
  BY <1>1
<1>6. a \in Seq(User) /\ Distinct(a)
      /\ (\A n \in DOMAIN a : a[n] # u => \E m \in DOMAIN q : a[n] = q[m])
      /\ (\A m \in DOMAIN q : \E n \in DOMAIN a : a[n] = q[m])
      /\ \E n \in DOMAIN a : a[n] = u
  BY <1>1, <1>2, <1>3, <1>4, <1>5
<1> QED BY <1>6 DEF a

Waits(p, u) == \E n \in DOMAIN backlog[p] : backlog[p][n] = u

ConnShape ==
  conn = [u \in User |-> [to |-> conn[u].to, peer |-> conn[u].peer, st |-> conn[u].st]]

\* A connection is in the backlog of whoever has the port, or has been accepted.
QueueOK(u) ==
  /\ \A p \in Addr : Waits(p, u) <=> conn[u].st = "queued" /\ conn[u].to = p
  /\ conn[u].st = "queued" => /\ conn[u].to \in Addr
                              /\ conn[u].peer \in User
                              /\ bound[conn[u].to] = conn[u].peer

FetchOK(u) ==
  /\ conn[u].st # "none" <=> shell[u].at \in {"asks", "receives"}
  /\ At(u, "dials") => shell[u].port \in Addr

ConnInv ==
  /\ backlog \in [Addr -> Seq(User)]
  /\ \A p \in Addr : Distinct(backlog[p])
  /\ ConnShape
  /\ \A u \in User : QueueOK(u) /\ FetchOK(u)

LEMMA ConnOfInit == PeersInit => ConnInv
<1> SUFFICES ASSUME PeersInit PROVE ConnInv
  OBVIOUS
<1>1. backlog = [p \in Addr |-> <<>>] /\ conn = [u \in User |-> NoConn]
  BY DEF PeersInit
<1>2. backlog \in [Addr -> Seq(User)] /\ \A p \in Addr : DOMAIN backlog[p] = {}
  BY <1>1
<1>3. ConnShape
  BY <1>1 DEF ConnShape, NoConn
<1>4. \A u \in User : conn[u].st = "none" /\ shell[u].at = "idle"
  <2>1. NoConn.st = "none" /\ AtPrompt.at = "idle"
    BY DEF NoConn, AtPrompt
  <2> QED BY <1>1, <2>1 DEF PeersInit
<1> QED BY <1>2, <1>3, <1>4 DEF ConnInv, Distinct, QueueOK, FetchOK, Waits, At

\* The shell of u moves, and no connection does.
LEMMA ShellKeepsConn ==
  ASSUME NEW u \in User, ConnInv, UNCHANGED <<backlog, conn>>,
         \A v \in User : conn[v].st = "queued" => bound'[conn[v].to] = bound[conn[v].to],
         \A v \in User \ {u} : shell'[v] = shell[v],
         shell'[u].at \in {"asks", "receives"} <=> shell[u].at \in {"asks", "receives"},
         shell'[u].at = "dials" => shell'[u].port \in Addr
  PROVE  ConnInv'
<1>1. \A v \in User : QueueOK(v)'
  BY DEF ConnInv, QueueOK, Waits
<1>2. \A v \in User : FetchOK(v)'
  BY DEF ConnInv, FetchOK, At
<1> QED BY <1>1, <1>2 DEF ConnInv, ConnShape, Distinct

\* The connection of u ends or goes on after it has been accepted.
LEMMA OneConnection ==
  ASSUME NEW u \in User, ConnInv, UNCHANGED <<bound, backlog>>, conn[u].st # "queued",
         NEW c, c = [to |-> c.to, peer |-> c.peer, st |-> c.st], c.st # "queued",
         conn' = [conn EXCEPT ![u] = c],
         \A v \in User \ {u} : shell'[v] = shell[v],
         c.st # "none" <=> shell'[u].at \in {"asks", "receives"},
         shell'[u].at # "dials"
  PROVE  ConnInv'
<1>1. DOMAIN conn = User
  BY DEF ConnInv, ConnShape
<1>2. DOMAIN conn' = User /\ conn'[u] = c /\ \A v \in User \ {u} : conn'[v] = conn[v]
  BY <1>1
<1>3. ConnShape'
  <2>1. \A v \in User : conn'[v] = [to |-> conn'[v].to, peer |-> conn'[v].peer, st |-> conn'[v].st]
    BY <1>2 DEF ConnInv, ConnShape
  <2>2. conn' = [v \in User |-> conn'[v]]
    BY <1>1
  <2> QED BY <2>1, <2>2 DEF ConnShape
<1>4. \A v \in User : QueueOK(v)'
  BY <1>2 DEF ConnInv, QueueOK, Waits
<1>5. \A v \in User : FetchOK(v)'
  BY <1>2 DEF ConnInv, FetchOK, At
<1> QED BY <1>3, <1>4, <1>5 DEF ConnInv, Distinct

\* The connection of u is cut, or is as it was.
CutOrKept(u, cut) ==
  /\ conn'[u] = [to |-> conn'[u].to, peer |-> conn'[u].peer, st |-> conn'[u].st]
  /\ conn'[u].to = conn[u].to /\ conn'[u].peer = conn[u].peer
  /\ cut => conn'[u].st = "cut"
  /\ ~cut => conn'[u].st = conn[u].st

LEMMA ConnectionIs ==
  ASSUME ConnInv, NEW u \in User, NEW cut \in BOOLEAN,
         conn'[u] = IF cut THEN [conn[u] EXCEPT !.st = "cut"] ELSE conn[u]
  PROVE  CutOrKept(u, cut)
<1>1. conn[u] = [to |-> conn[u].to, peer |-> conn[u].peer, st |-> conn[u].st]
  BY DEF ConnInv, ConnShape
<1>2. CASE cut
  <2>1. conn'[u] = [to |-> conn[u].to, peer |-> conn[u].peer, st |-> "cut"]
    BY <1>1, <1>2
  <2> QED BY <1>2, <2>1 DEF CutOrKept
<1>3. CASE ~cut
  BY <1>1, <1>3 DEF CutOrKept
<1> QED BY <1>2, <1>3

\* Sockets are closed with what waits there; whose shell does it goes nowhere.
LEMMA ResetKeeps ==
  ASSUME NEW ports, ConnInv, Reset(ports),
         \A p \in Addr \ ports : bound'[p] = bound[p],
         \A u \in User : \/ shell'[u] = shell[u]
                         \/ shell[u].at \notin {"asks", "receives"} /\ shell'[u].at = "idle"
  PROVE  ConnInv'
<1>1. backlog' = [p \in Addr |-> IF p \in ports THEN <<>> ELSE backlog[p]]
  BY DEF Reset
<1>2. \A u \in User : conn'[u] = IF conn[u].st = "queued" /\ conn[u].to \in ports
                                   THEN [conn[u] EXCEPT !.st = "cut"] ELSE conn[u]
  BY DEF Reset
<1>3. \A u \in User : CutOrKept(u, conn[u].st = "queued" /\ conn[u].to \in ports)
  BY <1>2, ConnectionIs
<1>4. ConnShape'
  <2>1. conn' = [u \in User |-> conn'[u]]
    BY DEF Reset
  <2>2. \A u \in User : conn'[u] = [to |-> conn'[u].to, peer |-> conn'[u].peer, st |-> conn'[u].st]
    BY <1>3 DEF CutOrKept
  <2> QED BY <2>1, <2>2 DEF ConnShape
<1>5. backlog' \in [Addr -> Seq(User)] /\ \A p \in Addr : Distinct(backlog'[p])
  BY <1>1 DEF ConnInv, Distinct
<1>6. \A p \in Addr : \A u \in User : Waits(p, u)' <=> p \notin ports /\ Waits(p, u)
  BY <1>1 DEF Waits
<1>7. \A u \in User : QueueOK(u)'
  <2> TAKE u \in User
  <2>1. QueueOK(u) /\ CutOrKept(u, conn[u].st = "queued" /\ conn[u].to \in ports)
    BY <1>3 DEF ConnInv
  <2>2. CASE conn[u].st = "queued" /\ conn[u].to \in ports
    <3>1. conn'[u].st = "cut"
      BY <2>1, <2>2 DEF CutOrKept
    <3> QED BY <1>6, <2>1, <2>2, <3>1 DEF QueueOK
  <2>3. CASE ~(conn[u].st = "queued" /\ conn[u].to \in ports)
    <3>1. conn'[u].st = conn[u].st /\ conn'[u].to = conn[u].to /\ conn'[u].peer = conn[u].peer
      BY <2>1, <2>3 DEF CutOrKept
    <3> QED BY <1>6, <2>1, <2>3, <3>1 DEF QueueOK
  <2> QED BY <2>2, <2>3
<1>8. \A u \in User : FetchOK(u)'
  <2> TAKE u \in User
  <2>1. FetchOK(u) /\ CutOrKept(u, conn[u].st = "queued" /\ conn[u].to \in ports)
    BY <1>3 DEF ConnInv
  <2>2. conn'[u].st # "none" <=> conn[u].st # "none"
    BY <2>1 DEF CutOrKept
  <2> QED BY <2>1, <2>2 DEF FetchOK, At
<1> QED BY <1>4, <1>5, <1>7, <1>8 DEF ConnInv, Distinct

LEMMA AcceptKeepsConn ==
  ASSUME NEW p \in Addr, ConnInv, ThreadAccepts(p) PROVE ConnInv'
<1> DEFINE q == backlog[p]
           u == Head(q)
<1>1. q \in Seq(User) /\ Distinct(q) /\ q # <<>>
  BY DEF ConnInv, ThreadAccepts
<1>2. /\ u \in User /\ Tail(q) \in Seq(User) /\ Distinct(Tail(q))
      /\ \A v \in User : (\E n \in DOMAIN Tail(q) : Tail(q)[n] = v)
                           <=> v # u /\ \E n \in DOMAIN q : q[n] = v
  <2>1. /\ u \in User /\ Tail(q) \in Seq(User) /\ Distinct(Tail(q))
        /\ \A n \in DOMAIN Tail(q) : Tail(q)[n] # u
        /\ \A n \in DOMAIN Tail(q) : \E m \in DOMAIN q : Tail(q)[n] = q[m]
        /\ \A m \in DOMAIN q : q[m] # u => \E n \in DOMAIN Tail(q) : Tail(q)[n] = q[m]
    BY ONLY <1>1, TailIs
  <2> HIDE DEF q, u
  <2> QED BY <2>1
<1>3. Waits(p, u)
  <2>1. 1 \in DOMAIN q /\ q[1] = u
    BY <1>1
  <2> QED BY <2>1 DEF Waits
<1>4. /\ backlog' = [backlog EXCEPT ![p] = Tail(q)] /\ conn' = [conn EXCEPT ![u].st = "open"]
      /\ UNCHANGED <<shell, bound>>
  BY DEF ThreadAccepts
<1>5. DOMAIN backlog = Addr /\ DOMAIN conn = User
  BY DEF ConnInv, ConnShape
<1> HIDE DEF u
<1>6. /\ conn'[u] = [to |-> conn[u].to, peer |-> conn[u].peer, st |-> "open"]
      /\ \A v \in User \ {u} : conn'[v] = conn[v]
  <2>1. conn[u] = [to |-> conn[u].to, peer |-> conn[u].peer, st |-> conn[u].st]
    BY <1>2 DEF ConnInv, ConnShape
  <2> QED BY <1>2, <1>4, <1>5, <2>1
<1>7. ConnShape'
  <2>1. conn' = [v \in User |-> conn'[v]]
    BY <1>4, <1>5
  <2>2. \A v \in User : conn'[v] = [to |-> conn'[v].to, peer |-> conn'[v].peer, st |-> conn'[v].st]
    BY <1>6 DEF ConnInv, ConnShape
  <2> QED BY <2>1, <2>2 DEF ConnShape
<1>8. backlog' \in [Addr -> Seq(User)] /\ \A r \in Addr : Distinct(backlog'[r])
  BY <1>2, <1>4, <1>5 DEF ConnInv
<1>9. \A r \in Addr : \A v \in User : Waits(r, v)' <=> Waits(r, v) /\ (r = p => v # u)
  BY <1>2, <1>4, <1>5 DEF Waits
<1>10. \A v \in User : QueueOK(v)'
  BY <1>2, <1>3, <1>4, <1>6, <1>9 DEF ConnInv, QueueOK
<1>11. \A v \in User : FetchOK(v)'
  <2>1. conn[u].st = "queued"
    BY <1>2, <1>3 DEF ConnInv, QueueOK
  <2> QED BY <1>2, <1>4, <1>6, <2>1 DEF ConnInv, FetchOK, At
<1> QED BY <1>7, <1>8, <1>10, <1>11 DEF ConnInv, Distinct

LEMMA DialKeepsConn ==
  ASSUME NEW u \in User, GetFileInv, ListenInv, ConnInv, Dials(u) PROVE ConnInv'
<1> DEFINE p == shell[u].port
           q == backlog[p]
<1>1. /\ p \in Addr /\ conn[u].st = "none" /\ shell[u].at = "dials"
      /\ DOMAIN backlog = Addr /\ DOMAIN conn = User
  BY DEF Dials, ConnInv, ConnShape, FetchOK, At
<1> HIDE DEF p
<1>2. CASE Prompt(u, "error") /\ UNCHANGED <<backlog, conn>>
  <2>1. shell'[u].at = "idle" /\ \A v \in User \ {u} : shell'[v] = shell[v]
    BY <1>2, ShellMoves
  <2>2. UNCHANGED bound
    BY DEF Dials, listenVars
  <2> QED BY <1>1, <1>2, <2>1, <2>2, ShellKeepsConn
<1>3. CASE /\ bound[p] # NoArg
           /\ conn' = [conn EXCEPT ![u] = [to |-> p, peer |-> bound[p], st |-> "queued"]]
           /\ backlog' = [backlog EXCEPT ![p] = Append(q, u)]
           /\ Goto(u, "asks")
  <2>1. shell'[u].at = "asks" /\ \A v \in User \ {u} : shell'[v] = shell[v]
    BY <1>3, ShellMoves
  <2>2. UNCHANGED bound /\ bound[p] \in User
    BY <1>1, <1>3 DEF Dials, listenVars, ListenInv
  <2>3. q \in Seq(User) /\ Distinct(q) /\ \A n \in DOMAIN q : q[n] # u
    BY <1>1 DEF ConnInv, QueueOK, Waits
  <2>4. /\ Append(q, u) \in Seq(User) /\ Distinct(Append(q, u))
        /\ \A n \in DOMAIN Append(q, u) :
             Append(q, u)[n] # u => \E m \in DOMAIN q : Append(q, u)[n] = q[m]
        /\ \A m \in DOMAIN q : \E n \in DOMAIN Append(q, u) : Append(q, u)[n] = q[m]
        /\ \E n \in DOMAIN Append(q, u) : Append(q, u)[n] = u
    BY <2>3, AppendIs
  <2> DEFINE a == Append(q, u)
  <2>5. backlog'[p] = a /\ \A r \in Addr \ {p} : backlog'[r] = backlog[r]
    BY <1>1, <1>3
  <2>6. backlog' \in [Addr -> Seq(User)] /\ \A r \in Addr : Distinct(backlog'[r])
    BY <1>3, <2>4, <2>5 DEF ConnInv
  <2> HIDE DEF a
  <2>7. \A v \in User : (\E n \in DOMAIN a : a[n] = v) <=> v = u \/ \E n \in DOMAIN q : q[n] = v
    BY <2>4 DEF a
  <2> HIDE DEF q
  <2>8. \A r \in Addr : \A v \in User : Waits(r, v)' <=> Waits(r, v) \/ (r = p /\ v = u)
    BY <2>5, <2>7 DEF Waits, q
  <2>9. /\ conn'[u] = [to |-> p, peer |-> bound[p], st |-> "queued"]
        /\ \A v \in User \ {u} : conn'[v] = conn[v]
    BY <1>1, <1>3
  <2>10. ConnShape'
    <3>1. conn' = [v \in User |-> conn'[v]]
      BY <1>1, <1>3
    <3>2. \A v \in User : conn'[v] = [to |-> conn'[v].to, peer |-> conn'[v].peer, st |-> conn'[v].st]
      BY <2>9 DEF ConnInv, ConnShape
    <3> QED BY <3>1, <3>2 DEF ConnShape
  <2>11. \A v \in User : QueueOK(v)'
    BY <1>1, <2>2, <2>8, <2>9 DEF ConnInv, QueueOK
  <2>12. \A v \in User : FetchOK(v)'
    BY <2>1, <2>9 DEF ConnInv, FetchOK, At
  <2> QED BY <2>6, <2>10, <2>11, <2>12 DEF ConnInv, Distinct
<1> QED BY <1>2, <1>3 DEF Dials, p

LEMMA QuitKeepsConn ==
  ASSUME NEW u \in User, GetFileInv, ListenInv, ConnInv, Quits(u) PROVE ConnInv'
<1>1. shell'[u].at = "dead" /\ \A v \in User \ {u} : shell'[v] = shell[v]
  BY DEF Quits, AtPrompt, GetFileInv, ShellShape
<1>2. /\ bound' = [p \in Addr |-> IF bound[p] = u THEN NoArg ELSE bound[p]]
      /\ backlog' = [p \in Addr |-> IF bound[p] = u THEN <<>> ELSE Without(backlog[p], u)]
  BY DEF Quits
<1>3. \A v \in User : conn'[v] =
        IF v = u THEN NoConn
        ELSE IF conn[v].peer = u /\ conn[v].st \in {"queued", "open", "sized", "half"}
          THEN [conn[v] EXCEPT !.st = "cut"] ELSE conn[v]
  BY DEF Quits
<1>4. conn'[u] = [to |-> NoAddr, peer |-> NoArg, st |-> "none"]
  BY <1>3 DEF NoConn
<1>5. \A v \in User \ {u} :
        CutOrKept(v, conn[v].peer = u /\ conn[v].st \in {"queued", "open", "sized", "half"})
  BY <1>3, ConnectionIs
<1>6. ConnShape'
  <2>1. conn' = [v \in User |-> conn'[v]]
    BY DEF Quits
  <2>2. \A v \in User : conn'[v] = [to |-> conn'[v].to, peer |-> conn'[v].peer, st |-> conn'[v].st]
    BY <1>4, <1>5 DEF CutOrKept
  <2> QED BY <2>1, <2>2 DEF ConnShape
<1>7. \A p \in Addr :
        /\ Without(backlog[p], u) \in Seq(User)
        /\ Distinct(Without(backlog[p], u))
        /\ \A v \in User : (\E n \in DOMAIN Without(backlog[p], u) : Without(backlog[p], u)[n] = v)
                             <=> v # u /\ Waits(p, v)
  <2> TAKE p \in Addr
  <2>1. backlog[p] \in Seq(User) /\ Distinct(backlog[p])
    BY DEF ConnInv
  <2> DEFINE q == backlog[p]
             w == Without(q, u)
  <2>2. /\ w \in Seq(User) /\ Distinct(w)
        /\ \A n \in DOMAIN w : w[n] # u
        /\ \A n \in DOMAIN w : \E m \in DOMAIN q : w[n] = q[m]
        /\ \A m \in DOMAIN q : q[m] # u => \E n \in DOMAIN w : w[n] = q[m]
    BY ONLY <2>1, WithoutIs
  <2> HIDE DEF w, q
  <2>3. \A v \in User : (\E n \in DOMAIN w : w[n] = v) <=> v # u /\ \E n \in DOMAIN q : q[n] = v
    BY <2>2
  <2> QED BY <2>2, <2>3 DEF Waits, w, q
<1>8. backlog' \in [Addr -> Seq(User)] /\ \A p \in Addr : Distinct(backlog'[p])
  <2>1. \A p \in Addr : backlog'[p] \in Seq(User) /\ Distinct(backlog'[p])
    <3> TAKE p \in Addr
    <3>1. CASE bound[p] = u
      BY <1>2, <3>1 DEF Distinct
    <3>2. CASE bound[p] # u
      <4>1. backlog'[p] = Without(backlog[p], u)
        BY <1>2, <3>2
      <4> QED BY <1>7, <4>1
    <3> QED BY <3>1, <3>2
  <2>2. backlog' = [p \in Addr |-> backlog'[p]]
    BY <1>2
  <2> QED BY <2>1, <2>2
<1>9. \A p \in Addr : \A v \in User : Waits(p, v)' <=> bound[p] # u /\ v # u /\ Waits(p, v)
  <2> TAKE p \in Addr
  <2>1. CASE bound[p] = u
    BY <1>2, <2>1 DEF Waits
  <2>2. CASE bound[p] # u
    <3>1. backlog'[p] = Without(backlog[p], u)
      BY <1>2, <2>2
    <3> QED BY <1>7, <2>2, <3>1 DEF Waits
  <2> QED BY <2>1, <2>2
<1>10. \A v \in User : QueueOK(v)'
  <2>1. QueueOK(u)'
    BY <1>4, <1>9 DEF QueueOK
  <2>2. ASSUME NEW v \in User \ {u} PROVE QueueOK(v)'
    <3>1. QueueOK(v)
      BY DEF ConnInv
    <3>2. CASE conn[v].st = "queued" /\ conn[v].peer = u
      <4>1. conn'[v].st = "cut"
        BY <1>5, <3>2 DEF CutOrKept
      <4> QED BY <1>9, <3>1, <3>2, <4>1 DEF QueueOK
    <3>3. CASE conn[v].st = "queued" /\ conn[v].peer # u
      <4>1. conn'[v].st = "queued" /\ conn'[v].to = conn[v].to /\ conn'[v].peer = conn[v].peer
        BY <1>5, <3>3 DEF CutOrKept
      <4>2. bound[conn[v].to] # u /\ bound'[conn[v].to] = conn[v].peer
        BY <1>2, <3>1, <3>3 DEF QueueOK
      <4> QED BY <1>9, <3>1, <3>3, <4>1, <4>2 DEF QueueOK
    <3>4. CASE conn[v].st # "queued"
      <4>1. conn'[v].st # "queued"
        BY <1>5, <3>4 DEF CutOrKept
      <4> QED BY <1>9, <3>1, <3>4, <4>1 DEF QueueOK
    <3> QED BY <3>2, <3>3, <3>4
  <2> QED BY <2>1, <2>2
<1>11. \A v \in User : FetchOK(v)'
  <2>1. FetchOK(u)'
    BY <1>1, <1>4 DEF FetchOK, At
  <2>2. \A v \in User \ {u} : FetchOK(v)'
    BY <1>1, <1>5 DEF ConnInv, FetchOK, At, CutOrKept
  <2> QED BY <2>1, <2>2
<1> QED BY <1>6, <1>8, <1>10, <1>11 DEF ConnInv, Distinct

LEMMA ConnOfStep == GetFileInv /\ CallInv /\ ListenInv /\ ConnInv /\ [PeersNext]_peersVars => ConnInv'
<1> SUFFICES ASSUME GetFileInv, CallInv, ListenInv, ConnInv, [PeersNext]_peersVars PROVE ConnInv'
  OBVIOUS
<1>1. ASSUME NEW u \in User, Give(u) PROVE ConnInv'
  <2>1. PICK w : shell' = [shell EXCEPT ![u] = [AtPrompt EXCEPT !.at = "waits", !.target = w]]
    BY <1>1 DEF Give
  <2>2. shell'[u].at = "waits" /\ \A v \in User \ {u} : shell'[v] = shell[v]
    BY <2>1 DEF GetFileInv, ShellShape, AtPrompt
  <2>3. UNCHANGED <<bound, backlog, conn>> /\ shell[u].at = "idle"
    BY <1>1 DEF Give, listenVars, At
  <2> QED BY <2>2, <2>3, ShellKeepsConn
<1>2. ASSUME NEW u \in User,
             \/ RegisterReturns(u) \/ ConnectAnswered(u) \/ DisconnectAnswered(u) \/ GetFileAnswered(u)
             \/ NoResponse(u) \/ BindFails(u) \/ Starts(u)
      PROVE  ConnInv'
  <2>1. UNCHANGED <<bound, backlog, conn>> /\ shell[u].at \in {"waits", "binds", "dead"}
    BY <1>2 DEF RegisterReturns, ConnectAnswered, DisconnectAnswered, GetFileAnswered, Answered,
                NoResponse, BindFails, Starts, listenVars, fetchVars, At
  <2>2. \/ \E last : Prompt(u, last)
        \/ Goto(u, "joins")
        \/ \E p : GotoPort(u, "binds", p)
        \/ \E p \in Addr : GotoPort(u, "dials", p)
    BY <1>2 DEF RegisterReturns, ConnectAnswered, DisconnectAnswered, GetFileAnswered, NoResponse,
                BindFails, Starts, Listed
  <2>3. /\ shell'[u].at \notin {"asks", "receives"}
        /\ shell'[u].at = "dials" => shell'[u].port \in Addr
        /\ \A v \in User \ {u} : shell'[v] = shell[v]
    BY <2>2, ShellMoves
  <2> QED BY <2>1, <2>3, ShellKeepsConn
<1>3. ASSUME NEW u \in User, Binds(u) PROVE ConnInv'
  <2>1. shell'[u].at = "idle" /\ \A v \in User \ {u} : shell'[v] = shell[v]
    BY <1>3, ShellMoves DEF Binds
  <2>2. /\ UNCHANGED <<backlog, conn>> /\ shell[u].at = "binds" /\ bound[shell[u].port] = NoArg
        /\ bound' = [bound EXCEPT ![shell[u].port] = u]
    BY <1>3 DEF Binds, fetchVars, At
  <2>3. \A v \in User : conn[v].st = "queued" => bound'[conn[v].to] = bound[conn[v].to]
    <3>1. \A v \in User : conn[v].st = "queued" => conn[v].to \in Addr /\ bound[conn[v].to] # NoArg
      BY PeersAssumption DEF ConnInv, QueueOK
    <3>2. DOMAIN bound = Addr
      BY DEF ListenInv
    <3> QED BY <2>2, <3>1, <3>2
  <2> QED BY <2>1, <2>2, <2>3, ShellKeepsConn
<1>4. ASSUME NEW u \in User, Joins(u) PROVE ConnInv'
  <2>1. shell'[u].at = "idle" /\ \A v \in User \ {u} : shell'[v] = shell[v]
    BY <1>4, ShellMoves DEF Joins
  <2>2. Reset({socket[u]}) /\ shell[u].at = "joins"
        /\ bound' = [p \in Addr |-> IF p = socket[u] THEN NoArg ELSE bound[p]]
    BY <1>4 DEF Joins, At
  <2>3. \A p \in Addr \ {socket[u]} : bound'[p] = bound[p]
    BY <2>2
  <2>4. \A v \in User : \/ shell'[v] = shell[v]
                        \/ shell[v].at \notin {"asks", "receives"} /\ shell'[v].at = "idle"
    BY <2>1, <2>2
  <2> QED BY <2>2, <2>3, <2>4, ResetKeeps
<1>5. ASSUME NEW u \in User, GetsSize(u) PROVE ConnInv'
  <2>1. shell'[u].at = "receives" /\ \A v \in User \ {u} : shell'[v] = shell[v]
    BY <1>5, ShellMoves DEF GetsSize
  <2>2. UNCHANGED <<bound, backlog, conn>> /\ shell[u].at = "asks"
    BY <1>5 DEF GetsSize, listenVars, At
  <2> QED BY <2>1, <2>2, ShellKeepsConn
<1>6. ASSUME NEW u \in User, GetsNoFile(u) \/ IsCutOff(u) \/ GetsAll(u) \/ GetsPart(u) PROVE ConnInv'
  <2>1. /\ conn[u].st # "queued" /\ conn' = [conn EXCEPT ![u] = NoConn] /\ UNCHANGED <<bound, backlog>>
        /\ \E last : Prompt(u, last)
    BY <1>6 DEF GetsNoFile, IsCutOff, GetsAll, GetsPart, Hangup, listenVars
  <2>2. shell'[u].at = "idle" /\ \A v \in User \ {u} : shell'[v] = shell[v]
    BY <2>1, ShellMoves
  <2>3. NoConn = [to |-> NoConn.to, peer |-> NoConn.peer, st |-> NoConn.st] /\ NoConn.st = "none"
    BY DEF NoConn
  <2> QED BY <2>1, <2>2, <2>3, OneConnection
<1>7. ASSUME NEW u \in User, Handles(u) PROVE ConnInv'
  <2>1. /\ conn[u].st \in {"open", "sized", "half"} /\ UNCHANGED <<shell, bound, backlog>>
        /\ \E st \in {"sized", "nofile", "half", "sent", "cut"} : conn' = [conn EXCEPT ![u].st = st]
    BY <1>7 DEF Handles, listenVars
  <2>2. PICK st \in {"sized", "nofile", "half", "sent", "cut"} : conn' = [conn EXCEPT ![u].st = st]
    BY <2>1
  <2> DEFINE c == [to |-> conn[u].to, peer |-> conn[u].peer, st |-> st]
  <2>3. conn[u] = [to |-> conn[u].to, peer |-> conn[u].peer, st |-> conn[u].st]
    BY DEF ConnInv, ConnShape
  <2>4. conn' = [conn EXCEPT ![u] = c]
    <3>1. [conn[u] EXCEPT !.st = st] = c
      BY <2>3
    <3> QED BY <2>2, <3>1
  <2>5. shell[u].at \in {"asks", "receives"}
    BY <2>1 DEF ConnInv, FetchOK
  <2> QED BY <2>1, <2>4, <2>5, OneConnection
<1>8. ASSUME NEW p \in Addr, ThreadTests(p) PROVE ConnInv'
  <2>1. UNCHANGED shell
    BY <1>8 DEF ThreadTests
  <2>2. CASE UNCHANGED <<bound, backlog, conn>>
    BY <2>1, <2>2 DEF ConnInv, ConnShape, Distinct, QueueOK, FetchOK, Waits, At
  <2>3. CASE bound' = [bound EXCEPT ![p] = NoArg] /\ Reset({p})
    <3>1. \A q \in Addr \ {p} : bound'[q] = bound[q]
      BY <2>3 DEF ListenInv
    <3> QED BY <2>1, <2>3, <3>1, ResetKeeps
  <2> QED BY <1>8, <2>2, <2>3 DEF ThreadTests
<1>9. ASSUME \/ \E u \in User : ServerPrepares(u) \/ ServerPerforms(u)
             \/ \E p \in Addr : AcceptTimesOut(p)
             \/ ServerDies
             \/ UNCHANGED peersVars
      PROVE  ConnInv'
  <2>1. UNCHANGED <<shell, bound, backlog, conn>>
    BY <1>9 DEF ServerPrepares, ServerPerforms, AcceptTimesOut, ServerDies, peersVars, ownVars, fetchVars
  <2> QED BY <2>1 DEF ConnInv, ConnShape, Distinct, QueueOK, FetchOK, Waits, At
<1> QED
  BY <1>1, <1>2, <1>3, <1>4, <1>5, <1>6, <1>7, <1>8, <1>9, AcceptKeepsConn, DialKeepsConn, QuitKeepsConn
  DEF PeersNext, ShellStep, ThreadStep

-----------------------------------------------------------------------------
\* client.py (185-290 and 486-561): a socket is its client's, a port that
\* nobody has has no thread, and a connection that waits does so in the backlog
\* of the client that it was made to, for any number of clients and ports,
\* whatever of them dies.
THEOREM PeersTypeCorrect == PeersSpec => []PeersTypeOK
<1>1. ListenInv /\ ConnInv => PeersTypeOK
  BY DEF ListenInv, ConnInv, QueueOK, FetchOK, Waits, PeersTypeOK
<1> QED
  BY FileOfInit, FileOfStep, CallOfInit, CallOfStep, ListenOfInit, ListenOfStep, ConnOfInit, ConnOfStep,
     <1>1, PTL DEF PeersSpec
=============================================================================
