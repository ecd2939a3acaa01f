-------------------------------- MODULE Peers --------------------------------
(***************************************************************************)
(* The clients of the final project (client.py) around a directory server: *)
(* the shell, which gives one command at a time, the thread that listens   *)
(* for other clients, and a thread for each file that is asked for.        *)
(*                                                                         *)
(* There is one client for each user, as README.txt asks ("Cada usuario    *)
(* debe ejecutar el archivo client.py en una terminal diferente"), so that *)
(* the client of a user has the user's name here, and _current_user is     *)
(* whether it has connected.  The server is UserDirectory.                 *)
(*                                                                         *)
(* Abstractions: a port is an address; a command that finds no server      *)
(* changes nothing and is not a step; the commands about contents and      *)
(* LIST_USERS, which only print the reply, are left to Directory; a file   *)
(* is sent in two pieces; each client saves what it gets under one name,   *)
(* which is not that of the file that another sends meanwhile.             *)
(***************************************************************************)
EXTENDS UserDirectory, Sequences

CONSTANTS Sharers,    \* the users whose client has the file that is asked for
          Leavers,    \* bound: the users who may unregister
          MaxFaults   \* bound: how often a client or the server dies

\* Clients are named after their users; NoArg is nobody.
ASSUME PeersAssumption ==
  /\ Caller = User
  /\ NoArg \notin User
  /\ Sharers \cup Leavers \subseteq User
  /\ MaxFaults \in Nat

VARIABLES shell,     \* shell[u]: where the shell of u's client is
          current,   \* current[u]: is _current_user set
          stop,      \* stop[u]: _stop_listener
          socket,    \* socket[u]: the port of _listener_socket, or NoAddr
          bound,     \* bound[p]: whose client listens at p, or NoArg
          thread,    \* thread[p]: where the thread is that listens at p
          backlog,   \* backlog[p]: whose connections wait to be accepted at p
          conn,      \* conn[u]: the connection of u's getfile
          local,     \* local[u]: what there is of the file of u's last getfile
          faults     \* how often a process has died

ownVars == <<shell, current, stop, socket, bound, thread, backlog, conn, local>>
listenVars == <<current, stop, socket, bound, thread>>
fetchVars == <<backlog, conn, local>>
peersVars == <<userVars, ownVars, faults>>

AtPrompt == [at |-> "idle", port |-> NoAddr, target |-> NoArg, last |-> "none"]
NoConn == [to |-> NoAddr, peer |-> NoArg, st |-> "none"]

PeersInit ==
  /\ UserInit
  /\ shell = [u \in User |-> AtPrompt]
  /\ current = [u \in User |-> FALSE]
  /\ stop = [u \in User |-> FALSE]
  /\ socket = [u \in User |-> NoAddr]
  /\ bound = [p \in Addr |-> NoArg]
  /\ thread = [p \in Addr |-> "none"]
  /\ backlog = [p \in Addr |-> <<>>]
  /\ conn = [u \in User |-> NoConn]
  /\ local = [u \in User |-> "none"]
  /\ faults = 0

At(u, place) == shell[u].at = place
Goto(u, place) == shell' = [shell EXCEPT ![u].at = place]

\* The command goes on with port p.
GotoPort(u, place, p) == shell' = [shell EXCEPT ![u] = [@ EXCEPT !.at = place, !.port = p]]

\* The command is over; what getfile returned.
Prompt(u, last) == shell' = [shell EXCEPT ![u] = [AtPrompt EXCEPT !.last = last]]

-----------------------------------------------------------------------------
(* The requests to the directory.                                          *)

\* connect asks the system for a free port, and frees it again; getfile needs
\* a user to send, and the name of whom it asks, who may be the same.
Give(u) ==
  /\ At(u, "idle")
  /\ Invoke(u)
  /\ LET r == call'[u].req
     IN /\ r.user = u
        /\ r.op = "CONNECT" => bound[r.arg] = NoArg
        /\ r.op = "GET_FILE" => current[u]
        /\ r.op = "UNREGISTER" => u \in Leavers
        /\ \E v \in IF r.op = "GET_FILE" THEN User ELSE {NoArg} :
             shell' = [shell EXCEPT ![u] = [AtPrompt EXCEPT !.at = "waits", !.target = v]]
        /\ local' = [local EXCEPT ![u] = "none"]
  /\ UNCHANGED <<listenVars, backlog, conn, faults>>

ServerPerforms(u) ==
  /\ call[u].st = "pending"
  /\ LET r == call[u].req
     IN \/ Registers(u, r) \/ Unregisters(u, r) \/ Connects(u, r) \/ Disconnects(u, r)
        \/ ListsUsers(u, r)
  /\ UNCHANGED <<ownVars, faults>>

ServerPrepares(u) == MakesList(u) /\ UNCHANGED <<ownVars, faults>>

Reply(u) == call[u].res
Answered(u, op) ==
  /\ At(u, "waits")
  /\ call[u].st = "done"
  /\ call[u].req.op = op
  /\ Returns(u)
  /\ UNCHANGED faults

RegisterReturns(u) ==
  /\ Answered(u, "REGISTER") \/ Answered(u, "UNREGISTER")
  /\ Prompt(u, "none")
  /\ UNCHANGED <<listenVars, fetchVars>>

ConnectAnswered(u) ==
  /\ Answered(u, "CONNECT")
  /\ IF Reply(u).code = 0
       THEN GotoPort(u, "binds", call[u].req.arg)
       ELSE Prompt(u, "none")
  /\ UNCHANGED <<listenVars, fetchVars>>

\* (Mutant: the thread is not told to stop before it is waited for.)
DisconnectAnsweredUnstopped(u) ==
  /\ Answered(u, "DISCONNECT")
  /\ IF Reply(u).code = 0 THEN Goto(u, "joins") ELSE Prompt(u, "none")
  /\ UNCHANGED <<listenVars, fetchVars>>

DisconnectAnswered(u) ==
  /\ Answered(u, "DISCONNECT")
  /\ IF Reply(u).code = 0
       THEN Goto(u, "joins") /\ stop' = [stop EXCEPT ![u] = TRUE]
       ELSE Prompt(u, "none") /\ UNCHANGED stop
  /\ UNCHANGED <<current, socket, bound, thread, fetchVars>>

\* The user is not listed, or at port 0: GET_FILE FAIL.
Listed(u) == {p \in Addr : <<shell[u].target, p>> \in Reply(u).list}

GetFileAnswered(u) ==
  /\ Answered(u, "GET_FILE")
  /\ IF Reply(u).code = 0 /\ Listed(u) # {}
       THEN \E p \in Listed(u) : GotoPort(u, "dials", p)
       ELSE Prompt(u, "error")
  /\ UNCHANGED <<listenVars, fetchVars>>

\* The server died: recv returns nothing.
NoResponse(u) ==
  /\ At(u, "waits")
  /\ call[u] = Idle
  /\ Prompt(u, IF shell[u].target = NoArg THEN "none" ELSE "error")
  /\ UNCHANGED <<userVars, listenVars, fetchVars, faults>>

-----------------------------------------------------------------------------
(* connect, disconnect and the listener.                                   *)

\* (Mutant: an event that disconnect has set stays set.)
BindsUncleared(u) ==
  LET p == shell[u].port
  IN /\ At(u, "binds")
     /\ bound[p] = NoArg
     /\ bound' = [bound EXCEPT ![p] = u]
     /\ socket' = [socket EXCEPT ![u] = p]
     /\ current' = [current EXCEPT ![u] = TRUE]
     /\ thread' = [thread EXCEPT ![p] = "tests"]
     /\ Prompt(u, "none")
     /\ UNCHANGED <<userVars, stop, fetchVars, faults>>

Binds(u) ==
  LET p == shell[u].port
  IN /\ At(u, "binds")
     /\ bound[p] = NoArg
     /\ bound' = [bound EXCEPT ![p] = u]
     /\ socket' = [socket EXCEPT ![u] = p]
     /\ current' = [current EXCEPT ![u] = TRUE]
     /\ stop' = [stop EXCEPT ![u] = FALSE]
     /\ thread' = [thread EXCEPT ![p] = "tests"]
     /\ Prompt(u, "none")
     /\ UNCHANGED <<userVars, fetchVars, faults>>

\* Somebody else has the port now: an exception, that the shell prints.
BindFails(u) ==
  /\ At(u, "binds")
  /\ bound[shell[u].port] # NoArg
  /\ Prompt(u, "none")
  /\ UNCHANGED <<userVars, listenVars, fetchVars, faults>>

\* Connections that nobody has accepted go with the socket.
Reset(ports) ==
  /\ backlog' = [p \in Addr |-> IF p \in ports THEN <<>> ELSE backlog[p]]
  /\ conn' = [u \in User |-> IF conn[u].st = "queued" /\ conn[u].to \in ports
                               THEN [conn[u] EXCEPT !.st = "cut"] ELSE conn[u]]

\* The thread of a socket that a later connect has replaced held the last
\* reference to it.
ThreadTests(p) ==
  /\ thread[p] = "tests"
  /\ IF ~stop[bound[p]]
       THEN thread' = [thread EXCEPT ![p] = "accepts"] /\ UNCHANGED <<bound, backlog, conn>>
       ELSE /\ thread' = [thread EXCEPT ![p] = "none"]
            /\ IF socket[bound[p]] = p
                 THEN UNCHANGED <<bound, backlog, conn>>
                 ELSE bound' = [bound EXCEPT ![p] = NoArg] /\ Reset({p})
  /\ UNCHANGED <<userVars, shell, current, stop, socket, local, faults>>

ThreadAccepts(p) ==
  /\ thread[p] = "accepts"
  /\ backlog[p] # <<>>
  /\ conn' = [conn EXCEPT ![Head(backlog[p])].st = "open"]
  /\ backlog' = [backlog EXCEPT ![p] = Tail(@)]
  /\ thread' = [thread EXCEPT ![p] = "tests"]
  /\ UNCHANGED <<userVars, shell, current, stop, socket, bound, local, faults>>

\* settimeout(1.0).
AcceptTimesOut(p) ==
  /\ thread[p] = "accepts"
  /\ backlog[p] = <<>>
  /\ thread' = [thread EXCEPT ![p] = "tests"]
  /\ UNCHANGED <<userVars, shell, current, stop, socket, bound, fetchVars, faults>>

\* (Mutant: the socket is closed under the thread.)
JoinsUnjoined(u) ==
  /\ At(u, "joins")
  /\ bound' = [p \in Addr |-> IF p = socket[u] THEN NoArg ELSE bound[p]]
  /\ Reset({socket[u]})
  /\ socket' = [socket EXCEPT ![u] = NoAddr]
  /\ current' = [current EXCEPT ![u] = FALSE]
  /\ Prompt(u, "none")
  /\ UNCHANGED <<userVars, stop, thread, local, faults>>

\* (Mutant: the socket is not closed.)
JoinsLeavingOpen(u) ==
  /\ At(u, "joins")
  /\ socket[u] # NoAddr => thread[socket[u]] = "none"
  /\ socket' = [socket EXCEPT ![u] = NoAddr]
  /\ current' = [current EXCEPT ![u] = FALSE]
  /\ Prompt(u, "none")
  /\ UNCHANGED <<userVars, stop, bound, thread, fetchVars, faults>>

\* disconnect waits for the thread it knows of and closes its socket.
Joins(u) ==
  /\ At(u, "joins")
  /\ socket[u] # NoAddr => thread[socket[u]] = "none"
  /\ bound' = [p \in Addr |-> IF p = socket[u] THEN NoArg ELSE bound[p]]
  /\ Reset({socket[u]})
  /\ socket' = [socket EXCEPT ![u] = NoAddr]
  /\ current' = [current EXCEPT ![u] = FALSE]
  /\ Prompt(u, "none")
  /\ UNCHANGED <<userVars, stop, thread, local, faults>>

-----------------------------------------------------------------------------
(* getfile, after it has an address, and the thread that answers it.       *)

\* Every exception removes the local file, also one that was there before.
Dials(u) ==
  LET p == shell[u].port
  IN /\ At(u, "dials")
     /\ IF bound[p] # NoArg
          THEN /\ conn' = [conn EXCEPT ![u] = [to |-> p, peer |-> bound[p], st |-> "queued"]]
               /\ backlog' = [backlog EXCEPT ![p] = Append(@, u)]
               /\ Goto(u, "asks")
               /\ UNCHANGED local
          ELSE /\ local' = [local EXCEPT ![u] = "none"]
               /\ Prompt(u, "error")
               /\ UNCHANGED <<backlog, conn>>
     /\ UNCHANGED <<userVars, listenVars, faults>>

\* _handle_incoming_file_request: the code and the size, and the two pieces.  The
\* file may be gone, or not readable, after the test for it: an exception, which
\* closes the connection.
Handles(u) ==
  /\ \/ conn[u].st = "open" /\ conn' = [conn EXCEPT ![u].st =
          IF conn[u].peer \in Sharers THEN "sized" ELSE "nofile"]
     \/ conn[u].st = "sized" /\ conn' = [conn EXCEPT ![u].st = "half"]
     \/ conn[u].st = "half" /\ conn' = [conn EXCEPT ![u].st = "sent"]
     \/ /\ conn[u].st \in {"open", "sized", "half"} /\ conn[u].peer \in Sharers
        /\ conn' = [conn EXCEPT ![u].st = "cut"]
  /\ UNCHANGED <<userVars, shell, listenVars, backlog, local, faults>>

\* The local file is opened once there is a size.
GetsSize(u) ==
  /\ At(u, "asks")
  /\ conn[u].st \in {"sized", "half", "sent"}
  /\ local' = [local EXCEPT ![u] = "part"]
  /\ Goto(u, "receives")
  /\ UNCHANGED <<userVars, listenVars, backlog, conn, faults>>

Hangup(u) == conn' = [conn EXCEPT ![u] = NoConn]

GetsNoFile(u) ==
  /\ At(u, "asks")
  /\ conn[u].st = "nofile"
  /\ Hangup(u)
  /\ Prompt(u, "error")
  /\ UNCHANGED <<userVars, listenVars, backlog, local, faults>>

\* Without a code there is an exception, with a code and no size there is none.
IsCutOff(u) ==
  /\ At(u, "asks")
  /\ conn[u].st = "cut"
  /\ \E file \in {"none", local[u]} : local' = [local EXCEPT ![u] = file]
  /\ Hangup(u)
  /\ Prompt(u, "error")
  /\ UNCHANGED <<userVars, listenVars, backlog, faults>>

GetsAll(u) ==
  /\ At(u, "receives")
  /\ conn[u].st = "sent"
  /\ local' = [local EXCEPT ![u] = "whole"]
  /\ Hangup(u)
  /\ Prompt(u, "ok")
  /\ UNCHANGED <<userVars, listenVars, backlog, faults>>

\* (Mutant: the end of the stream is taken for the end of the file.)
GetsPartUncounted(u) ==
  /\ At(u, "receives")
  /\ conn[u].st = "cut"
  /\ UNCHANGED local
  /\ Hangup(u)
  /\ Prompt(u, "ok")
  /\ UNCHANGED <<userVars, listenVars, backlog, faults>>

\* remaining is not 0, or recv raised.
GetsPart(u) ==
  /\ At(u, "receives")
  /\ conn[u].st = "cut"
  /\ local' = [local EXCEPT ![u] = "none"]
  /\ Hangup(u)
  /\ Prompt(u, "error")
  /\ UNCHANGED <<userVars, listenVars, backlog, faults>>

-----------------------------------------------------------------------------
(* QUIT, the end of a terminal, and the end of the server.                 *)

Fault == faults < MaxFaults /\ faults' = faults + 1

\* A queue without u, who waits in it at most once.
Without(q, u) ==
  IF \E n \in DOMAIN q : q[n] = u
    THEN LET k == CHOOSE n \in DOMAIN q : q[n] = u
         IN [n \in 1..Len(q) - 1 |-> q[IF n < k THEN n ELSE n + 1]]
    ELSE q

\* All threads end (they are daemons); what the client had begun to save stays.
Quits(u) ==
  /\ Fault
  /\ ~At(u, "dead")
  /\ shell' = [shell EXCEPT ![u] = [AtPrompt EXCEPT !.at = "dead"]]
  /\ current' = [current EXCEPT ![u] = FALSE]
  /\ stop' = [stop EXCEPT ![u] = FALSE]
  /\ socket' = [socket EXCEPT ![u] = NoAddr]
  /\ bound' = [p \in Addr |-> IF bound[p] = u THEN NoArg ELSE bound[p]]
  /\ thread' = [p \in Addr |-> IF bound[p] = u THEN "none" ELSE thread[p]]
  /\ backlog' = [p \in Addr |-> IF bound[p] = u THEN <<>> ELSE Without(backlog[p], u)]
  /\ conn' = [v \in User |->
       IF v = u THEN NoConn
       ELSE IF conn[v].peer = u /\ conn[v].st \in {"queued", "open", "sized", "half"}
         THEN [conn[v] EXCEPT !.st = "cut"] ELSE conn[v]]
  /\ UNCHANGED <<userVars, local>>

\* The client is started again, after the server has done with its last command.
Starts(u) ==
  /\ At(u, "dead")
  /\ call[u].st # "pending"
  /\ call' = [call EXCEPT ![u] = Idle]
  /\ Prompt(u, "none")
  /\ UNCHANGED <<made, users, contents, listenVars, fetchVars, faults>>

ServerDies == Fault /\ Crash /\ UNCHANGED ownVars

-----------------------------------------------------------------------------
ShellStep(u) ==
  \/ RegisterReturns(u) \/ ConnectAnswered(u) \/ DisconnectAnswered(u) \/ GetFileAnswered(u)
  \/ NoResponse(u) \/ Binds(u) \/ BindFails(u) \/ Joins(u)
  \/ Dials(u) \/ GetsSize(u) \/ GetsNoFile(u) \/ IsCutOff(u) \/ GetsAll(u) \/ GetsPart(u)

ThreadStep(p) == ThreadTests(p) \/ ThreadAccepts(p) \/ AcceptTimesOut(p)

PeersNext ==
  \/ \E u \in User : \/ Give(u) \/ ServerPrepares(u) \/ ServerPerforms(u) \/ ShellStep(u)
                     \/ Handles(u) \/ Quits(u) \/ Starts(u)
  \/ \E p \in Addr : ThreadStep(p)
  \/ ServerDies

PeersSpec == PeersInit /\ [][PeersNext]_peersVars

\* The server runs on, and so do the threads of a client that is not killed;
\* who types the commands owes nothing.
PeersFairness ==
  /\ \A u \in User : WF_peersVars(ServerPerforms(u) \/ ShellStep(u) \/ Handles(u))
  /\ \A p \in Addr : WF_peersVars(ThreadStep(p))

PeersFairSpec == PeersSpec /\ PeersFairness

-----------------------------------------------------------------------------
\* The type invariant: who listens has a thread or is about to close, and every
\* connection leads to a client that has the port or has accepted it.
PeersTypeOK ==
  /\ socket \in [User -> Addr \cup {NoAddr}]
  /\ bound \in [Addr -> User \cup {NoArg}]
  /\ \A p \in Addr : bound[p] = NoArg => thread[p] = "none"
  /\ \A u \in User : /\ socket[u] # NoAddr => bound[socket[u]] = u
                     /\ conn[u].st = "queued" => /\ bound[conn[u].to] = conn[u].peer
                                                /\ \E n \in DOMAIN backlog[conn[u].to] :
                                                     backlog[conn[u].to][n] = u
                     /\ conn[u].st # "none" <=> shell[u].at \in {"asks", "receives"}

\* Whoever asks the directory for u finds a thread of u's client.
Reachable(u) ==
  LET p == socket[u]
  IN /\ current[u] /\ ~stop[u]
     /\ Registered(u)
     /\ users[u] = [addr |-> p, on |-> TRUE]
     /\ p # NoAddr
     /\ bound[p] = u
     /\ thread[p] # "none"

\* What ends that: u leaves or disconnects, or a process dies.
Undone(u) ==
  \/ call[u] # Idle /\ call[u].req.op \in {"UNREGISTER", "DISCONNECT"}
  \/ faults' # faults

\* connect registers the port with the server before it listens there.  When it
\* has succeeded, and the server still knows the user, the client is reachable;
\* it remains so until its user disconnects, whatever the other commands,
\* clients and listener threads do.
ReachableUntilUndone ==
  [][\A u \in User :
       /\ Reachable(u) => Reachable(u)' \/ Undone(u)
       /\ Binds(u) /\ Registered(u) => Reachable(u)']_peersVars

\* When GET_FILE says OK the local file is whole, and when it says FAIL there is
\* no part of one, whichever client or server died and however the connection
\* ended (getfile counts what remains, and removes what it wrote).
GetFileKeepsItsWord ==
  \A u \in User : At(u, "idle") =>
    /\ shell[u].last = "ok" => local[u] = "whole"
    /\ shell[u].last = "error" => local[u] # "part"

\* The shell gets its prompt back after every command: no join, accept or recv
\* waits for ever, two clients that fetch from each other included.
CommandsReturn ==
  \A u \in User : shell[u].at \notin {"idle", "dead"} ~> shell[u].at \in {"idle", "dead"}

\* A client that has disconnected, and does not connect again, stops listening,
\* at the ports of earlier connections too (they share _stop_listener).
StopsListening ==
  \A u \in User :
    (~current[u] ~> (current[u] \/ \A p \in Addr : bound[p] # u))
=============================================================================
