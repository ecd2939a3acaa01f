---------------------------- MODULE ServidorSock ----------------------------
(***************************************************************************)
(* ejercicio_evaluable_2: a call of proxy-sock.c from connect to return,   *)
(* and the thread of servidor-sock.c that serves it.  The call sends its   *)
(* operation and arguments as lines ended by '\0', without a length and    *)
(* without an end; the thread reads line after line with readLine into     *)
(* one buffer, runs the function and sends the result back in the same     *)
(* form.  Neither side looks at the result of readLine: at the end of the  *)
(* connection it returns 0 and leaves the buffer as it was.  readLine ends *)
(* a line at '\n' too: a value1 with one in it arrives as two lines.       *)
(*                                                                         *)
(* Neither side compares the N_value2 that it reads with MAXVEC, so both   *)
(* may store past the end of V_value2.  The model records it (`overrun`);  *)
(* from then on that call may return anything, or its process may end;     *)
(* what the stores do to other threads of the process is left out.         *)
(*                                                                         *)
(* Abstractions: a line is the number that atoi reads from it, and a       *)
(* double what "%lf" prints of it, in units of its last digit; the lines   *)
(* of one side travel at once, cut short only if that side dies; what the  *)
(* functions of claves.c do to data.txt is in ClavesThreads, here they     *)
(* give some result.                                                       *)
(***************************************************************************)
EXTENDS AcceptLoop, Integers

Op == <<"destroy", "set_value", "get_value", "modify_value", "delete_key", "exist">>

\* The elements that "for (i = 0; i < n; i++)" handles.
Count(n) == IF n < 0 THEN 0 ELSE n

\* A value with its value1 (in lines), N_value2, V_value2 and value3.
AnyValue ==
  {v \in [v1 : Seq(Int), n : Int, vec : Seq(Int), x : Int, y : Int] :
     v.v1 # <<>> /\ Len(v.vec) = Count(v.n)}

\* Its value1 has no '\n' in it.
OneLine(v) == Len(v.v1) = 1

CONSTANTS Calls,      \* bound: the operations that are called on each slot
          Key,        \* the keys of the calls
          MaxVec,     \* MAXVEC, 32
          Vectors,    \* the V_value2 of the calls
          Str,        \* the value1 of the calls, in lines
          Points,     \* the value3 of the calls, <<x, y>>
          Stray,      \* the values that no call sent: what get_value left
                      \* unassigned, or found in a data.txt gone wrong
          Garbage,    \* what a buffer may hold that nothing was written to
          MaxDeaths   \* bound: how many clients are killed in a call

ASSUME ServidorSockAssumption ==
  /\ Calls \in [Conn -> SUBSET {Op[n] : n \in DOMAIN Op}]
  /\ MaxVec \in Nat \ {0}
  /\ Key \cup Garbage \subseteq Int
  /\ \A w \in Vectors : w \in Seq(Int) /\ Len(w) \in 1..MaxVec
  /\ \A s \in Str : s \in Seq(Int) /\ s # <<>>
  /\ Points \subseteq Int \X Int
  /\ Stray \subseteq AnyValue
  /\ MaxDeaths \in Nat

VARIABLES cl,        \* cl[c]: where the call on connection c is
          asked,     \* asked[c]: its request
          toServer,  \* toServer[c]: the lines it has sent, not read yet
          toClient,  \* toClient[c]: the lines of the reply, not read yet
          cut,       \* the connections that ended before their last line
          overrun,   \* those on which somebody stored past V_value2 (history)
          ran,       \* ran[c]: the request that the thread has made of them
          result,    \* result[c]: what claves.c returned to the thread
          answer,    \* answer[c]: what the call returned
          deaths     \* how many clients were killed

callVars == <<cl, asked, toServer, toClient, cut, overrun, ran, result, answer, deaths>>
sockVars == <<backlog, main, mutex, ocupado, st, failed,
              cl, asked, toServer, toClient, cut, overrun, ran, result, answer, deaths>>

-----------------------------------------------------------------------------
(* Requests, results, and the lines that stand for them.                   *)

Code(op) == CHOOSE n \in DOMAIN Op : Op[n] = op
WriteOp == {"set_value", "modify_value"}

NoKey == -1
NoVal == [v1 |-> <<0>>, n |-> 0, vec |-> <<>>, x |-> 0, y |-> 0]

\* (Mutant: the check lets one number more pass than there is room for.)
ClientValueTooLong ==
  {[v1 |-> s, n |-> Len(w) + 1, vec |-> Append(w, 2), x |-> p[1], y |-> p[2]] :
     s \in Str, w \in Vectors, p \in Points}

\* is_N_value2_valid has let them pass.
ClientValue ==
  {[v1 |-> s, n |-> Len(w), vec |-> w, x |-> p[1], y |-> p[2]] :
     s \in Str, w \in Vectors, p \in Points}

Request ==
  [op : {"destroy"}, key : {NoKey}, val : {NoVal}]
    \cup [op : {"get_value", "delete_key", "exist"}, key : Key, val : {NoVal}]
    \cup [op : WriteOp, key : Key, val : ClientValue]

NoRequest == [op |-> "none", key |-> NoKey, val |-> NoVal]

\* value1, N_value2, V_value2 and value3.
ValueLines(v) == v.v1 \o <<v.n>> \o v.vec \o <<v.x, v.y>>

RequestLines(r) ==
  <<Code(r.op)>> \o (IF r.op = "destroy" THEN <<>> ELSE <<r.key>>)
                 \o (IF r.op \in WriteOp THEN ValueLines(r.val) ELSE <<>>)

\* The buffer after n calls of readLine on the lines s: at the end of the
\* connection it keeps the last line, or what it held before the first, g.
Read(s, n, g) == IF s = <<>> THEN g ELSE s[IF n <= Len(s) THEN n ELSE Len(s)]

\* (Mutant: value3 is read before V_value2.)
ReadValueSwapped(s, n, g) ==
  LET N == Read(s, n + 1, g)
  IN [v1 |-> <<Read(s, n, g)>>, n |-> N,
      vec |-> [i \in 1..Count(N) |-> Read(s, n + 3 + i, g)],
      x |-> Read(s, n + 2, g), y |-> Read(s, n + 3, g)]

\* A value read with readLine number n and those that follow.
ReadValue(s, n, g) ==
  LET N == Read(s, n + 1, g)
  IN [v1 |-> <<Read(s, n, g)>>, n |-> N,
      vec |-> [i \in 1..Count(N) |-> Read(s, n + 1 + i, g)],
      x |-> Read(s, n + 2 + Count(N), g), y |-> Read(s, n + 3 + Count(N), g)]

\* What the switch of tratar_peticion makes of the lines; an unknown operation
\* is none of the six.
Decoded(s, g) ==
  LET code == Read(s, 1, g)
      op == IF code \in DOMAIN Op THEN Op[code] ELSE "unknown"
  IN [op |-> op,
      key |-> IF op \in {"destroy", "unknown"} THEN NoKey ELSE Read(s, 2, g),
      val |-> IF op \in WriteOp THEN ReadValue(s, 3, g) ELSE NoVal]

\* How many readLines it takes to make request r.
Taken(r) ==
  CASE r.op \in {"destroy", "unknown"} -> 1
    [] r.op \in WriteOp                -> 6 + Len(r.val.vec)
    [] OTHER                           -> 2

\* What a function of claves.c returns.  A get_value that fails leaves in its
\* output arguments what was there, or what it read last.
Outcome(r) ==
  CASE r.op = "get_value" -> [res : {0}, val : {v \in ClientValue \cup Stray : OneLine(v)}]
                               \cup [res : {-1}, val : Stray]
    [] r.op = "exist"     -> [res : {0, 1}, val : {NoVal}]
    [] r.op = "unknown"   -> [res : {-1}, val : {NoVal}]
    [] OTHER              -> [res : {-1, 0}, val : {NoVal}]

NoResult == [res |-> -1, val |-> NoVal]

\* (Mutant: the result is sent first.)
ReplyLinesResultFirst(r, o) ==
  CASE r.op = "get_value" -> <<o.res>> \o ValueLines(o.val)
    [] r.op = "unknown"   -> <<>>
    [] OTHER              -> <<o.res>>

\* The lines of the reply: none to an unknown operation, the result last.
ReplyLines(r, o) ==
  CASE r.op = "get_value" -> ValueLines(o.val) \o <<o.res>>
    [] r.op = "unknown"   -> <<>>
    [] OTHER              -> <<o.res>>

\* What the proxy returns for reply s: res is a buffer of its own, filled by
\* the last readLine if there is a line for it; the other lines of get_value
\* go to the buffer that still holds the key.
ReadReply(r, s, g) ==
  LET v == IF r.op = "get_value" THEN ReadValue(s, 1, r.key) ELSE NoVal
      n == IF r.op = "get_value" THEN 5 + Len(v.vec) ELSE 1
  IN [res |-> IF n <= Len(s) THEN s[n] ELSE g, val |-> v]

-----------------------------------------------------------------------------
SockInit ==
  /\ LoopInit
  /\ cl = [c \in Conn |-> "idle"]
  /\ asked = [c \in Conn |-> NoRequest]
  /\ toServer = [c \in Conn |-> <<>>]
  /\ toClient = [c \in Conn |-> <<>>]
  /\ cut = {} /\ overrun = {}
  /\ ran = [c \in Conn |-> NoRequest]
  /\ result = [c \in Conn |-> NoResult]
  /\ answer = [c \in Conn |-> NoResult]
  /\ deaths = 0

(* The proxy.                                                              *)

\* The slot of a call that begins.
Begins(c, r) ==
  /\ cl[c] \in {"idle", "returned"}
  /\ asked' = [asked EXCEPT ![c] = r]
  /\ toServer' = [toServer EXCEPT ![c] = <<>>]
  /\ toClient' = [toClient EXCEPT ![c] = <<>>]
  /\ cut' = cut \ {c} /\ overrun' = overrun \ {c}
  /\ ran' = [ran EXCEPT ![c] = NoRequest]
  /\ result' = [result EXCEPT ![c] = NoResult]
  /\ answer' = [answer EXCEPT ![c] = NoResult]
  /\ UNCHANGED deaths

\* connect_to_server, with arguments that have passed the checks.
Connect(c) ==
  /\ \E r \in Request : r.op \in Calls[c] /\ Begins(c, r)
  /\ Arrives(c)
  /\ cl' = [cl EXCEPT ![c] = "connected"]

\* The call returns -1: there is no server, IP_TUPLAS is not set, the sockets of
\* earlier calls, which no call closes, are all that the client may have, or a
\* check that is content, and ends without a return, happens to give -1.
ConnectFails(c) ==
  /\ Begins(c, NoRequest)
  /\ cl' = [cl EXCEPT ![c] = "returned"]
  /\ UNCHANGED loopVars

\* The send_messages of a call.
ClientSends(c) ==
  /\ cl[c] = "connected"
  /\ cl' = [cl EXCEPT ![c] = "sent"]
  /\ toServer' = [toServer EXCEPT ![c] = RequestLines(asked[c])]
  /\ UNCHANGED <<loopVars, asked, toClient, cut, overrun, ran, result, answer, deaths>>

\* The client is killed, after any number of lines.
ClientDies(c) ==
  /\ deaths < MaxDeaths
  /\ deaths' = deaths + 1
  /\ \/ /\ cl[c] = "connected"
        /\ \E n \in 0..Len(RequestLines(asked[c])) - 1 :
             toServer' = [toServer EXCEPT ![c] = SubSeq(RequestLines(asked[c]), 1, n)]
        /\ cut' = cut \cup {c}
     \/ cl[c] = "sent" /\ UNCHANGED <<toServer, cut>>
  /\ cl' = [cl EXCEPT ![c] = IF st[c] = "closed" THEN "idle" ELSE "dead"]
  /\ UNCHANGED <<loopVars, asked, toClient, overrun, ran, result, answer>>

\* SIGPIPE, at the second line to a connection that the server has dropped.
ClientBreaks(c) ==
  /\ cl[c] = "connected"
  /\ st[c] = "closed"
  /\ asked[c].op # "destroy"
  /\ cl' = [cl EXCEPT ![c] = "idle"]
  /\ UNCHANGED <<loopVars, asked, toServer, toClient, cut, overrun, ran, result, answer, deaths>>

\* The readLines of a call, up to the end of the connection.
Receives(c) ==
  /\ cl[c] = "sent"
  /\ st[c] = "closed"
  /\ toClient' = [toClient EXCEPT ![c] = <<>>]
  /\ UNCHANGED <<loopVars, asked, toServer, cut, ran, result, deaths>>

Replies(c) == {ReadReply(asked[c], toClient[c], g) : g \in Garbage}

\* The call returns.
ClientReads(c) ==
  /\ \E o \in Replies(c) :
       /\ Receives(c)
       /\ o.val.n <= MaxVec
       /\ answer' = [answer EXCEPT ![c] = o]
  /\ cl' = [cl EXCEPT ![c] = "returned"]
  /\ UNCHANGED overrun

\* It has stored more numbers than the caller's V_value2 holds: it returns what
\* it read or anything else, or the client ends.
ClientOverruns(c) ==
  /\ \E o \in Replies(c) :
       /\ Receives(c)
       /\ o.val.n > MaxVec
       /\ \/ /\ cl' = [cl EXCEPT ![c] = "idle"]
             /\ UNCHANGED answer
          \/ /\ cl' = [cl EXCEPT ![c] = "returned"]
             /\ \E a \in {o} \cup [res : Garbage, val : Stray] :
                  answer' = [answer EXCEPT ![c] = a]
  /\ overrun' = overrun \cup {c}

(* The server.                                                             *)

\* tratar_peticion reads until it has made request r.
Takes(c, r) ==
  /\ st[c] = "serve"
  /\ ran[c] = NoRequest
  /\ cl[c] \in {"sent", "dead"}
  /\ toServer' = [toServer EXCEPT ![c] = SubSeq(@, Taken(r) + 1, Len(@))]
  /\ \E o \in Outcome(r) : result' = [result EXCEPT ![c] = o]
  /\ UNCHANGED <<loopVars, cl, asked, toClient, cut, answer, deaths>>

Requests(c) == {Decoded(toServer[c], g) : g \in Garbage}

\* It calls the function.  As long as the client lives it waits for the lines
\* that are missing.
Serve(c) ==
  \E r \in Requests(c) :
    /\ Takes(c, r)
    /\ r.val.n <= MaxVec
    /\ cl[c] = "dead" \/ Taken(r) <= Len(toServer[c])
    /\ ran' = [ran EXCEPT ![c] = r]
    /\ UNCHANGED overrun

\* It stores more than its V_value2 holds, and calls the function with what it
\* read or anything else; for the end of the process see ServerDies.
ServeOverruns(c) ==
  \E r \in Requests(c) :
    /\ Takes(c, r)
    /\ r.val.n > MaxVec
    /\ cl[c] = "dead" \/ Len(toServer[c]) > 4 + MaxVec
    /\ \E q \in {r} \cup [op : {r.op}, key : Garbage, val : Stray] :
         ran' = [ran EXCEPT ![c] = q]
    /\ overrun' = overrun \cup {c}

FirstLines(s) == {SubSeq(s, 1, n) : n \in 0..Len(s)}

\* The reply, and the end of the thread.  When lines are left that nobody read,
\* close resets the connection and the client loses the end of the reply.
SendReply(c) ==
  /\ ran[c] # NoRequest
  /\ Finishes(c)
  /\ \E s \in FirstLines(ReplyLines(ran[c], result[c])) :
       /\ toServer[c] = <<>> => s = ReplyLines(ran[c], result[c])
       /\ toClient' = [toClient EXCEPT ![c] = s]
       /\ cut' = IF s = ReplyLines(ran[c], result[c]) THEN cut ELSE cut \cup {c}
  /\ cl' = [cl EXCEPT ![c] = IF @ = "dead" THEN "idle" ELSE @]
  /\ UNCHANGED <<asked, toServer, overrun, ran, result, answer, deaths>>

\* The process ends; of a reply under way a client has the first lines.
ServerDies ==
  /\ StopServer
  /\ LET Got == [c \in Conn |-> IF st[c] = "serve" /\ ran[c] # NoRequest
                                  THEN FirstLines(ReplyLines(ran[c], result[c]))
                                  ELSE {toClient[c]}]
     IN \E f \in [Conn -> UNION {Got[c] : c \in Conn}] :
          /\ \A c \in Conn : f[c] \in Got[c]
          /\ toClient' = f
  /\ cl' = [c \in Conn |-> IF cl[c] = "dead" THEN "idle" ELSE cl[c]]
  /\ cut' = cut \cup {c \in Conn : st[c] # "closed"}
  /\ UNCHANGED <<asked, toServer, overrun, ran, result, answer, deaths>>

-----------------------------------------------------------------------------
LoopStep ==
  /\ MainStep \/ \E c \in Conn : HandoffStep(c)
  /\ UNCHANGED callVars

CallStep(c) ==
  \/ Connect(c) \/ ConnectFails(c) \/ ClientSends(c) \/ ClientDies(c)
  \/ ClientBreaks(c) \/ ClientReads(c) \/ ClientOverruns(c)
  \/ Serve(c) \/ ServeOverruns(c) \/ SendReply(c)

SockNext == LoopStep \/ ServerDies \/ \E c \in Conn : CallStep(c)

SockSpec == SockInit /\ [][SockNext]_sockVars

\* main, the threads and the clients run on; who waits for the mutex is served
\* in turn, whatever a wait that wakes up for nothing does.
SockFairness ==
  /\ WF_sockVars(Accept /\ UNCHANGED callVars)
  /\ SF_sockVars(MainLocks /\ UNCHANGED callVars)
  /\ WF_sockVars((MainWaits \/ MainGoesOn) /\ UNCHANGED callVars)
  /\ \A c \in Conn :
       /\ WF_sockVars(PthreadCreate(c) /\ UNCHANGED callVars)
       /\ SF_sockVars(ThreadLocks(c) /\ UNCHANGED callVars)
       /\ WF_sockVars(ThreadCopies(c) /\ UNCHANGED callVars)
       /\ WF_sockVars(Serve(c)) /\ WF_sockVars(SendReply(c))
       /\ WF_sockVars(ClientSends(c)) /\ WF_sockVars(ClientReads(c) \/ ClientOverruns(c))

SockFairSpec == SockSpec /\ SockFairness

-----------------------------------------------------------------------------
AnyRequest ==
  [op : {Op[n] : n \in DOMAIN Op} \cup {"none", "unknown"}, key : Int, val : AnyValue]
AnyResult == [res : Int, val : AnyValue]

SockTypeOK ==
  /\ cl \in [Conn -> {"idle", "connected", "sent", "returned", "dead"}]
  /\ asked \in [Conn -> AnyRequest] /\ ran \in [Conn -> AnyRequest]
  /\ toServer \in [Conn -> Seq(Int)] /\ toClient \in [Conn -> Seq(Int)]
  /\ result \in [Conn -> AnyResult] /\ answer \in [Conn -> AnyResult]
  /\ cut \subseteq Conn /\ overrun \subseteq Conn
  /\ deaths \in 0..MaxDeaths

\* What a client has done fits the place of its connection in the server.
StageInv(c) ==
  /\ cl[c] \in {"idle", "returned"} => st[c] = "closed"
  /\ cl[c] \in {"connected", "sent"} => asked[c] \in Request
  /\ cl[c] = "connected" => ran[c] = NoRequest
  /\ ran[c] # NoRequest => st[c] \in {"serve", "closed"}

\* Nothing has come between what was sent and what was read of the request,
\* and of the reply.
Heard(c) == c \notin cut \cup overrun /\ OneLine(asked[c].val)
Understood(c) == Heard(c) /\ OneLine(result[c].val)

\* Every line of a request is still to be read, or was read as what it was
\* sent for.
RequestInv(c) ==
  /\ cl[c] = "connected" => st[c] # "closed"
  /\ cl[c] \in {"sent", "dead"} /\ ran[c] = NoRequest =>
       /\ st[c] # "closed"
       /\ asked[c] \in Request /\ toServer[c] = RequestLines(asked[c])
  /\ ran[c] # NoRequest =>
       /\ asked[c] \in Request /\ ran[c] = asked[c]
       /\ toServer[c] = <<>>
       /\ result[c] \in Outcome(asked[c])
  /\ cl[c] = "sent" /\ st[c] = "closed" => toClient[c] = ReplyLines(ran[c], result[c])

\* So is every line of a reply.
ReplyInv(c) == cl[c] = "returned" /\ ran[c] # NoRequest => answer[c] = result[c]

\* A store past V_value2 on connection c is due to a connection that was cut,
\* to a '\n', or to a value that claves.c gave with an N_value2 out of range.
OverrunInv(c) ==
  c \in overrun =>
    \/ c \in cut
    \/ ~OneLine(asked[c].val)
    \/ /\ asked[c].op = "get_value" /\ ran[c] # NoRequest
       /\ ~OneLine(result[c].val) \/ result[c].val.n > MaxVec

\* At every moment of a call, proxy-sock.c and servidor-sock.c agree on how far
\* it has come and on the lines that are under way, unless one of them has died
\* in the middle, a value1 has a '\n', or a V_value2 was overrun.
SockInv ==
  /\ SockTypeOK
  /\ \A c \in Conn :
       /\ StageInv(c)
       /\ Heard(c) => RequestInv(c)
       /\ Understood(c) => ReplyInv(c)
       /\ OverrunInv(c)

\* proxy-sock.c and servidor-sock.c agree, for each operation and any length of
\* V_value2, on which lines are sent and in which order: a request that arrived
\* whole is run as it was asked, and a reply that arrived whole is the result,
\* that of a failed get_value with whatever N_value2 included.
CallsAreRunAsAsked ==
  \A c \in Conn :
    /\ Heard(c) /\ ran[c] # NoRequest => ran[c] = asked[c]
    /\ Understood(c) /\ cl[c] = "returned" /\ ran[c] # NoRequest => answer[c] = result[c]

\* is_N_value2_valid, proxy-sock.c, 22-27, is all that keeps both sides from
\* storing past V_value2: what passes it never makes the server do so, whatever
\* the operation, and a reply only if claves.c gave more numbers than MAXVEC.
OverrunsHaveACause == \A c \in Conn : OverrunInv(c)

\* claves.h, 26-28: an error of communications is an error, and a call returns
\* -1: any other answer is the result of the request that was asked.
AnswersAreResults ==
  \A c \in Conn :
    cl[c] = "returned" /\ answer[c].res # -1 =>
      ran[c] = asked[c] /\ answer[c] = result[c]

\* Every call returns, unless its client is killed, there was no memory for
\* its thread, main waits for a thread that was never created, or a value1
\* with a '\n' has left the server waiting for lines.
CallsReturn ==
  \A c \in Conn :
    cl[c] = "connected" ~> \/ cl[c] \in {"returned", "dead", "idle"}
                           \/ st[c] = "lost" \/ Hung \/ ~OneLine(asked[c].val)
=============================================================================
