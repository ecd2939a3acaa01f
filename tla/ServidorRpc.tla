----------------------------- MODULE ServidorRpc -----------------------------
(***************************************************************************)
(* ejercicio_evaluable_3: clients call the tuple service by Sun RPC over   *)
(* TCP.  Every call of a client opens a connection of its own              *)
(* (clnt_create), sends one request and waits 25 seconds for the reply; a  *)
(* call that has timed out is given up by the client and still executed by *)
(* the server.  The server (claves-rpc_svc.c, servidor-rpc.c) dispatches   *)
(* requests and holds mutex m around each call of claves.c.                *)
(*                                                                         *)
(* A connection and the handler that serves it are one Thread of Claves.   *)
(* svc_run is one thread, Dispatchers = 1; the handlers take m as if there *)
(* could be more, and nothing below depends on there being one.            *)
(***************************************************************************)
EXTENDS Claves

CONSTANTS Client,
          NoThread,     \* no connection; mutex m free
          Dispatchers,  \* handlers that may be in progress at a time
          MaxCrashes    \* bound: how often the server dies

ASSUME ServidorRpcAssumption ==
  /\ NoThread \notin Thread
  /\ Dispatchers \in Nat \ {0}
  /\ MaxCrashes \in Nat

VARIABLES m,        \* the holder of the mutex
          stage,    \* stage[t]: how far the call on connection t has come
          arg,      \* arg[t]: the request sent on connection t
          cur,      \* cur[c]: the connection on which client c waits
          up,       \* the server runs
          crashes   \* how often it died

rpcVars == <<m, stage, arg, cur, up, crashes>>
vars == <<dir, content, pc, req, fn, rd, wr, buf, ret,
          m, stage, arg, cur, up, crashes>>

Stage == {"free",       \* no such connection
          "sent",       \* the request is in the server's socket
          "handler",    \* the handler runs, before pthread_mutex_lock
          "locked",     \* it holds m
          "unlocked",   \* it has released m, the reply is not sent yet
          "answered",   \* the reply is in the client's socket
          "broken"}     \* the server died, the client has not noticed

InProgress(t) == stage[t] \in {"handler", "locked", "unlocked"}
Awaited(t) == \E c \in Client : cur[c] = t

TypeOK ==
  /\ ClavesTypeOK
  /\ m \in Thread \cup {NoThread}
  /\ stage \in [Thread -> Stage]
  /\ arg \in [Thread -> Request \cup {NoRequest}]
  /\ cur \in [Client -> Thread \cup {NoThread}]
  /\ up \in BOOLEAN
  /\ crashes \in 0..MaxCrashes

Init ==
  /\ ClavesInit
  /\ m = NoThread
  /\ stage = [t \in Thread |-> "free"]
  /\ arg = [t \in Thread |-> NoRequest]
  /\ cur = [c \in Client |-> NoThread]
  /\ up = TRUE
  /\ crashes = 0

-----------------------------------------------------------------------------
(* The client's side of a call.                                            *)

\* Connection t is closed: its request and its reply are forgotten.
Forgets(t) ==
  /\ stage' = [stage EXCEPT ![t] = "free"]
  /\ arg' = [arg EXCEPT ![t] = NoRequest]
  /\ ret' = [ret EXCEPT ![t] = Result(0)]

\* clnt_create and the sending half of clnt_call, on a new connection.
ClientCall(c, t, r) ==
  /\ up
  /\ cur[c] = NoThread
  /\ stage[t] = "free"
  /\ cur' = [cur EXCEPT ![c] = t]
  /\ stage' = [stage EXCEPT ![t] = "sent"]
  /\ arg' = [arg EXCEPT ![t] = r]
  /\ UNCHANGED <<dir, content, pc, req, fn, rd, wr, buf, ret, m, up, crashes>>

\* clnt_call returns RPC_SUCCESS; clnt_destroy.
ClientReceive(c, t) ==
  /\ cur[c] = t
  /\ stage[t] = "answered"
  /\ cur' = [cur EXCEPT ![c] = NoThread]
  /\ Forgets(t)
  /\ UNCHANGED <<dir, content, pc, req, fn, rd, wr, buf, m, up, crashes>>

\* clnt_call returns an error: RPC_TIMEDOUT at any moment, RPC_CANTRECV once
\* the server has died.  clnt_destroy closes the connection; a request that
\* the server has, it executes.
ClientError(c, t) ==
  /\ cur[c] = t
  /\ cur' = [cur EXCEPT ![c] = NoThread]
  /\ IF stage[t] \in {"answered", "broken"}
       THEN Forgets(t)
       ELSE UNCHANGED <<stage, arg, ret>>
  /\ UNCHANGED <<dir, content, pc, req, fn, rd, wr, buf, m, up, crashes>>

-----------------------------------------------------------------------------
(* The server.                                                             *)

\* svc_run picks a connection with a request: interfaz_1 decodes it and calls
\* the handler rpc_<op>_1_svc.
Dispatch(t) ==
  /\ stage[t] = "sent"
  /\ Cardinality({x \in Thread : InProgress(x)}) < Dispatchers
  /\ stage' = [stage EXCEPT ![t] = "handler"]
  /\ UNCHANGED <<dir, content, pc, req, fn, rd, wr, buf, ret,
                 m, arg, cur, up, crashes>>

\* (Mutant: no pthread_mutex_lock.)
LockWithoutWaiting(t) ==
  /\ stage[t] = "handler"
  /\ m' = t
  /\ stage' = [stage EXCEPT ![t] = "locked"]
  /\ Begin(t, arg[t])
  /\ UNCHANGED <<arg, cur, up, crashes>>

\* The handler locks m and calls claves.c.
Lock(t) ==
  /\ stage[t] = "handler"
  /\ m = NoThread
  /\ m' = t
  /\ stage' = [stage EXCEPT ![t] = "locked"]
  /\ Begin(t, arg[t])
  /\ UNCHANGED <<arg, cur, up, crashes>>

\* claves.c, with m held.
Handle(t) ==
  /\ stage[t] = "locked"
  /\ ClavesStep(t)
  /\ UNCHANGED rpcVars

\* (Mutant: the handler leaves without unlocking when the call has failed.)
UnlockOnSuccess(t) ==
  /\ stage[t] = "locked"
  /\ End(t)
  /\ m' = IF ret[t].res = -1 THEN m ELSE NoThread
  /\ stage' = [stage EXCEPT ![t] = "unlocked"]
  /\ UNCHANGED <<dir, content, rd, wr, buf, ret, arg, cur, up, crashes>>

\* The call of claves.c has returned: the handler unlocks m.
Unlock(t) ==
  /\ stage[t] = "locked"
  /\ End(t)
  /\ m' = NoThread
  /\ stage' = [stage EXCEPT ![t] = "unlocked"]
  /\ UNCHANGED <<dir, content, rd, wr, buf, ret, arg, cur, up, crashes>>

\* svc_sendreply, on a connection that the client may have closed.
SendReply(t) ==
  /\ stage[t] = "unlocked"
  /\ IF Awaited(t)
       THEN stage' = [stage EXCEPT ![t] = "answered"] /\ UNCHANGED <<arg, ret>>
       ELSE Forgets(t)
  /\ UNCHANGED <<dir, content, pc, req, fn, rd, wr, buf, m, cur, up, crashes>>

\* The server process dies: its stdio buffers and its mutex with it; the
\* files stay as they are.  (One cause is in the code: when get_value returns
\* -1, rpc_get_value_1_svc copies N_value2 numbers, N_value2 uninitialised.)
Crash ==
  /\ up
  /\ crashes < MaxCrashes
  /\ up' = FALSE
  /\ crashes' = crashes + 1
  /\ pc' = [t \in Thread |-> "idle"]
  /\ req' = [t \in Thread |-> NoRequest]
  /\ fn' = [t \in Thread |-> "none"]
  /\ rd' = [t \in Thread |-> NoInode]
  /\ wr' = [t \in Thread |-> NoInode]
  /\ buf' = [t \in Thread |-> <<>>]
  /\ ret' = [t \in Thread |-> IF Awaited(t) /\ stage[t] = "answered"
                                THEN ret[t] ELSE Result(0)]
  /\ m' = NoThread
  /\ stage' = [t \in Thread |->
                 IF ~Awaited(t) THEN "free"
                 ELSE IF stage[t] = "answered" THEN "answered" ELSE "broken"]
  /\ arg' = [t \in Thread |-> IF Awaited(t) THEN arg[t] ELSE NoRequest]
  /\ UNCHANGED <<dir, content, cur>>

\* main of claves-rpc_svc.c: nothing looks for a temp.txt left behind.
Restart ==
  /\ ~up
  /\ up' = TRUE
  /\ UNCHANGED <<dir, content, pc, req, fn, rd, wr, buf, ret,
                 m, stage, arg, cur, crashes>>

-----------------------------------------------------------------------------
ClientNext ==
  \E c \in Client, t \in Thread :
    \/ \E r \in Request : ClientCall(c, t, r)
    \/ ClientReceive(c, t)
    \/ ClientError(c, t)

ServerNext ==
  \/ \E t \in Thread :
       Dispatch(t) \/ Lock(t) \/ Handle(t) \/ Unlock(t) \/ SendReply(t)
  \/ Crash
  \/ Restart

Next == ClientNext \/ ServerNext

Spec == Init /\ [][Next]_vars

-----------------------------------------------------------------------------
(* Safety of the files.                                                    *)

\* claves.h, 26-27: a key is never inserted twice, so no key stands on two
\* lines of data.txt; also when timed-out calls are executed behind the
\* client's back, and after a crash between any two steps.
NoDuplicateKeys == Exists(Data) => Unique(content[dir[Data]])

\* The inductive invariant behind it.  Only the holder of m is inside
\* claves.c ...
MutexInv ==
  \A t \in Thread : /\ stage[t] = "locked" <=> m = t
                    /\ pc[t] # "idle" => m = t

\* ... in the function that its call leads to ...
CallOK(t) ==
  /\ fn[t] = "set_value" => req[t].op \in WriteOp
  /\ fn[t] = "modify_value" => req[t].op = "modify_value"
  /\ pc[t] \in {"set_open", "set_flush"} => fn[t] = "set_value"

\* ... and what it has found in the files still holds when it uses it.
Reading == {"exist_scan", "get_scan", "del_temp", "del_scan"}
Copying == {"del_scan", "del_flush"}
Replacing == {"del_remove", "del_rename"}

FrameOK(t) ==
  /\ rd[t] = IF pc[t] \in Reading THEN dir[Data] ELSE NoInode
  /\ wr[t] = IF pc[t] = "set_flush" THEN dir[Data]
             ELSE IF pc[t] \in Copying THEN dir[Temp] ELSE NoInode
  /\ pc[t] \in Reading \cup {"set_flush"} => Exists(Data)
  /\ pc[t] \in Copying \cup Replacing => Exists(Temp)
  /\ pc[t] \in {"set_open", "set_flush"} /\ Exists(Data) =>
       req[t].key \notin KeysOf(content[dir[Data]])
  /\ pc[t] \in Copying => content[dir[Temp]] = <<>>
  /\ pc[t] = "del_flush" => Unique(buf[t])
  /\ pc[t] \in Replacing => Unique(content[dir[Temp]])

TwoFiles == Exists(Data) => dir[Data] # dir[Temp]

IInv ==
  /\ TypeOK
  /\ MutexInv
  /\ \A t \in Thread : CallOK(t) /\ FrameOK(t)
  /\ TwoFiles
  /\ NoDuplicateKeys

\* What the refinement below needs besides IInv.  A handler executes the
\* request of its connection ...
RequestOK(t) ==
  /\ stage[t] \notin {"free", "broken"} => arg[t] \in Request
  /\ req[t] = IF stage[t] = "locked" THEN arg[t] ELSE NoRequest
  /\ pc[t] = "idle" <=> stage[t] # "locked"

\* ... in the function of that name or in one that modify_value calls ...
Deleting == {"del_open", "del_temp", "del_scan", "del_flush", "del_remove"}

FunctionOK(t) ==
  /\ \/ fn[t] = req[t].op
     \/ req[t].op = "modify_value" /\ fn[t] \in {"delete_key", "set_value"}
  /\ pc[t] = "destroy" => fn[t] = "destroy"
  /\ pc[t] \in {"get_open", "get_scan"} => fn[t] = "get_value"
  /\ pc[t] \in Deleting \cup {"del_rename"} => fn[t] = "delete_key"

\* ... modify_value's delete_key finds the key and its set_value does not,
\* and what replaces data.txt is data.txt without the key ...
Inner(t, f) ==
  req[t].op = "modify_value" /\ fn[t] = f /\ pc[t] \in {"exist_open", "exist_scan"}

CopyOK(t) ==
  LET k == req[t].key
      data == content[dir[Data]]
      temp == content[dir[Temp]]
  IN /\ pc[t] \in Deleting \/ Inner(t, "delete_key") =>
          Exists(Data) /\ k \in KeysOf(data)
     /\ Inner(t, "set_value") /\ Exists(Data) => k \notin KeysOf(data)
     /\ pc[t] = "del_flush" => buf[t] = Without(data, k)
     /\ pc[t] = "del_remove" => temp = Without(data, k)
     /\ pc[t] = "del_rename" => ~Exists(Data) /\ k \notin KeysOf(temp)

\* ... and no value changes when the copying loop prints it once more.
AsPrinted(s) == \A n \in DOMAIN s : Printed[s[n].val] = s[n].val

RInv ==
  /\ \A t \in Thread : RequestOK(t) /\ FunctionOK(t) /\ CopyOK(t)
  /\ \A i \in Inode : AsPrinted(content[i])

\* The tuples that the calls performed so far have left in the store.
\*  - between remove and rename, temp.txt is the store;
\*  - modify_value has replaced the value once its delete_key has removed
\*    data.txt, although the new line is written last.
Tuples(n) == IF Exists(n) THEN TuplesOf(content[dir[n]]) ELSE TuplesOf(<<>>)

Renaming == \E t \in Thread : At(t, "del_rename")
FileStore == IF Exists(Data) \/ ~Renaming THEN Tuples(Data) ELSE Tuples(Temp)

Reinserts(t) ==
  /\ req[t].op = "modify_value"
  /\ \/ At(t, "del_rename")
     \/ fn[t] = "set_value" /\ ~At(t, "done")

StoreImage ==
  IF \E t \in Thread : Reinserts(t)
    THEN LET t == CHOOSE x \in Thread : Reinserts(x)
         IN [k \in DOMAIN FileStore \cup {req[t].key} |->
               IF k = req[t].key THEN Printed[req[t].val] ELSE FileStore[k]]
    ELSE FileStore

\* The call on each connection, as TupleStore sees it.
Performed(t) ==
  \/ stage[t] \in {"unlocked", "answered"}
  \/ stage[t] = "locked" /\ (At(t, "done") \/ At(t, "del_rename") \/ Reinserts(t))

CallImage ==
  [t \in Thread |->
     IF stage[t] \in {"free", "broken"} THEN Idle
     ELSE IF Performed(t)
       THEN Done(arg[t], IF stage[t] = "locked" /\ ~At(t, "done")
                             THEN Result(0) ELSE ret[t])
       ELSE Pending(arg[t])]

AtomicStore == INSTANCE TupleStore
                 WITH Caller <- Thread, store <- StoreImage, call <- CallImage

\* Every call, the timed-out ones included, takes effect at most once and at
\* one instant, and its result is the one of that instant (the promise of
\* claves.h, kept by mutex m although claves.c works in several steps).
ImplementsTupleStore == AtomicStore!StoreSpec

-----------------------------------------------------------------------------
(* Liveness.  svc_run serves every connection that select reports before   *)
(* it selects again, so a request is not passed over for ever; a handler   *)
(* that runs goes on running.                                              *)

Fairness ==
  \A t \in Thread :
    /\ SF_vars(Dispatch(t))
    /\ WF_vars(Lock(t)) /\ WF_vars(Handle(t))
    /\ WF_vars(Unlock(t)) /\ WF_vars(SendReply(t))

FairSpec == Spec /\ Fairness

\* Every request that reaches the server is answered, unless the server dies
\* or the client has gone: no path through the handlers keeps m.
RequestsAreAnswered ==
  \A t \in Thread :
    stage[t] = "sent" ~> stage[t] \in {"answered", "free", "broken"}
=============================================================================
