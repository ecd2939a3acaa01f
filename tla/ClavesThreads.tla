---------------------------- MODULE ClavesThreads ----------------------------
(***************************************************************************)
(* The six functions of claves.c called by the threads of                  *)
(* ejercicio_evaluable_1 and _2: tratar_peticion runs once per request, in *)
(* a detached thread, and takes no lock around the call.  What the clients *)
(* and the transport do is in other modules; here a thread takes any       *)
(* request, executes it and returns.                                       *)
(*                                                                         *)
(* acked and before are history variables: they record what the callers    *)
(* were told, and no action depends on them.                               *)
(***************************************************************************)
EXTENDS Claves

CONSTANTS Calls,     \* the functions that the clients call
          MaxLines   \* bound: no insertion is begun on a longer data.txt

ASSUME ClavesThreadsAssumption == Calls \subseteq Op /\ MaxLines \in Nat

VARIABLES acked,     \* lines whose set_value returned 0, and that no call has
                     \* been asked to remove or change
          before     \* before[t]: data.txt when the call of t began

threadsVars == <<dir, content, pc, req, fn, rd, wr, buf, ret, acked, before>>

Lines == IF Exists(Data) THEN content[dir[Data]] ELSE <<>>

ThreadsTypeOK ==
  /\ ClavesTypeOK
  /\ acked \subseteq Line
  /\ before \in [Thread -> Seq(Line)]

ThreadsInit ==
  /\ ClavesInit
  /\ acked = {}
  /\ before = [t \in Thread |-> <<>>]

\* What call r is asked to remove or change.
Targets(r, k) ==
  \/ r.op = "destroy"
  \/ r.op \in {"delete_key", "modify_value"} /\ r.key = k

Call(t, r) ==
  /\ r.op \in Calls
  /\ r.op \in WriteOp => Len(Lines) < MaxLines
  /\ Begin(t, r)
  /\ acked' = {l \in acked : ~Targets(r, l.key)}
  /\ before' = [before EXCEPT ![t] = Lines]

Step(t) == ClavesStep(t) /\ UNCHANGED <<acked, before>>

Return(t) ==
  LET r == req[t]
      l == [key |-> r.key, val |-> Printed[r.val]]
  IN /\ End(t)
     /\ ret' = [ret EXCEPT ![t] = Result(0)]
     /\ acked' = IF /\ r.op = "set_value" /\ ret[t].res = 0
                    /\ \A u \in Thread : ~Targets(req[u], r.key)
                   THEN acked \cup {l} ELSE acked
     /\ before' = [before EXCEPT ![t] = <<>>]
     /\ UNCHANGED <<dir, content, rd, wr, buf>>

ThreadsNext ==
  \E t \in Thread : (\E r \in Request : Call(t, r)) \/ Step(t) \/ Return(t)

ThreadsSpec == ThreadsInit /\ [][ThreadsNext]_threadsVars

-----------------------------------------------------------------------------
Quiet == \A t \in Thread : At(t, "idle")

\* A tuple that set_value has acknowledged and that no call was asked to
\* remove is on data.txt when no call is in progress.
AckedTuplesStay ==
  Quiet => \A l \in acked : \E n \in DOMAIN Lines : Lines[n] = l

\* claves.h, "-1 en caso de error": a call that reports an error has changed
\* nothing, whichever of its steps failed.  (For one thread at a time.)
FailedCallsChangeNothing ==
  \A t \in Thread :
    At(t, "done") /\ ret[t].res = -1 => Lines = before[t]

\* Every error path closes the streams that it opened (descriptors are never
\* given back otherwise: the server runs for ever).
StreamsClosed ==
  \A t \in Thread :
    pc[t] \in {"idle", "done"} => rd[t] = NoInode /\ wr[t] = NoInode
=============================================================================
