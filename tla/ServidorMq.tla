----------------------------- MODULE ServidorMq -----------------------------
(***************************************************************************)
(* ejercicio_evaluable_1: servidor-mq.c and the transport half of          *)
(* proxy-mq.c.  Clients send requests on the message queue /SERVIDOR; main *)
(* receives each into its one variable pr and creates a detached thread,   *)
(* tratar_peticion, which copies pr to a variable of its own.  mutex_men-  *)
(* saje, mensaje_no_copiado and cond_mensaje keep main from receiving the  *)
(* next request over one that is not copied yet.  The reply goes to the    *)
(* queue /CLIENTE_<pid>, made for the call and removed after it.           *)
(*                                                                         *)
(* What the call does to data.txt is in ClavesThreads: here a reply is the *)
(* request that it answers (the server sends the same struct back).        *)
(* A thread's mq_open and mq_send are one step: a queue that is unlinked   *)
(* between the two swallows the reply, as if mq_open had failed before.    *)
(***************************************************************************)
EXTENDS Naturals, Sequences, FiniteSets

CONSTANTS Pid,         \* the process ids of the clients
          Thread,      \* bound: slots for the detached threads
          Main, Nobody,\* main as a holder of the mutex; the mutex free
          NoMessage,   \* pr and the locals before they are assigned
          QueueMax,    \* mq_maxmsg of both kinds of queue (10)
          CreateFails, \* whether pthread_create may fail (EAGAIN)
          Mortal,      \* bound: the pids whose processes may be killed, or
                       \* have no memory for mq_send
          MaxDeaths    \* bound: how many processes are killed, clients and server

ASSUME ServidorMqAssumption ==
  /\ Main \notin Thread /\ Nobody \notin Thread /\ Main # Nobody
  /\ QueueMax \in Nat \ {0}
  /\ CreateFails \in BOOLEAN
  /\ Mortal \subseteq Pid
  /\ MaxDeaths \in Nat

\* A request and its reply: the pid, how many processes have had it before, and
\* a number that tells the call from the one before it.
Message == [from : Pid, life : 0..MaxDeaths, call : {0, 1}]

ASSUME NoMessageAssumption == NoMessage \notin Message

VARIABLES queue,      \* /SERVIDOR
          pr,         \* main's message
          mutex,      \* the holder of mutex_mensaje
          noCopiado,  \* mensaje_no_copiado
          main,       \* where main is
          th,         \* th[t]: where thread t is
          local,      \* local[t]: the pr of tratar_peticion
          given,      \* given[t]: what pr held when t was created (history)
          cl,         \* cl[p]: where process p is in d_send_receive
          call,       \* call[p]: the number of its call
          box,        \* box[p]: the queue /CLIENTE_p, or NoBox
          got,        \* got[p]: the reply of its last call
          life,       \* life[p]: how many processes with pid p were killed
          deaths,     \* how many processes have been killed
          dropped     \* the requests for which there was no thread, or whose
                      \* thread died, and whose sender waits (history)

mainVars == <<queue, pr, main>>
threadVars == <<th, local, given>>
clientVars == <<cl, call, box, got, life>>
mqVars == <<queue, pr, mutex, noCopiado, main, th, local, given,
            cl, call, box, got, life, deaths, dropped>>

NoBox == <<NoMessage>>
Boxes == {s \in Seq(Message) : Len(s) <= QueueMax}

\* The request of the call that p is making or has made last.
Request(p) == [from |-> p, life |-> life[p], call |-> call[p]]

MqTypeOK ==
  /\ queue \in Boxes
  /\ pr \in Message \cup {NoMessage}
  /\ mutex \in Thread \cup {Main, Nobody}
  /\ noCopiado \in BOOLEAN
  /\ main \in {"receive", "create", "lock", "test", "waiting", "woken"}
  /\ th \in [Thread -> {"none", "start", "copy", "signal", "execute", "reply"}]
  /\ local \in [Thread -> Message \cup {NoMessage}]
  /\ given \in [Thread -> Message \cup {NoMessage}]
  /\ cl \in [Pid -> {"idle", "send", "receive"}]
  /\ call \in [Pid -> {0, 1}]
  /\ box \in [Pid -> Boxes \cup {NoBox}]
  /\ got \in [Pid -> Message \cup {NoMessage}]
  /\ life \in [Pid -> 0..MaxDeaths]
  /\ deaths \in 0..MaxDeaths
  /\ \A p \in Pid : life[p] <= deaths
  /\ dropped \in SUBSET Message

MqInit ==
  /\ queue = <<>>
  /\ pr = NoMessage
  /\ mutex = Nobody
  /\ noCopiado = TRUE
  /\ main = "receive"
  /\ th = [t \in Thread |-> "none"]
  /\ local = [t \in Thread |-> NoMessage]
  /\ given = [t \in Thread |-> NoMessage]
  /\ cl = [p \in Pid |-> "idle"]
  /\ call = [p \in Pid |-> 0]
  /\ box = [p \in Pid |-> NoBox]
  /\ got = [p \in Pid |-> NoMessage]
  /\ life = [p \in Pid |-> 0]
  /\ deaths = 0
  /\ dropped = {}

-----------------------------------------------------------------------------
(* d_send_receive.                                                         *)

\* mq_open of the two queues; O_CREAT without O_EXCL takes a queue of that
\* name that is already there, with what it holds.  A call whose mq_open fails
\* returns -2 and has changed nothing: it is not a step.
ClientOpens(p) ==
  /\ cl[p] = "idle"
  /\ call' = [call EXCEPT ![p] = 1 - @]
  /\ box' = [box EXCEPT ![p] = IF @ = NoBox THEN <<>> ELSE @]
  /\ cl' = [cl EXCEPT ![p] = "send"]
  /\ UNCHANGED <<mainVars, mutex, noCopiado, threadVars, got, life, deaths, dropped>>

\* mq_send blocks while the queue is full.
ClientSends(p) ==
  /\ cl[p] = "send"
  /\ Len(queue) < QueueMax
  /\ queue' = Append(queue, Request(p))
  /\ cl' = [cl EXCEPT ![p] = "receive"]
  /\ UNCHANGED <<pr, main, mutex, noCopiado, threadVars,
                 call, box, got, life, deaths, dropped>>

\* mq_send fails (the kernel has no memory): the queue is removed, -2.
ClientSendFails(p) ==
  /\ cl[p] = "send"
  /\ p \in Mortal
  /\ box' = [box EXCEPT ![p] = NoBox]
  /\ got' = [got EXCEPT ![p] = NoMessage]
  /\ cl' = [cl EXCEPT ![p] = "idle"]
  /\ UNCHANGED <<mainVars, mutex, noCopiado, threadVars, call, life, deaths, dropped>>

\* mq_receive, mq_close, mq_unlink: what else the queue holds goes with it.
ClientReceives(p) ==
  /\ cl[p] = "receive"
  /\ box[p] # <<>>
  /\ got' = [got EXCEPT ![p] = Head(box[p])]
  /\ box' = [box EXCEPT ![p] = NoBox]
  /\ cl' = [cl EXCEPT ![p] = "idle"]
  /\ dropped' = {m \in dropped : m.from # p}
  /\ UNCHANGED <<mainVars, mutex, noCopiado, threadVars, call, life, deaths>>

\* The process is killed during the call: nobody unlinks its queue.  Its pid
\* is later that of another client.
ClientDies(p) ==
  /\ cl[p] # "idle"
  /\ p \in Mortal /\ deaths < MaxDeaths
  /\ deaths' = deaths + 1
  /\ life' = [life EXCEPT ![p] = @ + 1]
  /\ cl' = [cl EXCEPT ![p] = "idle"]
  /\ got' = [got EXCEPT ![p] = NoMessage]
  /\ dropped' = {m \in dropped : m.from # p}
  /\ UNCHANGED <<mainVars, mutex, noCopiado, threadVars, call, box>>

-----------------------------------------------------------------------------
(* main.                                                                   *)

MqReceive ==
  /\ main = "receive"
  /\ queue # <<>>
  /\ pr' = Head(queue)
  /\ queue' = Tail(queue)
  /\ main' = "create"
  /\ UNCHANGED <<mutex, noCopiado, threadVars, clientVars, deaths, dropped>>

PthreadCreate(t) ==
  /\ main = "create"
  /\ th[t] = "none"
  /\ th' = [th EXCEPT ![t] = "start"]
  /\ given' = [given EXCEPT ![t] = pr]
  /\ main' = "lock"
  /\ UNCHANGED <<queue, pr, mutex, noCopiado, local, clientVars, deaths, dropped>>

\* The request is dropped and nobody is told.
PthreadCreateFails ==
  /\ main = "create"
  /\ CreateFails
  /\ main' = "receive"
  /\ dropped' = IF cl[pr.from] = "receive" /\ pr = Request(pr.from)
                  THEN dropped \cup {pr} ELSE dropped
  /\ UNCHANGED <<queue, pr, mutex, noCopiado, threadVars, clientVars, deaths>>

\* (Mutant: "if" in the place of "while" around pthread_cond_wait.)
MainLocksOnce ==
  /\ mutex = Nobody
  /\ \/ main = "lock" /\ mutex' = Main /\ main' = "test" /\ UNCHANGED noCopiado
     \/ main = "woken" /\ main' = "receive" /\ noCopiado' = TRUE /\ UNCHANGED mutex
  /\ UNCHANGED <<queue, pr, threadVars, clientVars, deaths, dropped>>

\* pthread_mutex_lock, or the return of pthread_cond_wait.
MainLocks ==
  /\ main \in {"lock", "woken"}
  /\ mutex = Nobody
  /\ mutex' = Main
  /\ main' = "test"
  /\ UNCHANGED <<queue, pr, noCopiado, threadVars, clientVars, deaths, dropped>>

MainWaits ==
  /\ main = "test"
  /\ noCopiado
  /\ mutex' = Nobody
  /\ main' = "waiting"
  /\ UNCHANGED <<queue, pr, noCopiado, threadVars, clientVars, deaths, dropped>>

\* POSIX lets pthread_cond_wait return without a signal.
SpuriousWakeup ==
  /\ main = "waiting"
  /\ main' = "woken"
  /\ UNCHANGED <<queue, pr, mutex, noCopiado, threadVars, clientVars, deaths, dropped>>

\* (Mutant: the flag is not set again for the next request.)
MainGoesOnWithoutReset ==
  /\ main = "test"
  /\ ~noCopiado
  /\ mutex' = Nobody
  /\ main' = "receive"
  /\ UNCHANGED <<queue, pr, noCopiado, threadVars, clientVars, deaths, dropped>>

MainGoesOn ==
  /\ main = "test"
  /\ ~noCopiado
  /\ noCopiado' = TRUE
  /\ mutex' = Nobody
  /\ main' = "receive"
  /\ UNCHANGED <<queue, pr, threadVars, clientVars, deaths, dropped>>

-----------------------------------------------------------------------------
(* tratar_peticion.                                                        *)

ThreadLocks(t) ==
  /\ th[t] = "start"
  /\ mutex = Nobody
  /\ mutex' = t
  /\ th' = [th EXCEPT ![t] = "copy"]
  /\ UNCHANGED <<mainVars, noCopiado, local, given, clientVars, deaths, dropped>>

ThreadCopies(t) ==
  /\ th[t] = "copy"
  /\ local' = [local EXCEPT ![t] = pr]
  /\ th' = [th EXCEPT ![t] = "signal"]
  /\ UNCHANGED <<mainVars, mutex, noCopiado, given, clientVars, deaths, dropped>>

\* (Mutant: no pthread_cond_signal.)
ThreadUnlocks(t) ==
  /\ th[t] = "signal"
  /\ noCopiado' = FALSE
  /\ mutex' = Nobody
  /\ th' = [th EXCEPT ![t] = "execute"]
  /\ UNCHANGED <<mainVars, local, given, clientVars, deaths, dropped>>

\* The flag, the signal and the unlock.
ThreadSignals(t) ==
  /\ th[t] = "signal"
  /\ noCopiado' = FALSE
  /\ main' = IF main = "waiting" THEN "woken" ELSE main
  /\ mutex' = Nobody
  /\ th' = [th EXCEPT ![t] = "execute"]
  /\ UNCHANGED <<queue, pr, local, given, clientVars, deaths, dropped>>

\* The switch: one of the six functions, or -1 for an unknown code.
Execute(t) ==
  /\ th[t] = "execute"
  /\ th' = [th EXCEPT ![t] = "reply"]
  /\ UNCHANGED <<mainVars, mutex, noCopiado, local, given, clientVars, deaths, dropped>>

\* mq_open fails when the queue is gone; mq_send blocks when it is full.
Reply(t) ==
  LET p == local[t].from
  IN /\ th[t] = "reply"
     /\ \/ box[p] = NoBox /\ UNCHANGED box
        \/ /\ box[p] # NoBox
           /\ Len(box[p]) < QueueMax
           /\ box' = [box EXCEPT ![p] = Append(@, local[t])]
     /\ th' = [th EXCEPT ![t] = "none"]
     /\ local' = [local EXCEPT ![t] = NoMessage]
     /\ given' = [given EXCEPT ![t] = NoMessage]
     /\ UNCHANGED <<mainVars, mutex, noCopiado, cl, call, got, life, deaths, dropped>>

-----------------------------------------------------------------------------
(* Death of the server.                                                    *)

\* The requests that only the process knows of, in pr and in the threads.
InHand ==
  (IF main = "create" THEN {pr} ELSE {})
    \cup {given[t] : t \in {u \in Thread : th[u] # "none"}}

\* The process ends with all its threads and is started again: mq_open takes
\* the queue with what it holds.  The clients find it there in between as well,
\* so that to them the end and the start are one step.
ServerRestarts ==
  /\ deaths < MaxDeaths
  /\ deaths' = deaths + 1
  /\ pr' = NoMessage
  /\ mutex' = Nobody
  /\ noCopiado' = TRUE
  /\ main' = "receive"
  /\ th' = [t \in Thread |-> "none"]
  /\ local' = [t \in Thread |-> NoMessage]
  /\ given' = [t \in Thread |-> NoMessage]
  /\ dropped' =
       dropped \cup {m \in InHand : cl[m.from] = "receive" /\ m = Request(m.from)}
  /\ UNCHANGED <<queue, clientVars>>

-----------------------------------------------------------------------------
ClientStep(p) ==
  \/ ClientOpens(p) \/ ClientSends(p) \/ ClientSendFails(p)
  \/ ClientReceives(p) \/ ClientDies(p)

MainStep ==
  \/ MqReceive
  \/ (\E t \in Thread : PthreadCreate(t)) \/ PthreadCreateFails
  \/ MainLocks \/ MainWaits \/ SpuriousWakeup \/ MainGoesOn

ThreadStep(t) ==
  \/ ThreadLocks(t) \/ ThreadCopies(t) \/ ThreadSignals(t)
  \/ Execute(t) \/ Reply(t)

MqNext ==
  \/ \E p \in Pid : ClientStep(p)
  \/ MainStep \/ ServerRestarts
  \/ \E t \in Thread : ThreadStep(t)

MqSpec == MqInit /\ [][MqNext]_mqVars

\* main and the threads run on; a process inside d_send_receive runs on;
\* those that wait for room in a queue (mq_send) or for the mutex, which a
\* wait that wakes up for nothing takes again and again, are served in turn.
MqFairness ==
  /\ WF_mqVars(MqReceive)
  /\ WF_mqVars(\E t \in Thread : PthreadCreate(t))
  /\ SF_mqVars(MainLocks) /\ WF_mqVars(MainWaits) /\ WF_mqVars(MainGoesOn)
  /\ \A t \in Thread : SF_mqVars(ThreadLocks(t)) /\ WF_mqVars(ThreadStep(t))
  /\ \A p \in Pid : SF_mqVars(ClientSends(p)) /\ WF_mqVars(ClientReceives(p))

MqFairSpec == MqSpec /\ MqFairness

-----------------------------------------------------------------------------
\* servidor-mq.c, 15: the mutex and the condition variable protect the copy of
\* the message.  A thread works on the request that it was created for.
Copied(t) == th[t] \in {"signal", "execute", "reply"}

CopiesAreExact == \A t \in Thread : Copied(t) => local[t] = given[t]

\* The inductive invariant behind it.
Uncopied(t) == th[t] \in {"start", "copy"}
Handing(t) == th[t] \in {"start", "copy", "signal"}
MainIsBusy == main \in {"lock", "test", "waiting", "woken"}

HolderInv ==
  /\ mutex = Main <=> main = "test"
  /\ \A t \in Thread : mutex = t <=> th[t] \in {"copy", "signal"}

\* While main is between pthread_create and the end of its wait, the flag says
\* whether the one new thread still has to signal; otherwise the flag is up
\* and there is no such thread.
FlagInv ==
  /\ \A t, u \in Thread : Handing(t) /\ Handing(u) => t = u
  /\ MainIsBusy => (noCopiado <=> \E t \in Thread : Handing(t))
  /\ ~MainIsBusy => noCopiado /\ \A t \in Thread : ~Handing(t)
  /\ \A t \in Thread : Uncopied(t) => given[t] = pr

\* main never sleeps through its signal.
NoLostWakeup == main = "waiting" => \E t \in Thread : Handing(t)

\* No thread is created for a pr that was never received.
Assigned ==
  /\ main = "create" => pr \in Message
  /\ \A t \in Thread : th[t] # "none" => given[t] \in Message

HandoffInv ==
  /\ MqTypeOK
  /\ HolderInv
  /\ FlagInv
  /\ NoLostWakeup
  /\ Assigned
  /\ CopiesAreExact

\* Where a request m is.
Carriers(m) ==
  {<<"queue", i>> : i \in {j \in DOMAIN queue : queue[j] = m}}
    \cup {<<"main", 0>> : x \in {y \in {0} : main = "create" /\ pr = m}}
    \cup {<<"thread", t>> : t \in {u \in Thread : Uncopied(u) /\ pr = m}}
    \cup {<<"thread", t>> : t \in {u \in Thread : Copied(u) /\ local[u] = m}}
    \cup {<<"box", i>> : i \in {j \in DOMAIN box[m.from] : box[m.from][j] = m}}
    \cup {<<"dropped", 0>> : x \in {y \in {0} : m \in dropped}}

\* A request is in one place from mq_send until its reply is received, and
\* nowhere at any other time, so it is executed once and answered once, also
\* when the server is started again in between on the queue that the last one
\* left.  (Of a process whose pid is not reused.)
OnePlace ==
  \A x \in Message :
    LET p == x.from
    IN life[p] = 0 =>
         Cardinality(Carriers(x)) = IF cl[p] = "receive" /\ x = Request(p)
                                      THEN 1 ELSE 0

\* proxy-mq.c, 15: the queue /CLIENTE_<pid> is exclusive to the client: what
\* it receives there is the reply to the request that it has just sent, if
\* its pid is not that of a process killed during a call (such a queue is
\* still there, and mq_open has no O_EXCL).
RepliesAreOwnWithoutReuse ==
  \A p \in Pid : life[p] = 0 /\ cl[p] = "idle" /\ got[p] # NoMessage => got[p] = Request(p)

\* Every call returns, unless there was no thread for its request or the server
\* died with it: neither side of the handoff waits for ever, with more clients
\* than the queue has room for.
CallsReturn ==
  \A p \in Pid :
    cl[p] = "send" ~> cl[p] = "idle" \/ \E m \in dropped : m.from = p
=============================================================================
