-------------------------- MODULE ServidorMq_proofs --------------------------
(***************************************************************************)
(* The handoff of servidor-mq.c is right for any number of clients and     *)
(* threads, any size of the queues, with threads that cannot be created,   *)
(* clients and servers that are killed and waits that wake up for nothing: *)
(* every thread works on the request that it was created for, and main     *)
(* never misses the signal it waits for.  So every request is in one place *)
(* until it is answered, and each reply reaches the client that asked.     *)
(***************************************************************************)
EXTENDS ServidorMq, FiniteSetTheorems, TLAPS

LEMMA HandoffInit ==
  MqInit => HandoffInv
<1> SUFFICES ASSUME MqInit PROVE HandoffInv
  OBVIOUS
<1>1. MqTypeOK
  BY ServidorMqAssumption DEF MqInit, MqTypeOK, Boxes, NoBox
<1>2. HolderInv /\ FlagInv /\ NoLostWakeup /\ Assigned /\ CopiesAreExact
  BY ServidorMqAssumption
     DEF MqInit, HolderInv, FlagInv, NoLostWakeup, Assigned, CopiesAreExact,
         Handing, Uncopied, Copied, MainIsBusy
<1> QED
  BY <1>1, <1>2 DEF HandoffInv

-----------------------------------------------------------------------------
\* The clients touch neither main nor the threads: what is left is the types.
LEMMA ClientKeepsHandoff ==
  ASSUME HandoffInv, NEW p \in Pid, ClientStep(p)
  PROVE  HandoffInv'
<1>1. MqTypeOK
  BY DEF HandoffInv
<1>2. Request(p) \in Message
  BY <1>1 DEF MqTypeOK, Request, Message
<1>3. MqTypeOK'
  <2>1. CASE ClientOpens(p)
    <3>1. call' \in [Pid -> {0, 1}]
      <4>1. call \in [Pid -> {0, 1}] /\ call' = [call EXCEPT ![p] = 1 - call[p]]
        BY <1>1, <2>1 DEF ClientOpens, MqTypeOK
      <4> QED
        BY <4>1
    <3>2. box' \in [Pid -> Boxes \cup {NoBox}]
      <4>1. <<>> \in Boxes
        BY ServidorMqAssumption DEF Boxes
      <4> QED
        BY <1>1, <2>1, <4>1 DEF ClientOpens, MqTypeOK
    <3>3. UNCHANGED <<queue, pr, mutex, noCopiado, main, th, local, given,
                      got, life, deaths, dropped>>
      BY <2>1 DEF ClientOpens, mainVars, threadVars
    <3>4. cl' \in [Pid -> {"idle", "send", "receive"}]
      BY <1>1, <2>1 DEF ClientOpens, MqTypeOK
    <3> QED
      BY <1>1, <3>1, <3>2, <3>3, <3>4 DEF MqTypeOK
  <2>2. CASE ClientSends(p)
    <3>1. queue' \in Boxes
      BY <1>1, <1>2, <2>2, ServidorMqAssumption DEF ClientSends, MqTypeOK, Boxes
    <3> QED
      BY <1>1, <2>2, <3>1 DEF ClientSends, MqTypeOK, threadVars
  <2>3. CASE ClientReceives(p)
    <3>1. Head(box[p]) \in Message \cup {NoMessage}
      <4>1. CASE box[p] = NoBox
        BY <4>1 DEF NoBox
      <4>2. CASE box[p] # NoBox
        BY <1>1, <2>3, <4>2 DEF ClientReceives, MqTypeOK, Boxes
      <4> QED BY <4>1, <4>2
    <3> QED
      BY <1>1, <2>3, <3>1 DEF ClientReceives, MqTypeOK, mainVars, threadVars
  <2>4. CASE ClientDies(p)
    <3>1. /\ life' \in [Pid -> 0..MaxDeaths]
          /\ deaths' \in 0..MaxDeaths
          /\ \A q \in Pid : life'[q] <= deaths'
      <4>1. /\ life[p] \in 0..MaxDeaths /\ life[p] <= deaths
            /\ deaths \in 0..MaxDeaths /\ deaths < MaxDeaths
            /\ deaths' = deaths + 1
        BY <1>1, <2>4 DEF ClientDies, MqTypeOK
      <4>2. life[p] + 1 \in 0..MaxDeaths /\ deaths' \in 0..MaxDeaths
        BY <4>1, ServidorMqAssumption
      <4>3. \A q \in Pid : life[q] \in 0..MaxDeaths /\ life[q] <= deaths
        BY <1>1 DEF MqTypeOK
      <4>4. life' = [life EXCEPT ![p] = life[p] + 1]
        BY <2>4 DEF ClientDies
      <4>5. life' \in [Pid -> 0..MaxDeaths]
        BY <1>1, <4>2, <4>4 DEF MqTypeOK
      <4>6. \A q \in Pid : life'[q] <= deaths'
        BY <1>1, <4>1, <4>3, <4>4, ServidorMqAssumption DEF MqTypeOK
      <4> QED
        BY <4>2, <4>5, <4>6
    <3> QED
      BY <1>1, <2>4, <3>1 DEF ClientDies, MqTypeOK, mainVars, threadVars
  <2>5. CASE ClientSendFails(p)
    BY <1>1, <2>5 DEF ClientSendFails, MqTypeOK, mainVars, threadVars
  <2> QED
    BY <2>1, <2>2, <2>3, <2>4, <2>5 DEF ClientStep
<1>4. UNCHANGED <<pr, main, mutex, noCopiado, th, local, given>>
  BY DEF ClientStep, ClientOpens, ClientSends, ClientSendFails, ClientReceives, ClientDies,
         mainVars, threadVars
<1> QED
  BY <1>3, <1>4
     DEF HandoffInv, HolderInv, FlagInv, NoLostWakeup, Assigned, CopiesAreExact,
         Handing, Uncopied, Copied, MainIsBusy

-----------------------------------------------------------------------------
LEMMA ReceiveKeepsHandoff ==
  ASSUME HandoffInv, MqReceive
  PROVE  HandoffInv'
<1>1. MqTypeOK
  BY DEF HandoffInv
<1>2. Head(queue) \in Message /\ Tail(queue) \in Boxes
  BY <1>1, ServidorMqAssumption DEF MqReceive, MqTypeOK, Boxes
<1>3. MqTypeOK'
  BY <1>1, <1>2 DEF MqReceive, MqTypeOK, threadVars, clientVars
\* No thread has still to copy the message that is overwritten.
<1>4. \A t \in Thread : ~Handing(t)
  BY DEF HandoffInv, FlagInv, MqReceive, MainIsBusy
<1>5. FlagInv'
  BY <1>4 DEF HandoffInv, FlagInv, MqReceive, MainIsBusy, Handing, Uncopied, threadVars
<1> QED
  BY <1>2, <1>3, <1>5
     DEF HandoffInv, MqReceive, HolderInv, NoLostWakeup, Assigned, CopiesAreExact,
         Copied, Handing, threadVars

LEMMA CreateKeepsHandoff ==
  ASSUME HandoffInv, NEW t \in Thread, PthreadCreate(t)
  PROVE  HandoffInv'
<1>1. MqTypeOK'
  BY DEF HandoffInv, MqTypeOK, PthreadCreate, clientVars
<1>2. \A u \in Thread : ~Handing(u)
  BY DEF HandoffInv, FlagInv, PthreadCreate, MainIsBusy
<1>3. /\ th'[t] = "start" /\ given'[t] = pr
      /\ \A u \in Thread \ {t} : th'[u] = th[u] /\ given'[u] = given[u]
  BY DEF HandoffInv, MqTypeOK, PthreadCreate
<1>4. HolderInv'
  BY <1>3 DEF HandoffInv, HolderInv, PthreadCreate
<1>5. FlagInv'
  BY <1>2, <1>3 DEF HandoffInv, FlagInv, PthreadCreate, MainIsBusy, Handing, Uncopied
<1>6. NoLostWakeup' /\ Assigned' /\ CopiesAreExact'
  BY <1>3 DEF HandoffInv, PthreadCreate, NoLostWakeup, Assigned, CopiesAreExact, Copied
<1> QED
  BY <1>1, <1>4, <1>5, <1>6 DEF HandoffInv

LEMMA CreateFailsKeepsHandoff ==
  ASSUME HandoffInv, PthreadCreateFails
  PROVE  HandoffInv'
<1>1. dropped' \in SUBSET Message
  BY DEF HandoffInv, MqTypeOK, Assigned, PthreadCreateFails
<1>2. MqTypeOK'
  BY <1>1 DEF HandoffInv, MqTypeOK, PthreadCreateFails, threadVars, clientVars
<1> QED
  BY <1>2
     DEF HandoffInv, PthreadCreateFails, HolderInv, FlagInv, NoLostWakeup, Assigned,
         CopiesAreExact, Copied, Handing, Uncopied, MainIsBusy, threadVars

\* pthread_mutex_lock, pthread_cond_wait and pthread_mutex_unlock in main.
LEMMA MainKeepsHandoff ==
  ASSUME HandoffInv, MainLocks \/ MainWaits \/ SpuriousWakeup \/ MainGoesOn
  PROVE  HandoffInv'
<1>1. /\ UNCHANGED <<queue, pr, th, local, given>>
      /\ UNCHANGED <<cl, call, box, got, life, deaths, dropped>>
  BY DEF MainLocks, MainWaits, SpuriousWakeup, MainGoesOn, threadVars, clientVars
<1>2. MqTypeOK'
  BY <1>1 DEF HandoffInv, MqTypeOK, MainLocks, MainWaits, SpuriousWakeup, MainGoesOn
<1>3. Assigned' /\ CopiesAreExact'
  BY <1>1 DEF HandoffInv, Assigned, CopiesAreExact, Copied,
              MainLocks, MainWaits, SpuriousWakeup, MainGoesOn
<1>4. CASE MainLocks
  BY <1>1, <1>2, <1>3, <1>4, ServidorMqAssumption
     DEF MainLocks, HandoffInv, HolderInv, FlagInv, NoLostWakeup, MainIsBusy,
         Handing, Uncopied
<1>5. CASE MainWaits
  BY <1>1, <1>2, <1>3, <1>5, ServidorMqAssumption
     DEF MainWaits, HandoffInv, HolderInv, FlagInv, NoLostWakeup, MainIsBusy,
         Handing, Uncopied
<1>6. CASE SpuriousWakeup
  BY <1>1, <1>2, <1>3, <1>6
     DEF SpuriousWakeup, HandoffInv, HolderInv, FlagInv, NoLostWakeup, MainIsBusy,
         Handing, Uncopied
<1>7. CASE MainGoesOn
  BY <1>1, <1>2, <1>3, <1>7, ServidorMqAssumption
     DEF MainGoesOn, HandoffInv, HolderInv, FlagInv, NoLostWakeup, MainIsBusy,
         Handing, Uncopied
<1> QED
  BY <1>4, <1>5, <1>6, <1>7

-----------------------------------------------------------------------------
LEMMA ThreadKeepsHandoff ==
  ASSUME HandoffInv, NEW t \in Thread, ThreadStep(t)
  PROVE  HandoffInv'
<1>1. MqTypeOK
  BY DEF HandoffInv
<1>2. \A u \in Thread \ {t} :
        th'[u] = th[u] /\ local'[u] = local[u] /\ given'[u] = given[u]
  BY <1>1 DEF MqTypeOK, ThreadStep, ThreadLocks, ThreadCopies, ThreadSignals, Execute,
              Reply
<1>3. CASE ThreadLocks(t)
  <2>1. th'[t] = "copy" /\ mutex' = t /\ mutex = Nobody
    BY <1>1, <1>3 DEF MqTypeOK, ThreadLocks
  <2>2. MqTypeOK'
    BY <1>1, <1>3 DEF MqTypeOK, ThreadLocks, mainVars, clientVars
  <2>3. HolderInv'
    BY <1>2, <1>3, <2>1, ServidorMqAssumption
       DEF HandoffInv, HolderInv, ThreadLocks, mainVars
  <2> QED
    BY <1>2, <1>3, <2>1, <2>2, <2>3
       DEF HandoffInv, ThreadLocks, FlagInv, NoLostWakeup, Assigned, CopiesAreExact,
           Handing, Uncopied, Copied, MainIsBusy, mainVars
<1>4. CASE ThreadCopies(t)
  <2>1. th'[t] = "signal" /\ local'[t] = pr /\ given'[t] = given[t] /\ th[t] = "copy"
    BY <1>1, <1>4 DEF MqTypeOK, ThreadCopies
  <2>2. MqTypeOK'
    BY <1>1, <1>4 DEF MqTypeOK, ThreadCopies, mainVars, clientVars
  <2>3. given[t] = pr
    BY <2>1 DEF HandoffInv, FlagInv, Uncopied
  <2>4. CopiesAreExact'
    BY <1>2, <2>1, <2>3 DEF HandoffInv, CopiesAreExact, Copied
  <2>5. HolderInv'
    BY <1>2, <1>4, <2>1 DEF HandoffInv, HolderInv, ThreadCopies, mainVars
  <2>6. FlagInv' /\ NoLostWakeup' /\ Assigned'
    BY <1>2, <1>4, <2>1
       DEF HandoffInv, ThreadCopies, FlagInv, NoLostWakeup, Assigned,
           Handing, Uncopied, MainIsBusy, mainVars
  <2> QED
    BY <2>2, <2>4, <2>5, <2>6 DEF HandoffInv
<1>5. CASE ThreadSignals(t)
  <2>1. th'[t] = "execute" /\ th[t] = "signal" /\ given'[t] = given[t]
        /\ local'[t] = local[t]
    BY <1>1, <1>5 DEF MqTypeOK, ThreadSignals
  <2>2. MqTypeOK'
    BY <1>1, <1>5 DEF MqTypeOK, ThreadSignals, clientVars
  <2>3. MainIsBusy /\ MainIsBusy' /\ main # "test" /\ main' \notin {"test", "waiting"}
    BY <1>1, <1>5, <2>1, ServidorMqAssumption
       DEF HandoffInv, HolderInv, FlagInv, Handing, MainIsBusy, ThreadSignals, MqTypeOK
  <2>4. HolderInv'
    BY <1>2, <1>5, <2>1, <2>3, ServidorMqAssumption
       DEF HandoffInv, HolderInv, ThreadSignals
  <2>5. \A u \in Thread : ~Handing(u)'
    BY <1>2, <2>1 DEF HandoffInv, FlagInv, Handing
  <2>6. FlagInv'
    BY <1>2, <1>5, <2>3, <2>5 DEF FlagInv, ThreadSignals, Handing, Uncopied
  <2>7. NoLostWakeup' /\ Assigned' /\ CopiesAreExact'
    BY <1>2, <1>5, <2>1, <2>3
       DEF HandoffInv, NoLostWakeup, Assigned, CopiesAreExact, Copied, MainIsBusy
  <2> QED
    BY <2>2, <2>4, <2>6, <2>7 DEF HandoffInv
<1>6. CASE Execute(t)
  <2>1. th'[t] = "reply" /\ th[t] = "execute" /\ given'[t] = given[t]
        /\ local'[t] = local[t]
    BY <1>1, <1>6 DEF MqTypeOK, Execute
  <2>2. MqTypeOK'
    BY <1>1, <1>6 DEF MqTypeOK, Execute, mainVars, clientVars
  <2>3. HolderInv' /\ NoLostWakeup' /\ Assigned' /\ CopiesAreExact'
    BY <1>2, <1>6, <2>1
       DEF HandoffInv, Execute, HolderInv, NoLostWakeup, Assigned, CopiesAreExact,
           Handing, Copied, mainVars
  <2>4. FlagInv'
    BY <1>2, <1>6, <2>1
       DEF HandoffInv, Execute, FlagInv, Handing, Uncopied, MainIsBusy, mainVars
  <2> QED
    BY <2>2, <2>3, <2>4 DEF HandoffInv
<1>7. CASE Reply(t)
  <2>1. th'[t] = "none" /\ th[t] = "reply"
    BY <1>1, <1>7 DEF MqTypeOK, Reply
  <2>2. local[t] \in Message
    BY <2>1 DEF HandoffInv, Assigned, CopiesAreExact, Copied
  <2>3. box' \in [Pid -> Boxes \cup {NoBox}]
    <3> DEFINE p == local[t].from
    <3>1. p \in Pid
      BY <2>2 DEF Message
    <3>2. CASE box[p] = NoBox
      BY <1>1, <1>7, <3>2 DEF MqTypeOK, Reply
    <3>3. CASE box[p] # NoBox
      <4>1. box[p] \in Boxes /\ Len(box[p]) < QueueMax
        BY <1>1, <1>7, <3>1, <3>3 DEF MqTypeOK, Reply
      <4>2. Append(box[p], local[t]) \in Boxes
        BY <2>2, <4>1, ServidorMqAssumption DEF Boxes
      <4>3. box' = [box EXCEPT ![p] = Append(@, local[t])]
        BY <1>7, <3>3 DEF Reply
      <4> QED
        BY <1>1, <3>1, <4>2, <4>3 DEF MqTypeOK
    <3> QED BY <3>2, <3>3
  <2>4. MqTypeOK'
    BY <1>1, <1>7, <2>3 DEF MqTypeOK, Reply, mainVars
  <2>5. HolderInv' /\ NoLostWakeup' /\ Assigned' /\ CopiesAreExact'
    BY <1>2, <1>7, <2>1
       DEF HandoffInv, Reply, HolderInv, NoLostWakeup, Assigned, CopiesAreExact,
           Handing, Copied, mainVars
  <2>6. FlagInv'
    BY <1>2, <1>7, <2>1
       DEF HandoffInv, Reply, FlagInv, Handing, Uncopied, MainIsBusy, mainVars
  <2> QED
    BY <2>4, <2>5, <2>6 DEF HandoffInv
<1> QED
  BY <1>3, <1>4, <1>5, <1>6, <1>7 DEF ThreadStep

-----------------------------------------------------------------------------
\* The server that is started again has the queue and nothing else.
LEMMA RestartKeepsHandoff ==
  ASSUME HandoffInv, ServerRestarts
  PROVE  HandoffInv'
<1>1. \A m \in InHand : m \in Message
  BY DEF HandoffInv, Assigned, InHand
<1>2. dropped' \in SUBSET Message
  BY <1>1 DEF HandoffInv, MqTypeOK, ServerRestarts
<1>3. /\ deaths' \in 0..MaxDeaths
      /\ \A p \in Pid : life'[p] <= deaths'
  <2>1. /\ deaths \in 0..MaxDeaths /\ deaths < MaxDeaths /\ deaths' = deaths + 1
        /\ life' = life
        /\ \A p \in Pid : life[p] \in 0..MaxDeaths /\ life[p] <= deaths
    BY DEF HandoffInv, MqTypeOK, ServerRestarts, clientVars
  <2> QED
    BY <2>1, ServidorMqAssumption
<1>4. MqTypeOK'
  BY <1>2, <1>3 DEF HandoffInv, MqTypeOK, ServerRestarts, clientVars
<1> QED
  BY <1>4, ServidorMqAssumption
     DEF ServerRestarts, HandoffInv, HolderInv, FlagInv, NoLostWakeup, Assigned,
         CopiesAreExact, Handing, Uncopied, Copied, MainIsBusy

-----------------------------------------------------------------------------
\* The flag, the mutex and the message agree in every reachable state.
THEOREM HandoffInvariant ==
  MqSpec => []HandoffInv
<1>1. HandoffInv /\ [MqNext]_mqVars => HandoffInv'
  <2> SUFFICES ASSUME HandoffInv, [MqNext]_mqVars
               PROVE  HandoffInv'
    OBVIOUS
  <2>1. ASSUME NEW p \in Pid, ClientStep(p) PROVE HandoffInv'
    BY <2>1, ClientKeepsHandoff
  <2>2. CASE MainStep
    BY <2>2, ReceiveKeepsHandoff, CreateKeepsHandoff, CreateFailsKeepsHandoff,
       MainKeepsHandoff DEF MainStep
  <2>3. ASSUME NEW t \in Thread, ThreadStep(t) PROVE HandoffInv'
    BY <2>3, ThreadKeepsHandoff
  <2>4. CASE ServerRestarts
    BY <2>4, RestartKeepsHandoff
  <2>5. CASE UNCHANGED mqVars
    BY <2>5
       DEF mqVars, HandoffInv, MqTypeOK, HolderInv, FlagInv, NoLostWakeup, Assigned,
           CopiesAreExact, Handing, Uncopied, Copied, MainIsBusy
  <2> QED
    BY <2>1, <2>2, <2>3, <2>4, <2>5 DEF MqNext
<1> QED
  BY HandoffInit, <1>1, PTL DEF MqSpec

\* Each thread executes the request that main received for it (servidor-mq.c,
\* 27-33), although there is one pr and mq_receive writes it without the mutex.
THEOREM ThreadsWorkOnTheirRequest ==
  MqSpec => []CopiesAreExact
<1>1. HandoffInv => CopiesAreExact
  BY DEF HandoffInv
<1> QED
  BY HandoffInvariant, <1>1, PTL

\* main is never asleep unless a thread is on its way to signal.
THEOREM SignalIsNotLost ==
  MqSpec => []NoLostWakeup
<1>1. HandoffInv => NoLostWakeup
  BY DEF HandoffInv
<1> QED
  BY HandoffInvariant, <1>1, PTL

-----------------------------------------------------------------------------
(* OnePlace.  HandoffInv says which request each thread has, so that the   *)
(* places of a request are these, and a step moves it from one to another. *)

Holds(m, c) ==
  \/ \E i \in DOMAIN queue : queue[i] = m /\ c = <<"queue", i>>
  \/ main = "create" /\ pr = m /\ c = <<"main", 0>>
  \/ \E t \in Thread : th[t] # "none" /\ given[t] = m /\ c = <<"thread", t>>
  \/ \E i \in DOMAIN box[m.from] : box[m.from][i] = m /\ c = <<"box", i>>
  \/ m \in dropped /\ c = <<"dropped", 0>>

\* The sender of m waits for the reply to it.
Awaited(m) == cl[m.from] = "receive" /\ m = Request(m.from)

PlaceOK(m) ==
  life[m.from] = 0 =>
    /\ Awaited(m) <=> \E c : Holds(m, c)
    /\ \A c, d : Holds(m, c) /\ Holds(m, d) => c = d

\* The queue /CLIENTE_p: there during a call, with replies to p and no others.
BoxOK(p) ==
  /\ box[p] # NoBox => \A i \in DOMAIN box[p] : box[p][i].from = p
  /\ life[p] = 0 => /\ cl[p] = "idle" <=> box[p] = NoBox
                    /\ cl[p] = "idle" /\ got[p] # NoMessage => got[p] = Request(p)

PlacesInv ==
  /\ \A m \in Message : PlaceOK(m)
  /\ \A p \in Pid : BoxOK(p)

LEMMA NoBoxIsNone ==
  NoBox \notin Boxes /\ (\A i \in DOMAIN NoBox : NoBox[i] \notin Message)
<1>1. DOMAIN NoBox = {1} /\ NoBox[1] = NoMessage
  BY DEF NoBox
<1>2. \A s \in Boxes : 1 \in DOMAIN s => s[1] \in Message
  BY DEF Boxes
<1> QED BY <1>1, <1>2, NoMessageAssumption

\* Holds is Carriers.
LEMMA CarriersAreHolders ==
  HandoffInv => \A m \in Message : \A c : c \in Carriers(m) <=> Holds(m, c)
<1> SUFFICES ASSUME HandoffInv, NEW m \in Message, NEW c
             PROVE  c \in Carriers(m) <=> Holds(m, c)
  OBVIOUS
<1>1. \A t \in Thread : (Uncopied(t) /\ pr = m) \/ (Copied(t) /\ local[t] = m)
                          <=> th[t] # "none" /\ given[t] = m
  <2>1. \A t \in Thread : th[t] # "none" <=> Uncopied(t) \/ Copied(t)
    BY DEF HandoffInv, MqTypeOK, Uncopied, Copied
  <2>2. \A t \in Thread : (Uncopied(t) => given[t] = pr) /\ (Copied(t) => given[t] = local[t])
    BY DEF HandoffInv, FlagInv, CopiesAreExact
  <2>3. \A t \in Thread : ~(Uncopied(t) /\ Copied(t))
    BY DEF Uncopied, Copied
  <2> QED BY <2>1, <2>2, <2>3
<1>2. c \in Carriers(m) <=>
        \/ \E i \in DOMAIN queue : queue[i] = m /\ c = <<"queue", i>>
        \/ main = "create" /\ pr = m /\ c = <<"main", 0>>
        \/ \E t \in Thread : /\ (Uncopied(t) /\ pr = m) \/ (Copied(t) /\ local[t] = m)
                             /\ c = <<"thread", t>>
        \/ \E i \in DOMAIN box[m.from] : box[m.from][i] = m /\ c = <<"box", i>>
        \/ m \in dropped /\ c = <<"dropped", 0>>
  BY DEF Carriers
<1> QED
  BY <1>1, <1>2 DEF Holds

\* A step after which m is where it was.
LEMMA Unmoved ==
  ASSUME NEW m \in Message, PlaceOK(m),
         life'[m.from] = 0 => life[m.from] = 0,
         life'[m.from] = 0 => (Awaited(m)' <=> Awaited(m)),
         life'[m.from] = 0 => \A c : Holds(m, c)' <=> Holds(m, c)
  PROVE  PlaceOK(m)'
BY DEF PlaceOK

-----------------------------------------------------------------------------
(* The clients.                                                            *)

LEMMA OpensKeepsPlaces ==
  ASSUME HandoffInv, PlacesInv, NEW p \in Pid, ClientOpens(p)
  PROVE  PlacesInv'
<1>1. /\ cl[p] = "idle" /\ cl' = [cl EXCEPT ![p] = "send"]
      /\ box' = [box EXCEPT ![p] = IF box[p] = NoBox THEN <<>> ELSE box[p]]
      /\ call' = [call EXCEPT ![p] = 1 - call[p]]
      /\ UNCHANGED <<queue, pr, main, th, given, got, life, dropped>>
  BY DEF ClientOpens, mainVars, threadVars
<1>2. /\ cl \in [Pid -> {"idle", "send", "receive"}] /\ box \in [Pid -> Boxes \cup {NoBox}]
      /\ call \in [Pid -> {0, 1}]
  BY DEF HandoffInv, MqTypeOK
<1>3. ASSUME NEW q \in Pid \ {p}
      PROVE  cl'[q] = cl[q] /\ box'[q] = box[q] /\ Request(q)' = Request(q)
  BY <1>1, <1>2 DEF Request
<1>4. cl'[p] = "send" /\ box'[p] # NoBox
      /\ (box[p] # NoBox => box'[p] = box[p]) /\ (box[p] = NoBox => box'[p] = <<>>)
  <2>1. <<>> # NoBox
    BY DEF NoBox
  <2> QED BY <1>1, <1>2, <2>1
<1>5. ASSUME NEW q \in Pid PROVE BoxOK(q)'
  <2>1. BoxOK(q)
    BY DEF PlacesInv
  <2>2. CASE q = p
    BY <1>1, <1>4, <2>1, <2>2 DEF BoxOK
  <2>3. CASE q # p
    BY <1>1, <1>3, <2>1, <2>3 DEF BoxOK
  <2> QED BY <2>2, <2>3
<1>6. ASSUME NEW x \in Message PROVE PlaceOK(x)'
  <2>1. PlaceOK(x) /\ x.from \in Pid
    BY DEF PlacesInv, Message
  <2>2. CASE x.from = p
    <3>1. ~Awaited(x) /\ ~Awaited(x)'
      BY <1>1, <1>4, <2>2 DEF Awaited
    <3>2. \A c : Holds(x, c)' => Holds(x, c)
      BY <1>1, <1>4, <2>2 DEF Holds
    <3> QED BY <1>1, <2>1, <3>1, <3>2 DEF PlaceOK
  <2>3. CASE x.from # p
    <3>1. Awaited(x)' <=> Awaited(x)
      BY <1>3, <2>1, <2>3 DEF Awaited
    <3>2. \A c : Holds(x, c)' <=> Holds(x, c)
      BY <1>1, <1>3, <2>1, <2>3 DEF Holds
    <3> QED BY <1>1, <2>1, <3>1, <3>2, Unmoved
  <2> QED BY <2>2, <2>3
<1> QED
  BY <1>5, <1>6 DEF PlacesInv

LEMMA SendsKeepsPlaces ==
  ASSUME HandoffInv, PlacesInv, NEW p \in Pid, ClientSends(p)
  PROVE  PlacesInv'
<1> DEFINE r == Request(p)
<1>1. /\ cl[p] = "send" /\ cl' = [cl EXCEPT ![p] = "receive"]
      /\ queue' = Append(queue, r)
      /\ UNCHANGED <<pr, main, th, given, call, box, got, life, dropped>>
  BY DEF ClientSends, threadVars
<1>2. /\ cl \in [Pid -> {"idle", "send", "receive"}] /\ queue \in Seq(Message)
      /\ r \in Message /\ r.from = p
  BY DEF HandoffInv, MqTypeOK, Boxes, Request, Message
<1>3. \A q \in Pid : Request(q)' = Request(q)
  BY <1>1 DEF Request
<1>4. /\ Len(queue) \in Nat /\ DOMAIN queue = 1..Len(queue)
      /\ DOMAIN queue' = 1..(Len(queue) + 1) /\ queue'[Len(queue) + 1] = r
      /\ \A i \in DOMAIN queue : queue'[i] = queue[i]
  BY <1>1, <1>2
<1>5. ASSUME NEW q \in Pid PROVE BoxOK(q)'
  <2>1. BoxOK(q) /\ (cl'[q] = "idle" <=> cl[q] = "idle") /\ Request(q)' = Request(q)
    BY <1>1, <1>2, <1>3 DEF PlacesInv
  <2> QED BY <1>1, <2>1 DEF BoxOK
<1>6. ASSUME NEW x \in Message PROVE PlaceOK(x)'
  <2>1. PlaceOK(x) /\ x.from \in Pid
    BY DEF PlacesInv, Message
  <2>2. CASE x = r
    <3>1. ~Awaited(x) /\ Awaited(x)'
      BY <1>1, <1>2, <1>3, <2>2 DEF Awaited
    <3>2. \A c : Holds(x, c)' <=> Holds(x, c) \/ c = <<"queue", Len(queue) + 1>>
      BY <1>1, <1>4, <2>2 DEF Holds
    <3> QED BY <1>1, <2>1, <3>1, <3>2 DEF PlaceOK
  <2>3. CASE x # r
    <3>1. Awaited(x)' <=> Awaited(x)
      BY <1>1, <1>2, <1>3, <2>1, <2>3 DEF Awaited
    <3>2. \A c : Holds(x, c)' <=> Holds(x, c)
      BY <1>1, <1>4, <2>3 DEF Holds
    <3> QED BY <1>1, <2>1, <3>1, <3>2, Unmoved
  <2> QED BY <2>2, <2>3
<1> QED
  BY <1>5, <1>6 DEF PlacesInv

\* Before mq_send there is nothing of p anywhere.
LEMMA SendFailsKeepsPlaces ==
  ASSUME HandoffInv, PlacesInv, NEW p \in Pid, ClientSendFails(p)
  PROVE  PlacesInv'
<1>1. /\ cl[p] = "send" /\ cl' = [cl EXCEPT ![p] = "idle"]
      /\ got' = [got EXCEPT ![p] = NoMessage] /\ box' = [box EXCEPT ![p] = NoBox]
      /\ UNCHANGED <<queue, pr, main, th, given, call, life, dropped>>
  BY DEF ClientSendFails, mainVars, threadVars
<1>2. /\ cl \in [Pid -> {"idle", "send", "receive"}] /\ box \in [Pid -> Boxes \cup {NoBox}]
      /\ got \in [Pid -> Message \cup {NoMessage}]
  BY DEF HandoffInv, MqTypeOK
<1>3. \A q \in Pid : Request(q)' = Request(q)
  BY <1>1 DEF Request
<1>4. ASSUME NEW q \in Pid \ {p}
      PROVE  cl'[q] = cl[q] /\ box'[q] = box[q] /\ got'[q] = got[q]
  BY <1>1, <1>2
<1>5. cl'[p] = "idle" /\ box'[p] = NoBox /\ got'[p] = NoMessage
  BY <1>1, <1>2
<1>6. ASSUME NEW q \in Pid PROVE BoxOK(q)'
  <2>1. CASE q = p
    BY <1>5, <2>1 DEF BoxOK
  <2>2. CASE q # p
    BY <1>1, <1>3, <1>4, <2>2 DEF PlacesInv, BoxOK
  <2> QED BY <2>1, <2>2
<1>7. ASSUME NEW x \in Message PROVE PlaceOK(x)'
  <2>1. PlaceOK(x) /\ x.from \in Pid
    BY DEF PlacesInv, Message
  <2>2. CASE x.from = p
    <3>1. ~Awaited(x) /\ ~Awaited(x)'
      BY <1>1, <1>5, <2>2 DEF Awaited
    <3>2. \A c : Holds(x, c)' => Holds(x, c)
      BY <1>1, <1>5, <2>2, NoBoxIsNone DEF Holds
    <3> QED BY <1>1, <2>1, <3>1, <3>2 DEF PlaceOK
  <2>3. CASE x.from # p
    <3>1. Awaited(x)' <=> Awaited(x)
      BY <1>3, <1>4, <2>1, <2>3 DEF Awaited
    <3>2. \A c : Holds(x, c)' <=> Holds(x, c)
      BY <1>1, <1>4, <2>1, <2>3 DEF Holds
    <3> QED BY <1>1, <2>1, <3>1, <3>2, Unmoved
  <2> QED BY <2>2, <2>3
<1> QED
  BY <1>6, <1>7 DEF PlacesInv

\* The first message of the queue of p is the reply to its request, and there
\* is nothing else of p anywhere.
LEMMA ReceivesKeepsPlaces ==
  ASSUME HandoffInv, PlacesInv, NEW p \in Pid, ClientReceives(p)
  PROVE  PlacesInv'
<1> DEFINE h == Head(box[p])
<1>1. /\ cl[p] = "receive" /\ cl' = [cl EXCEPT ![p] = "idle"] /\ box[p] # <<>>
      /\ got' = [got EXCEPT ![p] = h] /\ box' = [box EXCEPT ![p] = NoBox]
      /\ dropped' = {m \in dropped : m.from # p}
      /\ UNCHANGED <<queue, pr, main, th, given, call, life>>
  BY DEF ClientReceives, mainVars, threadVars
<1>2. /\ cl \in [Pid -> {"idle", "send", "receive"}] /\ box \in [Pid -> Boxes \cup {NoBox}]
      /\ got \in [Pid -> Message \cup {NoMessage}]
  BY DEF HandoffInv, MqTypeOK
<1>3. \A q \in Pid : Request(q)' = Request(q)
  BY <1>1 DEF Request
<1>4. ASSUME NEW q \in Pid \ {p}
      PROVE  cl'[q] = cl[q] /\ box'[q] = box[q] /\ got'[q] = got[q]
  BY <1>1, <1>2
<1>5. cl'[p] = "idle" /\ box'[p] = NoBox /\ got'[p] = h
  BY <1>1, <1>2
<1>6. ASSUME life[p] = 0
      PROVE  h = Request(p) /\ h \in Message /\ Holds(h, <<"box", 1>>)
  <2>1. BoxOK(p) /\ box[p] # NoBox
    BY <1>1, <1>6 DEF PlacesInv, BoxOK
  <2>2. box[p] \in Boxes
    BY <1>2, <2>1
  <2>3. 1 \in DOMAIN box[p] /\ h = box[p][1] /\ h \in Message
    BY <1>1, <2>2 DEF Boxes
  <2>4. h.from = p
    BY <2>1, <2>3 DEF BoxOK
  <2> HIDE DEF h
  <2>5. Holds(h, <<"box", 1>>)
    BY <2>3, <2>4 DEF Holds
  <2>6. Awaited(h)
    BY <1>6, <2>3, <2>4, <2>5 DEF PlacesInv, PlaceOK
  <2> QED BY <2>3, <2>4, <2>5, <2>6 DEF Awaited
<1> HIDE DEF h
<1>7. ASSUME NEW q \in Pid PROVE BoxOK(q)'
  <2>1. BoxOK(q)
    BY DEF PlacesInv
  <2>2. CASE q = p
    BY <1>1, <1>3, <1>5, <1>6, <2>2 DEF BoxOK
  <2>3. CASE q # p
    BY <1>1, <1>3, <1>4, <2>1, <2>3 DEF BoxOK
  <2> QED BY <2>2, <2>3
<1>8. ASSUME NEW x \in Message PROVE PlaceOK(x)'
  <2>1. PlaceOK(x) /\ x.from \in Pid
    BY DEF PlacesInv, Message
  <2>2. CASE x.from = p
    <3>1. ~Awaited(x)'
      BY <1>5, <2>2 DEF Awaited
    <3>2. ASSUME life[p] = 0, NEW c, Holds(x, c)'
          PROVE  FALSE
      <4>1. /\ c[1] \in {"queue", "main", "thread"}
            /\ Holds(x, c)
        BY <1>1, <1>5, <2>2, <3>2, NoBoxIsNone DEF Holds
      <4>2. Awaited(x)
        BY <2>1, <2>2, <3>2, <4>1 DEF PlaceOK
      <4>3. x = h
        BY <1>6, <2>2, <3>2, <4>2 DEF Awaited
      <4>4. c = <<"box", 1>>
        BY <1>6, <2>1, <2>2, <3>2, <4>1, <4>3 DEF PlaceOK
      <4> QED BY <4>1, <4>4
    <3> QED BY <1>1, <2>2, <3>1, <3>2 DEF PlaceOK
  <2>3. CASE x.from # p
    <3>1. Awaited(x)' <=> Awaited(x)
      BY <1>3, <1>4, <2>1, <2>3 DEF Awaited
    <3>2. \A c : Holds(x, c)' <=> Holds(x, c)
      BY <1>1, <1>4, <2>1, <2>3 DEF Holds
    <3> QED BY <1>1, <2>1, <3>1, <3>2, Unmoved
  <2> QED BY <2>2, <2>3
<1> QED
  BY <1>7, <1>8 DEF PlacesInv

\* Of a process that is killed nothing is claimed any more.
LEMMA DiesKeepsPlaces ==
  ASSUME HandoffInv, PlacesInv, NEW p \in Pid, ClientDies(p)
  PROVE  PlacesInv'
<1>1. /\ life' = [life EXCEPT ![p] = life[p] + 1]
      /\ cl' = [cl EXCEPT ![p] = "idle"] /\ got' = [got EXCEPT ![p] = NoMessage]
      /\ dropped' = {m \in dropped : m.from # p}
      /\ UNCHANGED <<queue, pr, main, th, given, call, box>>
  BY DEF ClientDies, mainVars, threadVars
<1>2. /\ cl \in [Pid -> {"idle", "send", "receive"}] /\ life \in [Pid -> 0..MaxDeaths]
      /\ got \in [Pid -> Message \cup {NoMessage}] /\ life[p] \in Nat
  BY DEF HandoffInv, MqTypeOK
<1>3. life'[p] # 0
  BY <1>1, <1>2
<1>4. ASSUME NEW q \in Pid \ {p}
      PROVE  /\ cl'[q] = cl[q] /\ life'[q] = life[q] /\ got'[q] = got[q]
             /\ Request(q)' = Request(q)
  BY <1>1, <1>2 DEF Request
<1>5. ASSUME NEW q \in Pid PROVE BoxOK(q)'
  BY <1>1, <1>3, <1>4 DEF PlacesInv, BoxOK
<1>6. ASSUME NEW x \in Message PROVE PlaceOK(x)'
  <2>1. PlaceOK(x) /\ x.from \in Pid
    BY DEF PlacesInv, Message
  <2>2. CASE x.from = p
    BY <1>3, <2>2 DEF PlaceOK
  <2>3. CASE x.from # p
    <3>1. (Awaited(x)' <=> Awaited(x)) /\ life'[x.from] = life[x.from]
      BY <1>4, <2>1, <2>3 DEF Awaited
    <3>2. \A c : Holds(x, c)' <=> Holds(x, c)
      BY <1>1, <2>1, <2>3 DEF Holds
    <3> QED BY <2>1, <3>1, <3>2, Unmoved
  <2> QED BY <2>2, <2>3
<1> QED
  BY <1>5, <1>6 DEF PlacesInv

-----------------------------------------------------------------------------
(* main and the threads.                                                   *)

\* A step that leaves the clients alone, but for their queues.
LEMMA ClientsWait ==
  ASSUME PlacesInv, UNCHANGED <<cl, call, got, life>>
  PROVE  /\ \A x \in Message : Awaited(x)' <=> Awaited(x)
         /\ UNCHANGED box => \A p \in Pid : BoxOK(p)'
<1>1. \A q \in Pid : Request(q)' = Request(q)
  BY DEF Request
<1>2. \A x \in Message : Awaited(x)' <=> Awaited(x)
  BY <1>1 DEF Awaited, Message
<1>3. UNCHANGED box => \A p \in Pid : BoxOK(p)'
  BY <1>1 DEF PlacesInv, BoxOK
<1> QED BY <1>2, <1>3

\* A step that moves no request.
LEMMA NothingMoves ==
  ASSUME PlacesInv, UNCHANGED <<queue, pr, given, cl, call, box, got, life, dropped>>,
         main' = "create" <=> main = "create",
         \A t \in Thread : th'[t] # "none" <=> th[t] # "none"
  PROVE  PlacesInv'
<1>1. ASSUME NEW x \in Message PROVE PlaceOK(x)'
  <2>1. \A c : Holds(x, c)' <=> Holds(x, c)
    BY DEF Holds
  <2> QED BY <2>1, ClientsWait, Unmoved DEF PlacesInv
<1> QED
  BY <1>1, ClientsWait DEF PlacesInv

LEMMA ReceiveKeepsPlaces ==
  ASSUME HandoffInv, PlacesInv, MqReceive
  PROVE  PlacesInv'
<1> DEFINE h == Head(queue)
<1>1. /\ main = "receive" /\ main' = "create" /\ pr' = h /\ queue' = Tail(queue)
      /\ queue # <<>>
      /\ UNCHANGED <<th, given, cl, call, box, got, life, dropped>>
  BY DEF MqReceive, threadVars, clientVars
<1>2. queue \in Seq(Message)
  BY DEF HandoffInv, MqTypeOK, Boxes
<1>3. /\ Len(queue) \in Nat /\ DOMAIN queue = 1..Len(queue) /\ 1 \in DOMAIN queue
      /\ queue[1] = h
      /\ DOMAIN queue' = 1..(Len(queue) - 1)
      /\ \A i \in DOMAIN queue' : queue'[i] = queue[i + 1] /\ i + 1 \in DOMAIN queue
      /\ \A i \in DOMAIN queue : i # 1 => i - 1 \in DOMAIN queue' /\ queue'[i - 1] = queue[i]
  BY <1>1, <1>2
<1> HIDE DEF h
<1>4. ASSUME NEW x \in Message PROVE PlaceOK(x)'
  <2>1. PlaceOK(x) /\ (Awaited(x)' <=> Awaited(x))
    BY <1>1, ClientsWait DEF PlacesInv
  <2>2. \A c : Holds(x, c)' <=>
          \/ \E i \in DOMAIN queue : queue[i] = x /\ i # 1 /\ c = <<"queue", i - 1>>
          \/ queue[1] = x /\ c = <<"main", 0>>
          \/ c[1] \notin {"queue", "main"} /\ Holds(x, c)
    <3> SUFFICES ASSUME NEW c
                 PROVE  Holds(x, c)' <=>
                          \/ \E i \in DOMAIN queue :
                               queue[i] = x /\ i # 1 /\ c = <<"queue", i - 1>>
                          \/ queue[1] = x /\ c = <<"main", 0>>
                          \/ c[1] \notin {"queue", "main"} /\ Holds(x, c)
      OBVIOUS
    <3>1. (\E i \in DOMAIN queue' : queue'[i] = x /\ c = <<"queue", i>>)
            <=> \E i \in DOMAIN queue : queue[i] = x /\ i # 1 /\ c = <<"queue", i - 1>>
      <4>1. ASSUME NEW i \in DOMAIN queue', queue'[i] = x, c = <<"queue", i>>
            PROVE  \E j \in DOMAIN queue : queue[j] = x /\ j # 1 /\ c = <<"queue", j - 1>>
        <5>1. i + 1 \in DOMAIN queue /\ queue[i + 1] = x /\ i + 1 # 1 /\ (i + 1) - 1 = i
          BY <1>3, <4>1
        <5> QED BY <4>1, <5>1
      <4>2. ASSUME NEW j \in DOMAIN queue, queue[j] = x, j # 1, c = <<"queue", j - 1>>
            PROVE  \E i \in DOMAIN queue' : queue'[i] = x /\ c = <<"queue", i>>
        BY <1>3, <4>2
      <4> QED BY <4>1, <4>2
    <3>2. (main' = "create" /\ pr' = x) <=> queue[1] = x
      BY <1>1, <1>3
    <3>3. \A i : c = <<"queue", i>> \/ c = <<"main", i>> => c[1] \in {"queue", "main"}
      OBVIOUS
    <3>4. \A i : c = <<"thread", i>> \/ c = <<"box", i>> \/ c = <<"dropped", i>>
                   => c[1] \notin {"queue", "main"}
      OBVIOUS
    <3> QED BY <1>1, <3>1, <3>2, <3>3, <3>4 DEF Holds
  <2>3. \A i \in DOMAIN queue : queue[i] = x => Holds(x, <<"queue", i>>)
    BY DEF Holds
  <2>4. \A i, j : <<"queue", i>> = <<"queue", j>> => i = j
    OBVIOUS
  <2>5. \A i : <<"queue", i>>[1] = "queue"
    OBVIOUS
  <2>6. ASSUME life[x.from] = 0, Awaited(x)
        PROVE  \E c : Holds(x, c)'
    <3>1. PICK c : Holds(x, c)
      BY <2>1, <2>6 DEF PlaceOK
    <3>2. c[1] # "main" /\ (c[1] = "queue" => \E i \in DOMAIN queue : queue[i] = x)
      BY <1>1, <3>1 DEF Holds
    <3>3. CASE c[1] = "queue"
      <4>1. PICK i \in DOMAIN queue : queue[i] = x
        BY <3>2, <3>3
      <4> QED BY <2>2, <4>1
    <3>4. CASE c[1] # "queue"
      BY <2>2, <3>1, <3>2, <3>4
    <3> QED BY <3>3, <3>4
  <2>7. ASSUME life[x.from] = 0, NEW c, Holds(x, c)'
        PROVE  \E e : /\ Holds(x, e)
                      /\ \/ e = c /\ c[1] \notin {"queue", "main"}
                         \/ e = <<"queue", 1>> /\ c = <<"main", 0>>
                         \/ \E i \in DOMAIN queue :
                              i # 1 /\ e = <<"queue", i>> /\ c = <<"queue", i - 1>>
    BY <1>3, <2>2, <2>3, <2>7
  <2>8. ASSUME life[x.from] = 0, NEW c, NEW d, Holds(x, c)', Holds(x, d)'
        PROVE  c = d
    <3>1. PICK e : /\ Holds(x, e)
                   /\ \/ e = c /\ c[1] \notin {"queue", "main"}
                      \/ e = <<"queue", 1>> /\ c = <<"main", 0>>
                      \/ \E i \in DOMAIN queue :
                              i # 1 /\ e = <<"queue", i>> /\ c = <<"queue", i - 1>>
      BY <2>7, <2>8
    <3>2. /\ Holds(x, e)
          /\ \/ e = d /\ d[1] \notin {"queue", "main"}
             \/ e = <<"queue", 1>> /\ d = <<"main", 0>>
             \/ \E i \in DOMAIN queue :
                  i # 1 /\ e = <<"queue", i>> /\ d = <<"queue", i - 1>>
      BY <2>1, <2>7, <2>8, <3>1 DEF PlaceOK
    <3>3. CASE e = c /\ c[1] \notin {"queue", "main"}
      BY <2>5, <3>2, <3>3
    <3>4. CASE e = <<"queue", 1>> /\ c = <<"main", 0>>
      BY <2>4, <2>5, <3>2, <3>4
    <3>5. CASE \E i \in DOMAIN queue : i # 1 /\ e = <<"queue", i>> /\ c = <<"queue", i - 1>>
      BY <2>4, <2>5, <3>2, <3>5
    <3> QED BY <3>1, <3>3, <3>4, <3>5
  <2> QED BY <1>1, <2>1, <2>6, <2>7, <2>8 DEF PlaceOK
<1> QED
  BY <1>1, <1>4, ClientsWait DEF PlacesInv

LEMMA CreateKeepsPlaces ==
  ASSUME HandoffInv, PlacesInv, NEW t \in Thread, PthreadCreate(t)
  PROVE  PlacesInv'
<1>1. /\ main = "create" /\ main' = "lock" /\ th[t] = "none"
      /\ th' = [th EXCEPT ![t] = "start"] /\ given' = [given EXCEPT ![t] = pr]
      /\ UNCHANGED <<queue, pr, cl, call, box, got, life, dropped>>
  BY DEF PthreadCreate, clientVars
<1>2. /\ th'[t] = "start" /\ given'[t] = pr
      /\ \A u \in Thread \ {t} : th'[u] = th[u] /\ given'[u] = given[u]
  BY <1>1 DEF HandoffInv, MqTypeOK
<1>3. ASSUME NEW x \in Message PROVE PlaceOK(x)'
  <2>1. PlaceOK(x) /\ (Awaited(x)' <=> Awaited(x))
    BY <1>1, ClientsWait DEF PlacesInv
  <2>2. \A c : Holds(x, c)' <=> \/ c # <<"main", 0>> /\ Holds(x, c)
                                \/ pr = x /\ c = <<"thread", t>>
    BY <1>1, <1>2 DEF Holds
  <2>3. pr = x <=> Holds(x, <<"main", 0>>)
    BY <1>1 DEF Holds
  <2>4. CASE pr = x
    <3>1. life[x.from] = 0 => Awaited(x) /\ \A c : Holds(x, c)' <=> c = <<"thread", t>>
      BY <2>1, <2>2, <2>3, <2>4 DEF PlaceOK
    <3> QED BY <1>1, <2>1, <3>1 DEF PlaceOK
  <2>5. CASE pr # x
    <3>1. \A c : Holds(x, c)' <=> Holds(x, c)
      BY <2>2, <2>3, <2>5
    <3> QED BY <1>1, <2>1, <3>1, Unmoved
  <2> QED BY <2>4, <2>5
<1> QED
  BY <1>1, <1>3, ClientsWait DEF PlacesInv

\* The request that main drops is one that its sender waits for.
LEMMA CreateFailsKeepsPlaces ==
  ASSUME HandoffInv, PlacesInv, PthreadCreateFails
  PROVE  PlacesInv'
<1>1. /\ main = "create" /\ main' = "receive"
      /\ dropped' = IF Awaited(pr) THEN dropped \cup {pr} ELSE dropped
      /\ UNCHANGED <<queue, pr, th, given, cl, call, box, got, life>>
  BY DEF PthreadCreateFails, threadVars, clientVars, Awaited
<1>2. ASSUME NEW x \in Message PROVE PlaceOK(x)'
  <2>1. PlaceOK(x) /\ (Awaited(x)' <=> Awaited(x))
    BY <1>1, ClientsWait DEF PlacesInv
  <2>2. pr = x <=> Holds(x, <<"main", 0>>)
    BY <1>1 DEF Holds
  <2>3. \A c : Holds(x, c)' <=> \/ c # <<"main", 0>> /\ Holds(x, c)
                                \/ pr = x /\ Awaited(x) /\ c = <<"dropped", 0>>
    BY <1>1 DEF Holds
  <2>4. CASE pr = x
    <3>1. life[x.from] = 0 => Awaited(x) /\ \A c : Holds(x, c)' <=> c = <<"dropped", 0>>
      BY <2>1, <2>2, <2>3, <2>4 DEF PlaceOK
    <3> QED BY <1>1, <2>1, <3>1 DEF PlaceOK
  <2>5. CASE pr # x
    <3>1. \A c : Holds(x, c)' <=> Holds(x, c)
      BY <2>2, <2>3, <2>5
    <3> QED BY <1>1, <2>1, <3>1, Unmoved
  <2> QED BY <2>4, <2>5
<1> QED
  BY <1>1, <1>2, ClientsWait DEF PlacesInv

\* Who waits for the reply has a queue for it.
LEMMA ReplyKeepsPlaces ==
  ASSUME HandoffInv, PlacesInv, NEW t \in Thread, Reply(t)
  PROVE  PlacesInv'
<1> DEFINE r == local[t]
           p == r.from
<1>1. /\ th[t] = "reply" /\ th' = [th EXCEPT ![t] = "none"]
      /\ given' = [given EXCEPT ![t] = NoMessage]
      /\ UNCHANGED <<queue, pr, main, cl, call, got, life, dropped>>
      /\ \/ box[p] = NoBox /\ UNCHANGED box
         \/ /\ box[p] # NoBox /\ Len(box[p]) < QueueMax
            /\ box' = [box EXCEPT ![p] = Append(box[p], r)]
  BY DEF Reply, mainVars
<1>2. r \in Message /\ given[t] = r /\ p \in Pid
  BY <1>1 DEF HandoffInv, Assigned, CopiesAreExact, Copied, Message
<1>3. /\ th'[t] = "none"
      /\ \A u \in Thread \ {t} : th'[u] = th[u] /\ given'[u] = given[u]
  BY <1>1 DEF HandoffInv, MqTypeOK
<1>4. box \in [Pid -> Boxes \cup {NoBox}]
  BY DEF HandoffInv, MqTypeOK
<1> HIDE DEF r, p
<1>5. \A q \in Pid \ {p} : box'[q] = box[q]
  BY <1>1, <1>2, <1>4
<1>6. ASSUME box[p] # NoBox
      PROVE  /\ box'[p] # NoBox /\ Len(box[p]) \in Nat
             /\ DOMAIN box[p] = 1..Len(box[p]) /\ DOMAIN box'[p] = 1..(Len(box[p]) + 1)
             /\ box'[p][Len(box[p]) + 1] = r
             /\ \A i \in DOMAIN box[p] : box'[p][i] = box[p][i]
  <2>1. box[p] \in Boxes /\ Len(box[p]) < QueueMax /\ box'[p] = Append(box[p], r)
    BY <1>1, <1>2, <1>4, <1>6
  <2>2. box[p] \in Seq(Message) /\ Append(box[p], r) \in Boxes
    BY <1>2, <2>1, ServidorMqAssumption DEF Boxes
  <2> QED BY <1>2, <2>1, <2>2, NoBoxIsNone
<1>7. ASSUME NEW q \in Pid PROVE BoxOK(q)'
  <2>1. BoxOK(q) /\ Request(q)' = Request(q)
    BY <1>1 DEF PlacesInv, Request
  <2>2. CASE q = p /\ box[p] # NoBox
    <3>1. \A i \in DOMAIN box'[p] : i \in DOMAIN box[p] \/ i = Len(box[p]) + 1
      BY <1>6, <2>2
    <3>2. r.from = p
      BY DEF p
    <3> QED BY <1>1, <1>6, <2>1, <2>2, <3>1, <3>2 DEF BoxOK
  <2>3. CASE q # p \/ box[p] = NoBox
    <3>1. box'[q] = box[q]
      BY <1>1, <1>5, <2>3
    <3> QED BY <1>1, <2>1, <3>1 DEF BoxOK
  <2> QED BY <2>2, <2>3
<1>8. ASSUME NEW x \in Message PROVE PlaceOK(x)'
  <2>1. PlaceOK(x) /\ (Awaited(x)' <=> Awaited(x)) /\ x.from \in Pid
    BY <1>1, ClientsWait DEF PlacesInv, Message
  <2>2. CASE x = r
    <3>1. Holds(x, <<"thread", t>>)
      BY <1>1, <1>2, <2>2 DEF Holds
    <3>2. life[p] = 0 => box[p] # NoBox
      <4>1. life[p] = 0 => Awaited(x)
        BY <2>1, <2>2, <3>1 DEF PlaceOK, p
      <4>2. BoxOK(p)
        BY <1>2 DEF PlacesInv
      <4> QED BY <2>2, <4>1, <4>2 DEF Awaited, BoxOK, p
    <3>3. ASSUME box[p] # NoBox
          PROVE  \A c : Holds(x, c)' <=> \/ c # <<"thread", t>> /\ Holds(x, c)
                                         \/ c = <<"box", Len(box[p]) + 1>>
      <4>1. x.from = p
        BY <2>2 DEF p
      <4>2. \A i : i \in DOMAIN box'[p] <=> i \in DOMAIN box[p] \/ i = Len(box[p]) + 1
        BY <1>6, <3>3
      <4>3. \A c : (\E i \in DOMAIN box'[p] : box'[p][i] = x /\ c = <<"box", i>>)
                     <=> \/ \E i \in DOMAIN box[p] : box[p][i] = x /\ c = <<"box", i>>
                         \/ c = <<"box", Len(box[p]) + 1>>
        BY <1>6, <2>2, <3>3, <4>2
      <4>4. \A c : (\E u \in Thread : th'[u] # "none" /\ given'[u] = x /\ c = <<"thread", u>>)
                     <=> /\ \E u \in Thread : th[u] # "none" /\ given[u] = x /\ c = <<"thread", u>>
                         /\ c # <<"thread", t>>
        BY <1>3
      <4> QED BY <1>1, <4>1, <4>3, <4>4 DEF Holds
    <3>4. x.from = p
      BY <2>2 DEF p
    <3>5. ASSUME life[p] = 0
          PROVE  \A c : Holds(x, c)' <=> c = <<"box", Len(box[p]) + 1>>
      <4>1. \A c : Holds(x, c) => c = <<"thread", t>>
        BY <2>1, <3>1, <3>4, <3>5 DEF PlaceOK
      <4> QED BY <3>2, <3>3, <3>5, <4>1
    <3> QED BY <1>1, <2>1, <3>1, <3>4, <3>5 DEF PlaceOK
  <2>3. CASE x # r
    <3>1. \A c : (\E i \in DOMAIN box'[x.from] : box'[x.from][i] = x /\ c = <<"box", i>>)
                   <=> \E i \in DOMAIN box[x.from] : box[x.from][i] = x /\ c = <<"box", i>>
      <4>1. CASE box'[x.from] = box[x.from]
        BY <4>1
      <4>2. CASE x.from = p /\ box[p] # NoBox
        <5>1. \A i : i \in DOMAIN box'[p] <=> i \in DOMAIN box[p] \/ i = Len(box[p]) + 1
          BY <1>6, <4>2
        <5> QED BY <1>6, <2>3, <4>2, <5>1
      <4> QED BY <1>1, <1>5, <2>1, <4>1, <4>2
    <3>2. \A c : (\E u \in Thread : th'[u] # "none" /\ given'[u] = x /\ c = <<"thread", u>>)
                   <=> \E u \in Thread : th[u] # "none" /\ given[u] = x /\ c = <<"thread", u>>
      BY <1>2, <1>3, <2>3
    <3>3. \A c : Holds(x, c)' <=> Holds(x, c)
      BY <1>1, <3>1, <3>2 DEF Holds
    <3> QED BY <1>1, <2>1, <3>3, Unmoved
  <2> QED BY <2>2, <2>3
<1> QED
  BY <1>7, <1>8 DEF PlacesInv

\* A request that was in main or in a thread is dropped; the others wait in the
\* queue, which outlives the server.
LEMMA RestartKeepsPlaces ==
  ASSUME HandoffInv, PlacesInv, ServerRestarts
  PROVE  PlacesInv'
<1>1. /\ main' = "receive" /\ (\A u \in Thread : th'[u] = "none")
      /\ dropped' = dropped \cup {m \in InHand : Awaited(m)}
      /\ UNCHANGED <<queue, cl, call, box, got, life>>
  BY DEF ServerRestarts, clientVars, Awaited
<1>2. ASSUME NEW x \in Message PROVE PlaceOK(x)'
  <2>1. PlaceOK(x) /\ (Awaited(x)' <=> Awaited(x))
    BY <1>1, ClientsWait DEF PlacesInv
  <2>2. x \in InHand <=> \/ Holds(x, <<"main", 0>>)
                         \/ \E t \in Thread : Holds(x, <<"thread", t>>)
    <3>1. x \in InHand <=> \/ main = "create" /\ pr = x
                           \/ \E t \in Thread : th[t] # "none" /\ given[t] = x
      BY DEF InHand
    <3>2. Holds(x, <<"main", 0>>) <=> main = "create" /\ pr = x
      BY DEF Holds
    <3>3. \A t \in Thread : Holds(x, <<"thread", t>>) <=> th[t] # "none" /\ given[t] = x
      BY DEF Holds
    <3> QED BY <3>1, <3>2, <3>3
  <2>3. \A c : Holds(x, c) /\ c[1] \in {"main", "thread"} =>
                 \/ c = <<"main", 0>>
                 \/ \E t \in Thread : c = <<"thread", t>>
    BY DEF Holds
  <2>4. \A c : Holds(x, c)' <=> \/ c[1] \notin {"main", "thread"} /\ Holds(x, c)
                                \/ x \in InHand /\ Awaited(x) /\ c = <<"dropped", 0>>
    <3> SUFFICES ASSUME NEW c
                 PROVE  Holds(x, c)' <=> \/ c[1] \notin {"main", "thread"} /\ Holds(x, c)
                                         \/ x \in InHand /\ Awaited(x) /\ c = <<"dropped", 0>>
      OBVIOUS
    <3>1. \A i : c = <<"main", i>> \/ c = <<"thread", i>> => c[1] \in {"main", "thread"}
      OBVIOUS
    <3>2. \A i : c = <<"queue", i>> \/ c = <<"box", i>> \/ c = <<"dropped", i>>
                   => c[1] \notin {"main", "thread"}
      OBVIOUS
    <3>3. main' # "create"
      BY <1>1
    <3> QED BY <1>1, <3>1, <3>2, <3>3 DEF Holds
  <2>5. \A i : <<"main", i>>[1] = "main" /\ <<"thread", i>>[1] = "thread"
    OBVIOUS
  <2>6. life[x.from] = 0 => (Awaited(x) <=> \E c : Holds(x, c)')
    <3>1. ASSUME life[x.from] = 0, Awaited(x) PROVE \E c : Holds(x, c)'
      <4>1. PICK c : Holds(x, c)
        BY <2>1, <3>1 DEF PlaceOK
      <4>2. CASE c[1] \in {"main", "thread"}
        <5>1. x \in InHand
          BY <2>2, <2>3, <4>1, <4>2
        <5> QED BY <2>4, <3>1, <5>1
      <4>3. CASE c[1] \notin {"main", "thread"}
        BY <2>4, <4>1, <4>3
      <4> QED BY <4>2, <4>3
    <3>2. ASSUME life[x.from] = 0, NEW c, Holds(x, c)' PROVE Awaited(x)
      BY <2>1, <2>4, <3>2 DEF PlaceOK
    <3> QED BY <3>1, <3>2
  <2>7. ASSUME life[x.from] = 0, NEW c, NEW d, Holds(x, c)', Holds(x, d)'
        PROVE  c = d
    <3>1. CASE x \in InHand
      <4>1. PICK e : Holds(x, e) /\ e[1] \in {"main", "thread"}
        BY <2>2, <2>5, <3>1
      <4>2. \A f : Holds(x, f) => f[1] \in {"main", "thread"}
        BY <2>1, <2>7, <4>1 DEF PlaceOK
      <4> QED BY <2>4, <2>7, <4>2
    <3>2. CASE x \notin InHand
      <4>1. Holds(x, c) /\ Holds(x, d)
        BY <2>4, <2>7, <3>2
      <4> QED BY <2>1, <2>7, <4>1 DEF PlaceOK
    <3> QED BY <3>1, <3>2
  <2> QED BY <1>1, <2>1, <2>6, <2>7 DEF PlaceOK
<1> QED
  BY <1>1, <1>2, ClientsWait DEF PlacesInv

-----------------------------------------------------------------------------
LEMMA PlacesInit == MqInit => PlacesInv
<1> SUFFICES ASSUME MqInit PROVE PlacesInv
  OBVIOUS
<1>1. ASSUME NEW x \in Message PROVE PlaceOK(x)
  <2>1. ~Awaited(x)
    BY DEF MqInit, Awaited, Message
  <2>2. \A c : ~Holds(x, c)
    BY NoBoxIsNone DEF MqInit, Holds, Message
  <2> QED BY <2>1, <2>2 DEF PlaceOK
<1>2. ASSUME NEW p \in Pid PROVE BoxOK(p)
  BY DEF MqInit, BoxOK
<1> QED
  BY <1>1, <1>2 DEF PlacesInv

LEMMA PlacesNext ==
  HandoffInv /\ PlacesInv /\ [MqNext]_mqVars => PlacesInv'
<1> SUFFICES ASSUME HandoffInv, PlacesInv, [MqNext]_mqVars PROVE PlacesInv'
  OBVIOUS
<1>1. ASSUME NEW p \in Pid, ClientStep(p) PROVE PlacesInv'
  BY <1>1, OpensKeepsPlaces, SendsKeepsPlaces, SendFailsKeepsPlaces, ReceivesKeepsPlaces,
     DiesKeepsPlaces
     DEF ClientStep
<1>2. CASE MainStep
  <2>1. CASE MainLocks \/ MainWaits \/ SpuriousWakeup \/ MainGoesOn
    <3>1. /\ UNCHANGED <<queue, pr, th, given, cl, call, box, got, life, dropped>>
          /\ main # "create" /\ main' # "create"
      BY <2>1 DEF MainLocks, MainWaits, SpuriousWakeup, MainGoesOn, threadVars, clientVars
    <3> QED BY <3>1, NothingMoves
  <2> QED
    BY <1>2, <2>1, ReceiveKeepsPlaces, CreateKeepsPlaces, CreateFailsKeepsPlaces DEF MainStep
<1>3. ASSUME NEW t \in Thread, ThreadStep(t) PROVE PlacesInv'
  <2>1. CASE ThreadLocks(t) \/ ThreadCopies(t) \/ ThreadSignals(t) \/ Execute(t)
    <3>1. /\ UNCHANGED <<queue, pr, given, cl, call, box, got, life, dropped>>
          /\ main' = "create" <=> main = "create"
          /\ th[t] # "none" /\ \E l \in {"copy", "signal", "execute", "reply"} :
                                  th' = [th EXCEPT ![t] = l]
      BY <2>1 DEF ThreadLocks, ThreadCopies, ThreadSignals, Execute, mainVars, clientVars
    <3>2. \A u \in Thread : th'[u] # "none" <=> th[u] # "none"
      BY <3>1 DEF HandoffInv, MqTypeOK
    <3> QED BY <3>1, <3>2, NothingMoves
  <2> QED
    BY <1>3, <2>1, ReplyKeepsPlaces DEF ThreadStep
<1>4. CASE ServerRestarts
  BY <1>4, RestartKeepsPlaces
<1>5. CASE UNCHANGED mqVars
  BY <1>5, NothingMoves DEF mqVars
<1> QED
  BY <1>1, <1>2, <1>3, <1>4, <1>5 DEF MqNext

LEMMA PlacesInvariant == MqSpec => [](HandoffInv /\ PlacesInv)
BY HandoffInvariant, PlacesInit, PlacesNext, PTL DEF MqSpec

\* A request is executed once and answered once: it is in one place from mq_send
\* until the reply to it is received and nowhere at any other time, although main
\* has one variable for all requests and may be started again at any point.
THEOREM RequestsAreInOnePlace == MqSpec => []OnePlace
<1>1. HandoffInv /\ PlacesInv => OnePlace
  <2> SUFFICES ASSUME HandoffInv, PlacesInv, NEW x \in Message, life[x.from] = 0
               PROVE  Cardinality(Carriers(x)) = IF Awaited(x) THEN 1 ELSE 0
    BY DEF OnePlace, Awaited
  <2>1. PlaceOK(x) /\ (\A c : c \in Carriers(x) <=> Holds(x, c))
    BY CarriersAreHolders DEF PlacesInv
  <2>2. CASE Awaited(x)
    <3>1. PICK c : Holds(x, c)
      BY <2>1, <2>2 DEF PlaceOK
    <3>2. Carriers(x) = {c}
      BY <2>1, <3>1 DEF PlaceOK
    <3> QED BY <2>2, <3>2, FS_Singleton
  <2>3. CASE ~Awaited(x)
    <3>1. Carriers(x) = {}
      BY <2>1, <2>3 DEF PlaceOK
    <3> QED BY <2>3, <3>1, FS_EmptySet
  <2> QED BY <2>2, <2>3
<1> QED
  BY PlacesInvariant, <1>1, PTL

\* proxy-mq.c: a process that received its pid from no killed client gets the
\* reply to its own last request, with any number of clients and of restarts.
THEOREM RepliesAreOwn == MqSpec => []RepliesAreOwnWithoutReuse
<1>1. PlacesInv => RepliesAreOwnWithoutReuse
  BY DEF PlacesInv, BoxOK, RepliesAreOwnWithoutReuse
<1> QED
  BY PlacesInvariant, <1>1, PTL
=============================================================================
