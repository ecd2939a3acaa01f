------------------------- MODULE ServidorSock_proofs -------------------------
(***************************************************************************)
(* For any number of connections, any backlog and any length of V_value2:  *)
(* the invariant of the accept loop; the TCP calls of                      *)
(* ejercicio_evaluable_2 use that loop as specified, and what arrives      *)
(* whole is run as it was asked and answered as it was run.                *)
(***************************************************************************)
EXTENDS ServidorSock, TLAPS

-----------------------------------------------------------------------------
(* The accept loop of both servers, AcceptLoop, by itself.                 *)

USE AcceptLoopAssumption DEF AcceptLoopAssumption

\* Before the first connection main is in accept and the flag is down.
LEMMA InitEstablishes == LoopInit => AcceptInv
<1> SUFFICES ASSUME LoopInit PROVE AcceptInv
  OBVIOUS
<1>1. backlog \in Backlogs /\ DOMAIN backlog = {}
  BY DEF LoopInit, Backlogs
<1>2. LoopTypeOK
  BY <1>1 DEF LoopInit, LoopTypeOK, Stage
<1>3. HolderInv
  BY DEF LoopInit, HolderInv
<1>4. FlagInv /\ NoHang
  BY DEF LoopInit, FlagInv, NoHang, Hung, Busy, Uncopied, AtMostOne
<1>5. PlaceInv
  BY <1>1 DEF LoopInit, PlaceInv
<1> QED BY <1>2, <1>3, <1>4, <1>5 DEF AcceptInv

\* Each step of main leaves mutex, flag and threads in agreement.
LEMMA MainStepPreserves == AcceptInv /\ MainStep => AcceptInv'
<1> SUFFICES ASSUME AcceptInv, MainStep PROVE AcceptInv'
  OBVIOUS
<1> USE DEF AcceptInv, LoopTypeOK, Backlogs, Stage, HolderInv, FlagInv, NoHang, Hung, Busy,
            Uncopied, AtMostOne, AtMostTwo
<1>1. CASE Accept
  <2>1. Head(backlog) \in Conn /\ backlog[1] = Head(backlog) /\ Len(backlog) > 0
    BY <1>1 DEF Accept
  <2>2. backlog' \in Backlogs /\ Len(backlog') = Len(backlog) - 1
        /\ \A i \in DOMAIN backlog' : backlog'[i] = backlog[i + 1]
    BY <1>1, <2>1 DEF Accept
  <2>3. st[Head(backlog)] = "pending"
    BY <2>1 DEF PlaceInv
  <2>4. PlaceInv'
    <3> USE <1>1 DEF Accept, PlaceInv
    <3>1. \A i, j \in DOMAIN backlog' : backlog'[i] = backlog'[j] => i = j
      BY <2>1, <2>2
    <3>2. \A c \in Conn : (\E i \in DOMAIN backlog' : backlog'[i] = c)
                            <=> c # Head(backlog) /\ \E i \in DOMAIN backlog : backlog[i] = c
      <4> TAKE c \in Conn
      <4>1. ASSUME NEW i \in DOMAIN backlog', backlog'[i] = c
            PROVE  c # Head(backlog) /\ \E j \in DOMAIN backlog : backlog[j] = c
        <5>1. i + 1 \in DOMAIN backlog /\ backlog[i + 1] = c /\ i + 1 # 1 /\ 1 \in DOMAIN backlog
          BY <4>1, <2>1, <2>2
        <5> QED BY <5>1, <2>1
      <4>2. ASSUME c # Head(backlog), NEW j \in DOMAIN backlog, backlog[j] = c
            PROVE  \E i \in DOMAIN backlog' : backlog'[i] = c
        <5>1. j # 1 /\ j \in Nat /\ j <= Len(backlog)
          BY <4>2, <2>1
        <5>2. j - 1 \in DOMAIN backlog' /\ backlog'[j - 1] = backlog[(j - 1) + 1]
          BY <5>1, <4>2, <2>1, <2>2
        <5> QED BY <5>1, <5>2, <4>2
      <4> QED BY <4>1, <4>2
    <3> QED BY <2>1, <2>2, <2>3, <3>1, <3>2
  <2> QED BY <1>1, <2>1, <2>2, <2>3, <2>4 DEF Accept
<1>2. ASSUME NEW c \in Conn, MallocFails(c) PROVE AcceptInv'
  BY <1>2 DEF MallocFails, PlaceInv
<1>3. ASSUME NEW c \in Conn, PthreadCreate(c) PROVE AcceptInv'
  <2>1. main = "create"
    BY <1>3 DEF PthreadCreate, PlaceInv
  <2>2. PlaceInv'
    BY <1>3, <2>1 DEF PthreadCreate, PlaceInv
  <2>3. c \in Uncopied' /\ main' # "waiting"
    BY <1>3 DEF PthreadCreate
  <2>4. NoHang'
    BY <2>3
  <2>5. LoopTypeOK' /\ HolderInv'
    BY <1>3, <2>1 DEF PthreadCreate
  <2>6. FlagInv'
    <3>1. \A d \in Conn : d \in Uncopied' <=> d \in Uncopied \/ d = c
      BY <1>3 DEF PthreadCreate
    <3>2. ocupado' = ocupado /\ AtMostOne(Uncopied) /\ (~ocupado => Uncopied = {}) /\ Busy'
      BY <1>3, <2>1 DEF PthreadCreate
    <3> QED BY <3>1, <3>2
  <2> QED BY <2>2, <2>4, <2>5, <2>6
<1>4. ASSUME NEW c \in Conn, PthreadCreateFails(c) PROVE AcceptInv'
  <2>1. main = "create"
    BY <1>4 DEF PthreadCreateFails, PlaceInv
  <2>2. PlaceInv'
    BY <1>4, <2>1 DEF PthreadCreateFails, PlaceInv
  <2> QED BY <1>4, <2>1, <2>2 DEF PthreadCreateFails
<1>5. CASE MainLocks
  BY <1>5 DEF MainLocks, PlaceInv
<1>6. CASE MainWaits
  BY <1>6 DEF MainWaits, PlaceInv
<1>7. CASE SpuriousWakeup
  BY <1>7 DEF SpuriousWakeup, PlaceInv
<1>8. CASE MainGoesOn
  BY <1>8 DEF MainGoesOn, PlaceInv
<1> QED BY <1>1, <1>2, <1>3, <1>4, <1>5, <1>6, <1>7, <1>8 DEF MainStep

\* A thread that lowers the flag is no longer one of those that have to.
LEMMA HandoffStepPreserves ==
  ASSUME AcceptInv, NEW c \in Conn, HandoffStep(c)
  PROVE  AcceptInv'
<1> USE DEF AcceptInv, LoopTypeOK, Backlogs, Stage, HolderInv, FlagInv, NoHang, Hung, Busy,
            Uncopied, AtMostOne, AtMostTwo
<1>1. CASE ThreadLocks(c)
  BY <1>1 DEF ThreadLocks, mainVars, PlaceInv
<1>2. CASE ThreadCopies(c)
  <2>1. /\ st[c] = "copy" /\ mutex = c /\ main # "test"
        /\ mutex' = Nobody /\ main' # "test"
        /\ \A d \in Conn : st'[d] = IF d = c THEN "serve" ELSE st[d]
    BY <1>2 DEF ThreadCopies
  <2>2. LoopTypeOK'
    BY <1>2 DEF ThreadCopies
  <2>3. HolderInv'
    BY <2>1
  <2>4. FlagInv'
    BY <1>2 DEF ThreadCopies
  <2>5. NoHang'
    BY <1>2 DEF ThreadCopies
  <2>6. PlaceInv'
    <3>1. /\ backlog' = backlog
          /\ \A d \in Conn : st'[d] = IF d = c THEN "serve" ELSE st[d]
          /\ main' = "create" <=> main = "create"
      BY <1>2 DEF ThreadCopies
    <3>2. st[c] = "copy"
      BY <1>2 DEF ThreadCopies
    <3> QED BY <3>1, <3>2 DEF PlaceInv
  <2> QED BY <2>2, <2>3, <2>4, <2>5, <2>6
<1> QED BY <1>1, <1>2 DEF HandoffStep

\* Connections come and go without touching the handoff.
LEMMA ConnStepPreserves ==
  ASSUME AcceptInv, NEW c \in Conn, Arrives(c) \/ Finishes(c)
  PROVE  AcceptInv'
<1> USE DEF AcceptInv, LoopTypeOK, Backlogs, Stage, HolderInv, FlagInv, NoHang, Hung, Busy,
            Uncopied, AtMostOne, AtMostTwo
<1>1. CASE Arrives(c)
  <2>1. backlog' \in Backlogs /\ Len(backlog') = Len(backlog) + 1
        /\ backlog'[Len(backlog) + 1] = c
        /\ \A i \in DOMAIN backlog : backlog'[i] = backlog[i]
    BY <1>1 DEF Arrives
  <2>2. \A i \in DOMAIN backlog : backlog[i] # c
    BY <1>1 DEF Arrives, PlaceInv
  <2>3. DOMAIN backlog' = DOMAIN backlog \cup {Len(backlog) + 1}
    BY <2>1
  <2>4. PlaceInv'
    BY <1>1, <2>1, <2>2, <2>3 DEF Arrives, PlaceInv
  <2> QED BY <1>1, <2>1, <2>4 DEF Arrives
<1>2. CASE Finishes(c)
  BY <1>2 DEF Finishes, mainVars, PlaceInv
<1> QED BY <1>1, <1>2

\* With the process all its connections end.
LEMMA StopServerPreserves == AcceptInv /\ StopServer => AcceptInv'
  BY DEF StopServer, AcceptInv, LoopTypeOK, Backlogs, Stage, HolderInv, FlagInv, NoHang, Hung,
         PlaceInv, Busy, Uncopied, AtMostOne, AtMostTwo

\* servidor-sock.c, 236-250, and server.c, 376-391: however main and the
\* threads meet at socket_ocupado, the flag that main waits for is one that a
\* thread is about to lower, unless the thread of this very connection could not
\* be created while the flag was up; and each connection has one place.
THEOREM AcceptLoopIsSound == LoopSpec => []AcceptInv
<1>1. LoopInit => AcceptInv
  BY InitEstablishes
<1>2. AcceptInv /\ [LoopNext]_loopVars => AcceptInv'
  <2> SUFFICES ASSUME AcceptInv, [LoopNext]_loopVars PROVE AcceptInv'
    OBVIOUS
  <2>1. CASE LoopNext
    BY <2>1, MainStepPreserves, HandoffStepPreserves, ConnStepPreserves, StopServerPreserves
       DEF LoopNext
  <2>2. CASE UNCHANGED loopVars
    BY <2>2 DEF loopVars, AcceptInv, LoopTypeOK, HolderInv, FlagInv, NoHang, Hung, PlaceInv, Busy,
                Uncopied
  <2> QED BY <2>1, <2>2
<1> QED BY <1>1, <1>2, PTL DEF LoopSpec

-----------------------------------------------------------------------------
(* The calls use it as it is specified.                                    *)

HIDE AcceptLoopAssumption DEF AcceptLoopAssumption

LEMMA InitImplements == SockInit => LoopInit
  BY DEF SockInit

\* A step of a call is one of the loop, or leaves the loop alone.
LEMMA StepImplements == [SockNext]_sockVars => [LoopNext]_loopVars
<1> SUFFICES ASSUME [SockNext]_sockVars PROVE [LoopNext]_loopVars
  OBVIOUS
<1>1. CASE LoopStep
  BY <1>1 DEF LoopStep, LoopNext
<1>2. CASE ServerDies
  BY <1>2 DEF ServerDies, LoopNext
<1>3. ASSUME NEW c \in Conn, CallStep(c) PROVE [LoopNext]_loopVars
  <2>1. CASE Connect(c)
    BY <2>1 DEF Connect, LoopNext
  <2>2. CASE SendReply(c)
    BY <2>2 DEF SendReply, LoopNext
  <2>3. CASE ConnectFails(c) \/ ClientSends(c) \/ ClientDies(c) \/ ClientBreaks(c)
             \/ ClientReads(c) \/ ClientOverruns(c) \/ Serve(c) \/ ServeOverruns(c)
    BY <2>3 DEF ConnectFails, ClientSends, ClientDies, ClientBreaks, ClientReads, ClientOverruns,
                Receives, Serve, ServeOverruns, Takes, loopVars
  <2> QED BY <1>3, <2>1, <2>2, <2>3 DEF CallStep
<1>4. CASE UNCHANGED sockVars
  BY <1>4 DEF sockVars, loopVars
<1> QED BY <1>1, <1>2, <1>3, <1>4 DEF SockNext

\* servidor-sock.c, 214-250: whatever the calls do, main and the threads behave
\* as the accept loop on its own.
THEOREM CallsImplementAcceptLoop == SockSpec => LoopSpec
<1>1. SockInit => LoopInit
  BY InitImplements
<1>2. [SockNext]_sockVars => [LoopNext]_loopVars
  BY StepImplements
<1> QED BY <1>1, <1>2, PTL DEF SockSpec, LoopSpec

\* So the handoff of servidor-sock.c is sound.
THEOREM SockAcceptInv == SockSpec => []AcceptInv
  BY CallsImplementAcceptLoop, AcceptLoopIsSound, PTL

-----------------------------------------------------------------------------
(* The lines.                                                              *)

\* readLine, while there is a line, gives that line.
LEMMA ReadLine ==
  ASSUME NEW s \in Seq(Int), NEW n \in 1..Len(s), NEW g
  PROVE  Read(s, n, g) = s[n]
  BY DEF Read

LEMMA ReadType ==
  ASSUME NEW s \in Seq(Int), NEW n \in Nat \ {0}, NEW g \in Int
  PROVE  Read(s, n, g) \in Int
<1>1. CASE s = <<>>
  BY <1>1 DEF Read
<1>2. CASE s # <<>>
  <2>1. Len(s) \in Nat \ {0} /\ \A i \in 1..Len(s) : s[i] \in Int
    BY <1>2
  <2> QED BY <1>2, <2>1 DEF Read
<1> QED BY <1>1, <1>2

LEMMA CountType ==
  ASSUME NEW n \in Int
  PROVE  Count(n) \in Nat /\ (n \in Nat => Count(n) = n) /\ n <= Count(n)
  BY DEF Count

LEMMA ReadValueType ==
  ASSUME NEW s \in Seq(Int), NEW n \in Nat \ {0}, NEW g \in Int
  PROVE  ReadValue(s, n, g) \in AnyValue /\ OneLine(ReadValue(s, n, g))
<1> DEFINE N == Read(s, n + 1, g)
           K == Count(N)
           w == [i \in 1..K |-> Read(s, n + 1 + i, g)]
           q == <<Read(s, n, g)>>
           x == Read(s, n + 2 + K, g)
           y == Read(s, n + 3 + K, g)
<1>1. N \in Int
  BY ReadType
<1>2. K \in Nat
  BY <1>1, CountType
<1>3. ReadValue(s, n, g) = [v1 |-> q, n |-> N, vec |-> w, x |-> x, y |-> y]
  BY DEF ReadValue
<1> HIDE DEF N
<1>4. w \in Seq(Int) /\ Len(w) = K
  <2> HIDE DEF K
  <2>1. \A i \in 1..K : n + 1 + i \in Nat \ {0}
    BY <1>2
  <2>2. \A i \in 1..K : Read(s, n + 1 + i, g) \in Int
    BY <2>1, ReadType
  <2> QED BY <1>2, <2>2
<1>5. x \in Int /\ y \in Int
  <2> HIDE DEF K
  <2>1. n + 2 + K \in Nat \ {0} /\ n + 3 + K \in Nat \ {0}
    BY <1>2
  <2> QED BY <2>1, ReadType
<1>6. q \in Seq(Int) /\ Len(q) = 1 /\ q # <<>>
  <2>1. Read(s, n, g) \in Int
    BY ReadType
  <2> QED BY <2>1
<1> HIDE DEF w, q, x, y
<1> QED BY <1>1, <1>3, <1>4, <1>5, <1>6 DEF AnyValue, OneLine

LEMMA Concat ==
  ASSUME NEW s \in Seq(Int), NEW t \in Seq(Int)
  PROVE  /\ s \o t \in Seq(Int)
         /\ Len(s) \in Nat /\ Len(t) \in Nat
         /\ Len(s \o t) = Len(s) + Len(t)
         /\ \A i \in 1..Len(s) : (s \o t)[i] = s[i]
         /\ \A i \in 1..Len(t) : (s \o t)[Len(s) + i] = t[i]
  OBVIOUS

LEMMA ValueShape ==
  ASSUME NEW v \in AnyValue
  PROVE  /\ v = [v1 |-> v.v1, n |-> v.n, vec |-> v.vec, x |-> v.x, y |-> v.y]
         /\ v.v1 \in Seq(Int) /\ v.n \in Int /\ v.vec \in Seq(Int)
         /\ v.x \in Int /\ v.y \in Int
         /\ Len(v.vec) = Count(v.n) /\ Len(v.vec) \in Nat
<1>1. v \in [v1 : Seq(Int), n : Int, vec : Seq(Int), x : Int, y : Int]
      /\ Len(v.vec) = Count(v.n)
  BY DEF AnyValue
<1> QED BY <1>1

LEMMA ValueLinesType ==
  ASSUME NEW v \in AnyValue
  PROVE  ValueLines(v) \in Seq(Int)
<1>1. <<v.n>> \in Seq(Int) /\ <<v.x, v.y>> \in Seq(Int)
  BY ValueShape
<1>2. v.v1 \o <<v.n>> \in Seq(Int)
  BY <1>1, ValueShape, Concat
<1>3. (v.v1 \o <<v.n>>) \o v.vec \in Seq(Int)
  BY <1>2, ValueShape, Concat
<1>4. ((v.v1 \o <<v.n>>) \o v.vec) \o <<v.x, v.y>> \in Seq(Int)
  BY <1>1, <1>3, Concat
<1> QED BY <1>4 DEF ValueLines

\* Where ValueLines puts what, if value1 is one line.
LEMMA ValueLinesAt ==
  ASSUME NEW v \in AnyValue, OneLine(v)
  PROVE  /\ Len(ValueLines(v)) = Len(v.vec) + 4
         /\ v.v1 = <<ValueLines(v)[1]>> /\ ValueLines(v)[2] = v.n
         /\ \A i \in 1..Len(v.vec) : ValueLines(v)[i + 2] = v.vec[i]
         /\ ValueLines(v)[Len(v.vec) + 3] = v.x /\ ValueLines(v)[Len(v.vec) + 4] = v.y
<1> DEFINE a == v.v1 \o <<v.n>>
           z == <<v.x, v.y>>
<1>1. /\ v.v1 \in Seq(Int) /\ Len(v.v1) = 1 /\ v.n \in Int /\ v.x \in Int /\ v.y \in Int
      /\ v.vec \in Seq(Int) /\ Len(v.vec) \in Nat
  BY ValueShape DEF OneLine
<1>2. a \in Seq(Int) /\ Len(a) = 2 /\ a[1] = v.v1[1] /\ a[2] = v.n
  <2>1. <<v.n>> \in Seq(Int) /\ Len(<<v.n>>) = 1 /\ <<v.n>>[1] = v.n
    BY <1>1
  <2>2. /\ a \in Seq(Int) /\ Len(a) = Len(v.v1) + Len(<<v.n>>)
        /\ \A i \in 1..Len(v.v1) : a[i] = v.v1[i]
        /\ \A i \in 1..Len(<<v.n>>) : a[Len(v.v1) + i] = <<v.n>>[i]
    BY <1>1, <2>1, Concat
  <2>3. 1 \in 1..Len(v.v1) /\ 1 \in 1..Len(<<v.n>>) /\ Len(v.v1) + 1 = 2
    BY <1>1, <2>1
  <2> QED BY <1>1, <2>1, <2>2, <2>3
<1>3. z \in Seq(Int) /\ Len(z) = 2 /\ z[1] = v.x /\ z[2] = v.y
  BY <1>1
<1>4. v.v1 = <<v.v1[1]>>
  BY <1>1
<1>5. ValueLines(v) = (a \o v.vec) \o z
  BY DEF ValueLines
<1> HIDE DEF a, z
<1> DEFINE b == a \o v.vec
<1>6. /\ b \in Seq(Int) /\ Len(b) = Len(v.vec) + 2 /\ b[1] = a[1] /\ b[2] = a[2]
      /\ \A i \in 1..Len(v.vec) : b[i + 2] = v.vec[i]
  <2>1. /\ b \in Seq(Int)
        /\ Len(b) = Len(a) + Len(v.vec)
        /\ \A i \in 1..Len(a) : b[i] = a[i]
        /\ \A i \in 1..Len(v.vec) : b[Len(a) + i] = v.vec[i]
    BY <1>1, <1>2, Concat
  <2>2. \A i \in 1..Len(v.vec) : Len(a) + i = i + 2
    BY <1>1, <1>2
  <2>3. 1 \in 1..Len(a) /\ 2 \in 1..Len(a) /\ Len(a) + Len(v.vec) = Len(v.vec) + 2
    BY <1>1, <1>2
  <2> QED BY <2>1, <2>2, <2>3
<1> HIDE DEF b
<1>7. /\ Len(b \o z) = Len(b) + Len(z)
      /\ \A i \in 1..Len(b) : (b \o z)[i] = b[i]
      /\ \A i \in 1..Len(z) : (b \o z)[Len(b) + i] = z[i]
  BY <1>3, <1>6, Concat
<1>8. ValueLines(v) = b \o z
  BY <1>5 DEF b
<1> HIDE DEF a, z
<1>9. /\ 1 \in 1..Len(b) /\ 2 \in 1..Len(b) /\ 1 \in 1..Len(z) /\ 2 \in 1..Len(z)
      /\ Len(b) + 1 = Len(v.vec) + 3 /\ Len(b) + 2 = Len(v.vec) + 4
      /\ Len(b) + Len(z) = Len(v.vec) + 4
      /\ \A i \in 1..Len(v.vec) : i + 2 \in 1..Len(b)
  BY <1>1, <1>3, <1>6
<1>10. ValueLines(v)[1] = v.v1[1] /\ ValueLines(v)[2] = v.n
  BY <1>2, <1>6, <1>7, <1>8, <1>9
<1>11. \A i \in 1..Len(v.vec) : ValueLines(v)[i + 2] = v.vec[i]
  BY <1>6, <1>7, <1>8, <1>9
<1>12. ValueLines(v)[Len(v.vec) + 3] = v.x /\ ValueLines(v)[Len(v.vec) + 4] = v.y
  BY <1>3, <1>7, <1>8, <1>9
<1> QED BY <1>4, <1>7, <1>8, <1>9, <1>10, <1>11, <1>12

\* What is read from the lines of a value is the value, if value1 is one line.
LEMMA ValueRoundTrip ==
  ASSUME NEW v \in AnyValue, OneLine(v), NEW s \in Seq(Int), NEW k \in Nat, NEW g \in Int,
         k + Len(v.vec) + 4 <= Len(s),
         \A i \in 1..Len(ValueLines(v)) : s[k + i] = ValueLines(v)[i]
  PROVE  ReadValue(s, k + 1, g) = v
<1> DEFINE N == Len(v.vec)
<1>1. N \in Nat /\ Len(s) \in Nat
  BY ValueShape
<1>e. N = Count(v.n)
  BY ValueShape
<1>a. \A i \in 1..(N + 4) : s[k + i] = ValueLines(v)[i]
  BY ValueLinesAt
<1>b. v.v1 = <<ValueLines(v)[1]>> /\ ValueLines(v)[2] = v.n /\ ValueLines(v)[N + 3] = v.x
      /\ ValueLines(v)[N + 4] = v.y /\ \A i \in 1..N : ValueLines(v)[i + 2] = v.vec[i]
  BY ValueLinesAt
<1>c. k + N + 4 <= Len(s)
  OBVIOUS
<1>d. v.vec = [i \in 1..N |-> v.vec[i]]
  <2>1. v.vec \in Seq(Int)
    BY ValueShape
  <2> QED BY <2>1
<1> HIDE DEF N
<1>2. v.v1 = <<s[k + 1]>> /\ s[k + 2] = v.n /\ s[k + N + 3] = v.x /\ s[k + N + 4] = v.y
      /\ \A i \in 1..N : s[k + i + 2] = v.vec[i]
  <2>1. 1 \in 1..(N + 4) /\ 2 \in 1..(N + 4) /\ N + 3 \in 1..(N + 4) /\ N + 4 \in 1..(N + 4)
        /\ k + N + 3 = k + (N + 3) /\ k + N + 4 = k + (N + 4)
    BY <1>1
  <2>2. \A i \in 1..N : i + 2 \in 1..(N + 4) /\ k + i + 2 = k + (i + 2)
    BY <1>1
  <2> QED BY <1>a, <1>b, <2>1, <2>2
<1>3. Read(s, k + 1, g) = s[k + 1] /\ Read(s, k + 2, g) = v.n
      /\ Read(s, k + N + 3, g) = v.x /\ Read(s, k + N + 4, g) = v.y
  <2>1. k + 1 \in 1..Len(s) /\ k + 2 \in 1..Len(s) /\ k + N + 3 \in 1..Len(s)
        /\ k + N + 4 \in 1..Len(s)
    <3>1. k \in Nat /\ N \in Nat /\ Len(s) \in Nat /\ k + N + 4 <= Len(s)
      BY <1>1, <1>c
    <3> HIDE <1>c
    <3> QED BY <3>1, SMTT(30)
  <2> QED BY <2>1, <1>2, ReadLine
<1>4. ASSUME NEW i \in 1..N PROVE Read(s, k + i + 2, g) = v.vec[i]
  <2>1. k + i + 2 \in 1..Len(s)
    BY <1>1, <1>c
  <2> QED BY <2>1, <1>2, ReadLine
<1>5. Read(s, (k + 1) + 1, g) = v.n
  <2>1. (k + 1) + 1 = k + 2
    OBVIOUS
  <2> QED BY <2>1, <1>3
<1>6. [i \in 1..N |-> Read(s, (k + 1) + 1 + i, g)] = v.vec
  <2>1. \A i \in 1..N : (k + 1) + 1 + i = k + i + 2
    BY <1>1
  <2>2. [i \in 1..N |-> Read(s, (k + 1) + 1 + i, g)] = [i \in 1..N |-> v.vec[i]]
    BY <2>1, <1>4
  <2> QED BY <2>2, <1>d
<1>7. (k + 1) + 2 + N = k + N + 3 /\ (k + 1) + 3 + N = k + N + 4
  BY <1>1
<1>8. ReadValue(s, k + 1, g)
        = [v1 |-> v.v1, n |-> v.n, vec |-> v.vec, x |-> v.x, y |-> v.y]
  BY <1>e, <1>2, <1>3, <1>5, <1>6, <1>7 DEF ReadValue
<1> QED BY <1>8, ValueShape

LEMMA OpCodes ==
  ASSUME NEW n \in DOMAIN Op
  PROVE  Code(Op[n]) \in DOMAIN Op /\ Op[Code(Op[n])] = Op[n] /\ Code(Op[n]) \in Int
<1>1. Code(Op[n]) \in DOMAIN Op /\ Op[Code(Op[n])] = Op[n]
  BY DEF Code
<1>2. DOMAIN Op \subseteq Int
  BY DEF Op
<1> QED BY <1>1, <1>2

\* The requests of the clients are of the general type.
LEMMA RequestTypes ==
  /\ ClientValue \subseteq AnyValue
  /\ NoVal \in AnyValue
  /\ Request \subseteq AnyRequest
  /\ NoRequest \in AnyRequest
  /\ NoResult \in AnyResult
  /\ NoRequest \notin Request
<1>1. ClientValue \subseteq AnyValue
  <2> SUFFICES ASSUME NEW t \in Str, NEW w \in Vectors, NEW p \in Points
               PROVE  [v1 |-> t, n |-> Len(w), vec |-> w, x |-> p[1], y |-> p[2]] \in AnyValue
    BY DEF ClientValue
  <2>1. /\ t \in Seq(Int) /\ t # <<>> /\ w \in Seq(Int) /\ p[1] \in Int /\ p[2] \in Int
        /\ Len(w) \in Nat
    BY ServidorSockAssumption DEF ServidorSockAssumption
  <2>2. Count(Len(w)) = Len(w)
    BY <2>1, CountType
  <2> QED BY <2>1, <2>2 DEF AnyValue
<1>2. NoVal \in AnyValue
  <2>1. Count(0) = 0 /\ <<0>> \in Seq(Int) /\ <<0>> # <<>> /\ <<>> \in Seq(Int) /\ Len(<<>>) = 0
    BY DEF Count
  <2> QED BY <2>1 DEF NoVal, AnyValue
<1>3. {"destroy", "get_value", "delete_key", "exist", "set_value", "modify_value"}
        \subseteq {Op[n] : n \in DOMAIN Op}
  BY DEF Op
<1>4. Key \subseteq Int /\ NoKey \in Int
  BY ServidorSockAssumption DEF ServidorSockAssumption, NoKey
<1>5. Request \subseteq AnyRequest
  BY <1>1, <1>2, <1>3, <1>4 DEF Request, AnyRequest, WriteOp
<1>6. NoRequest \in AnyRequest
  BY <1>2, <1>4 DEF NoRequest, AnyRequest
<1>7. NoResult \in AnyResult
  BY <1>2 DEF NoResult, AnyResult
<1>8. NoRequest \notin Request
  BY DEF NoRequest, Request, WriteOp
<1> QED BY <1>1, <1>2, <1>5, <1>6, <1>7, <1>8

\* A request, by the group of its operation.
LEMMA RequestShape ==
  ASSUME NEW r \in Request
  PROVE  /\ \E n \in DOMAIN Op : r.op = Op[n]
         /\ r.op \notin {"unknown", "none"}
         /\ r = [op |-> r.op, key |-> r.key, val |-> r.val]
         /\ r.key \in Int /\ r.val \in AnyValue
         /\ r.op = "destroy" => r.key = NoKey
         /\ r.op \notin WriteOp => r.val = NoVal
         /\ r.val.n <= MaxVec
<1>1. r \in AnyRequest
  BY RequestTypes
<1>2. r = [op |-> r.op, key |-> r.key, val |-> r.val] /\ r.key \in Int /\ r.val \in AnyValue
  BY <1>1 DEF AnyRequest
<1>3. r.op \in {"destroy", "get_value", "delete_key", "exist", "set_value", "modify_value"}
      /\ (r.op = "destroy" => r.key = NoKey) /\ (r.op \notin WriteOp => r.val = NoVal)
  BY DEF Request, WriteOp
<1>4. \E n \in DOMAIN Op : r.op = Op[n]
  BY <1>3 DEF Op
<1>5. r.val.n <= MaxVec
  <2>1. CASE r.val = NoVal
    BY <2>1, ServidorSockAssumption DEF ServidorSockAssumption, NoVal
  <2>2. ASSUME NEW v \in ClientValue PROVE v.n <= MaxVec
    <3>1. PICK t \in Str, w \in Vectors, p \in Points :
            v = [v1 |-> t, n |-> Len(w), vec |-> w, x |-> p[1], y |-> p[2]]
      BY DEF ClientValue
    <3>2. v.n = Len(w)
      BY <3>1
    <3>3. Len(w) \in 1..MaxVec /\ MaxVec \in Nat
      BY ServidorSockAssumption DEF ServidorSockAssumption
    <3> QED BY <3>2, <3>3
  <2>3. r.val = NoVal \/ r.val \in ClientValue
    BY DEF Request
  <2> QED BY <2>1, <2>2, <2>3
<1> QED BY <1>2, <1>3, <1>4, <1>5

LEMMA RequestLinesType ==
  ASSUME NEW r \in Request
  PROVE  RequestLines(r) \in Seq(Int)
<1> DEFINE h == <<Code(r.op)>>
           K == IF r.op = "destroy" THEN <<>> ELSE <<r.key>>
           V == IF r.op \in WriteOp THEN ValueLines(r.val) ELSE <<>>
<1>1. Code(r.op) \in Int
  BY RequestShape, OpCodes
<1>2. h \in Seq(Int) /\ K \in Seq(Int)
  BY <1>1, RequestShape
<1>3. V \in Seq(Int)
  BY RequestShape, ValueLinesType
<1>4. RequestLines(r) = (h \o K) \o V
  BY DEF RequestLines
<1> HIDE DEF h, K, V
<1>5. h \o K \in Seq(Int)
  BY <1>2, Concat
<1> QED BY <1>3, <1>4, <1>5, Concat

\* servidor-sock.c, 52-83, and the six functions of proxy-sock.c: the switch makes
\* of the lines of a request the request, and reads no line more or less.
LEMMA RequestRoundTrip ==
  ASSUME NEW r \in Request, OneLine(r.val), NEW g \in Int
  PROVE  Decoded(RequestLines(r), g) = r /\ Taken(r) = Len(RequestLines(r))
<1> DEFINE h == <<Code(r.op)>>
           K == IF r.op = "destroy" THEN <<>> ELSE <<r.key>>
           V == IF r.op \in WriteOp THEN ValueLines(r.val) ELSE <<>>
           b == h \o K
           l == b \o V
<1>1. Code(r.op) \in DOMAIN Op /\ Op[Code(r.op)] = r.op /\ Code(r.op) \in Int
  BY RequestShape, OpCodes
<1>2. h \in Seq(Int) /\ Len(h) = 1 /\ h[1] = Code(r.op)
  BY <1>1
<1>3. K \in Seq(Int) /\ (r.op # "destroy" => Len(K) = 1 /\ K[1] = r.key)
      /\ (r.op = "destroy" => Len(K) = 0)
  BY RequestShape
<1>4. V \in Seq(Int) /\ (r.op \in WriteOp => Len(V) = Len(r.val.vec) + 4)
      /\ (r.op \notin WriteOp => Len(V) = 0) /\ Len(r.val.vec) \in Nat
  BY RequestShape, ValueLinesType, ValueLinesAt, ValueShape
<1>5. r.op \in WriteOp => r.op # "destroy"
  BY DEF WriteOp
<1>6. l = RequestLines(r)
  BY DEF RequestLines
<1> HIDE DEF h, K, V
<1>7. b \in Seq(Int) /\ Len(b) = 1 + Len(K) /\ b[1] = Code(r.op)
      /\ (r.op # "destroy" => b[2] = r.key)
  <2>1. /\ h \o K \in Seq(Int) /\ Len(h \o K) = Len(h) + Len(K)
        /\ \A i \in 1..Len(h) : (h \o K)[i] = h[i]
        /\ \A i \in 1..Len(K) : (h \o K)[Len(h) + i] = K[i]
    BY <1>2, <1>3, Concat
  <2>2. 1 \in 1..Len(h) /\ (r.op # "destroy" => 1 \in 1..Len(K))
    BY <1>2, <1>3
  <2> QED BY <2>1, <2>2, <1>2, <1>3
<1> HIDE DEF b
<1>8. /\ l \in Seq(Int) /\ Len(l) = Len(b) + Len(V) /\ Len(V) \in Nat /\ Len(b) \in Nat
      /\ \A i \in 1..Len(b) : l[i] = b[i]
      /\ \A i \in 1..Len(V) : l[Len(b) + i] = V[i]
  BY <1>4, <1>7, Concat
<1> HIDE DEF l
<1>9. Len(K) \in Nat
  BY <1>3
<1>10. Read(l, 1, g) = Code(r.op)
  <2>1. 1 \in 1..Len(b) /\ 1 \in 1..Len(l)
    BY <1>7, <1>8, <1>9
  <2> QED BY <2>1, <1>7, <1>8, ReadLine
<1>11. r.op # "destroy" => Read(l, 2, g) = r.key
  <2>1. r.op # "destroy" => 2 \in 1..Len(b) /\ 2 \in 1..Len(l)
    BY <1>3, <1>7, <1>8, <1>9
  <2> QED BY <2>1, <1>7, <1>8, ReadLine
<1>12. ASSUME r.op \in WriteOp PROVE ReadValue(l, 3, g) = r.val
  <2>1. Len(b) = 2 /\ V = ValueLines(r.val) /\ r.val \in AnyValue
    <3>1. Len(b) = 2
      <4>1. r.op # "destroy"
        BY <1>12, <1>5
      <4>2. Len(K) = 1
        BY <4>1, <1>3
      <4>3. Len(b) = 1 + Len(K)
        BY <1>7
      <4> QED BY <4>2, <4>3
    <3>2. V = ValueLines(r.val)
      BY <1>12 DEF V
    <3>3. r.val \in AnyValue
      BY RequestShape
    <3> QED BY <3>1, <3>2, <3>3
  <2>2. Len(r.val.vec) \in Nat
    BY <1>4
  <2>3. 2 + Len(r.val.vec) + 4 <= Len(l)
    BY <1>12, <2>1, <2>2, <1>4, <1>8
  <2>4. \A i \in 1..Len(ValueLines(r.val)) : l[2 + i] = ValueLines(r.val)[i]
    BY <2>1, <1>8
  <2>5. l \in Seq(Int) /\ 2 \in Nat /\ r.val \in AnyValue
    BY <2>1, <1>8
  <2>6. ReadValue(l, 2 + 1, g) = r.val
    BY <2>3, <2>4, <2>5, ValueRoundTrip
  <2>7. 2 + 1 = 3
    OBVIOUS
  <2> QED BY <2>6, <2>7
<1>13. Decoded(l, g) = [op |-> r.op, key |-> r.key, val |-> r.val]
  <2>1. r.op \notin {"unknown", "none"} /\ (r.op = "destroy" => r.key = NoKey)
        /\ (r.op \notin WriteOp => r.val = NoVal)
    BY RequestShape
  <2> QED BY <2>1, <1>1, <1>10, <1>11, <1>12 DEF Decoded
<1>14. Taken(r) = Len(l)
  <2>1. Len(l) = 1 + Len(K) + Len(V)
    BY <1>7, <1>8, <1>9
  <2>2. r.op # "unknown"
    BY RequestShape
  <2>3. CASE r.op = "destroy"
    BY <2>1, <2>3, <1>3, <1>4, <1>5 DEF Taken
  <2>4. CASE r.op \in WriteOp
    <3>1. Taken(r) = 6 + Len(r.val.vec)
      BY <2>2, <2>4, <1>5 DEF Taken, WriteOp
    <3>2. Len(K) = 1 /\ Len(V) = Len(r.val.vec) + 4
      BY <2>4, <1>3, <1>4, <1>5
    <3>3. Len(r.val.vec) \in Nat
      BY <1>4
    <3> QED BY <3>1, <3>2, <3>3, <2>1
  <2>5. CASE r.op # "destroy" /\ r.op \notin WriteOp
    <3>1. Taken(r) = 2
      BY <2>2, <2>5 DEF Taken
    <3>2. Len(K) = 1 /\ Len(V) = 0
      BY <2>5, <1>3, <1>4
    <3> QED BY <3>1, <3>2, <2>1
  <2> QED BY <2>3, <2>4, <2>5
<1> QED BY <1>6, <1>13, <1>14, RequestShape

LEMMA OutcomeTypes ==
  ASSUME NEW r, NEW o \in Outcome(r)
  PROVE  /\ o \in AnyResult
         /\ o.val \in AnyValue /\ o.res \in Int /\ o = [res |-> o.res, val |-> o.val]
         /\ r.op # "get_value" => o.val = NoVal
<1>1. ClientValue \subseteq AnyValue /\ Stray \subseteq AnyValue /\ NoVal \in AnyValue
  BY RequestTypes, ServidorSockAssumption DEF ServidorSockAssumption
<1>2. CASE r.op = "get_value"
  <2>1. o \in [res : {0, -1}, val : ClientValue \cup Stray]
    BY <1>2 DEF Outcome
  <2> QED BY <1>1, <1>2, <2>1 DEF AnyResult
<1>3. CASE r.op # "get_value"
  <2>1. o \in [res : {-1, 0, 1}, val : {NoVal}]
    BY <1>3 DEF Outcome
  <2> QED BY <1>1, <1>3, <2>1 DEF AnyResult
<1> QED BY <1>2, <1>3

LEMMA ReplyLinesType ==
  ASSUME NEW r, NEW o \in AnyResult
  PROVE  ReplyLines(r, o) \in Seq(Int)
<1>1. o.res \in Int /\ o.val \in AnyValue /\ <<o.res>> \in Seq(Int)
  BY DEF AnyResult
<1>2. ValueLines(o.val) \o <<o.res>> \in Seq(Int)
  BY <1>1, ValueLinesType, Concat
<1> QED BY <1>1, <1>2 DEF ReplyLines

\* servidor-sock.c, 93-118, and get_value of proxy-sock.c, 127-150, and the other
\* five: the call returns what the server's function returned.
LEMMA ReplyRoundTrip ==
  ASSUME NEW r \in Request, NEW o \in Outcome(r), OneLine(o.val), NEW g \in Int
  PROVE  ReadReply(r, ReplyLines(r, o), g) = o
<1>1. o.val \in AnyValue /\ o.res \in Int /\ o = [res |-> o.res, val |-> o.val]
      /\ (r.op # "get_value" => o.val = NoVal)
  BY OutcomeTypes
<1>2. r.op # "unknown" /\ r.key \in Int
  BY RequestShape
<1>3. CASE r.op # "get_value"
  <2>1. ReplyLines(r, o) = <<o.res>>
    BY <1>2, <1>3 DEF ReplyLines
  <2> QED BY <2>1, <1>1, <1>3 DEF ReadReply
<1>4. CASE r.op = "get_value"
  <2> DEFINE V == ValueLines(o.val)
             l == V \o <<o.res>>
             N == Len(o.val.vec)
  <2>1. ReplyLines(r, o) = l
    BY <1>4 DEF ReplyLines
  <2>2. V \in Seq(Int) /\ Len(V) = N + 4 /\ N \in Nat
    BY <1>1, ValueLinesType, ValueLinesAt, ValueShape
  <2>3. <<o.res>> \in Seq(Int) /\ Len(<<o.res>>) = 1 /\ 1 \in 1..Len(<<o.res>>)
    BY <1>1
  <2> HIDE DEF V, N
  <2>4. /\ l \in Seq(Int) /\ Len(l) = Len(V) + Len(<<o.res>>)
        /\ \A i \in 1..Len(V) : l[i] = V[i]
        /\ \A i \in 1..Len(<<o.res>>) : l[Len(V) + i] = <<o.res>>[i]
    BY <2>2, <2>3, Concat
  <2>5. l[Len(V) + 1] = o.res
    BY <2>3, <2>4
  <2> HIDE DEF l
  <2>6. Len(l) = 5 + N /\ l[5 + N] = o.res
    BY <2>2, <2>3, <2>4, <2>5
  <2>7. ReadValue(l, 0 + 1, r.key) = o.val
    <3>1. 0 + Len(o.val.vec) + 4 <= Len(l)
      BY <2>2, <2>6 DEF N
    <3>2. \A i \in 1..Len(ValueLines(o.val)) : l[0 + i] = ValueLines(o.val)[i]
      BY <2>2, <2>4 DEF V
    <3>3. l \in Seq(Int) /\ 0 \in Nat
      BY <2>4
    <3> QED BY <1>1, <1>2, <3>1, <3>2, <3>3, ValueRoundTrip
  <2>8. ReadReply(r, l, g) = [res |-> l[5 + N], val |-> o.val]
    <3>1. ReadValue(l, 1, r.key) = o.val
      BY <2>7
    <3>2. 5 + Len(o.val.vec) <= Len(l)
      BY <2>2, <2>6 DEF N
    <3> QED BY <1>4, <3>1, <3>2 DEF ReadReply, N
  <2> QED BY <2>1, <2>6, <2>8, <1>1
<1> QED BY <1>3, <1>4

LEMMA DecodedType ==
  ASSUME NEW s \in Seq(Int), NEW g \in Int
  PROVE  /\ Decoded(s, g) \in AnyRequest
         /\ Decoded(s, g).op \in {Op[n] : n \in DOMAIN Op} \cup {"unknown"}
         /\ Decoded(s, g).op # "none"
<1> DEFINE code == Read(s, 1, g)
           op == IF code \in DOMAIN Op THEN Op[code] ELSE "unknown"
<1>1. op \in {Op[n] : n \in DOMAIN Op} \cup {"unknown"} /\ op # "none"
  BY DEF Op
<1>2. Read(s, 2, g) \in Int /\ ReadValue(s, 3, g) \in AnyValue
  BY ReadType, ReadValueType
<1>3. NoKey \in Int /\ NoVal \in AnyValue
  BY RequestTypes DEF NoKey
<1> DEFINE k == IF op \in {"destroy", "unknown"} THEN NoKey ELSE Read(s, 2, g)
           v == IF op \in WriteOp THEN ReadValue(s, 3, g) ELSE NoVal
<1>4. Decoded(s, g) = [op |-> op, key |-> k, val |-> v]
  BY DEF Decoded
<1>5. k \in Int /\ v \in AnyValue
  BY <1>2, <1>3
<1> HIDE DEF op, k, v
<1> QED BY <1>1, <1>4, <1>5 DEF AnyRequest

LEMMA ReadReplyType ==
  ASSUME NEW r \in Request, NEW s \in Seq(Int), NEW g \in Int
  PROVE  ReadReply(r, s, g) \in AnyResult
<1> DEFINE v == IF r.op = "get_value" THEN ReadValue(s, 1, r.key) ELSE NoVal
           n == IF r.op = "get_value" THEN 5 + Len(v.vec) ELSE 1
           q == IF n <= Len(s) THEN s[n] ELSE g
<1>1. r.key \in Int
  BY RequestShape
<1>2. v \in AnyValue
  BY <1>1, ReadValueType, RequestTypes
<1>3. ReadReply(r, s, g) = [res |-> q, val |-> v]
  BY DEF ReadReply
<1> HIDE DEF v
<1>4. n \in Nat \ {0}
  BY <1>2, ValueShape
<1>5. q \in Int
  BY <1>4
<1> HIDE DEF q
<1> QED BY <1>2, <1>3, <1>5 DEF AnyResult

LEMMA FirstLinesType ==
  ASSUME NEW s \in Seq(Int), NEW t \in FirstLines(s)
  PROVE  t \in Seq(Int)
  BY DEF FirstLines

LEMMA RestType ==
  ASSUME NEW s \in Seq(Int), NEW n \in Nat
  PROVE  /\ SubSeq(s, n + 1, Len(s)) \in Seq(Int)
         /\ n = Len(s) => SubSeq(s, n + 1, Len(s)) = <<>>
  OBVIOUS

LEMMA TakenType ==
  ASSUME NEW r \in AnyRequest
  PROVE  Taken(r) \in Nat
<1>1. r.val \in AnyValue
  BY DEF AnyRequest
<1> QED BY <1>1, ValueShape DEF Taken

-----------------------------------------------------------------------------
(* The invariant of the calls.                                             *)

LEMMA GarbageInt == Garbage \subseteq Int /\ MaxDeaths \in Nat
  BY ServidorSockAssumption DEF ServidorSockAssumption

\* The four parts of the invariant that speak of one connection.
LEMMA SockInvParts ==
  SockInv <=> SockTypeOK /\ \A c \in Conn : StageInv(c) /\ (Heard(c) => RequestInv(c))
                                  /\ (Understood(c) => ReplyInv(c)) /\ OverrunInv(c)
  BY DEF SockInv

LEMMA SockInitEstablishes == SockInit => SockInv
<1> SUFFICES ASSUME SockInit PROVE SockInv
  OBVIOUS
<1>1. NoRequest \in AnyRequest /\ NoResult \in AnyResult /\ <<>> \in Seq(Int)
  BY RequestTypes
<1>2. SockTypeOK
  BY <1>1, GarbageInt DEF SockInit, SockTypeOK
<1>3. \A c \in Conn : StageInv(c) /\ RequestInv(c) /\ ReplyInv(c) /\ OverrunInv(c)
  BY DEF SockInit, LoopInit, StageInv, RequestInv, ReplyInv, OverrunInv
<1> QED BY <1>2, <1>3 DEF SockInv

\* The steps of a connection leave the others alone.
LEMMA OthersStay ==
  ASSUME SockInv, NEW c \in Conn,
         \A d \in Conn \ {c} :
           /\ cl'[d] = cl[d] /\ asked'[d] = asked[d] /\ st'[d] = st[d]
           /\ toServer'[d] = toServer[d] /\ toClient'[d] = toClient[d]
           /\ ran'[d] = ran[d] /\ result'[d] = result[d] /\ answer'[d] = answer[d],
         \A d \in Conn \ {c} : (d \in cut <=> d \in cut') /\ (d \in overrun <=> d \in overrun'),
         SockTypeOK', StageInv(c)', Heard(c)' => RequestInv(c)', Understood(c)' => ReplyInv(c)',
         OverrunInv(c)'
  PROVE  SockInv'
<1>1. ASSUME NEW d \in Conn \ {c}
      PROVE  StageInv(d)' /\ (Heard(d)' => RequestInv(d)') /\ (Understood(d)' => ReplyInv(d)')
             /\ OverrunInv(d)'
  <2>1. StageInv(d) /\ (Heard(d) => RequestInv(d)) /\ (Understood(d) => ReplyInv(d))
        /\ OverrunInv(d)
    BY DEF SockInv
  <2>2. StageInv(d)'
    BY <2>1 DEF StageInv
  <2>3. Heard(d)' <=> Heard(d)
    BY DEF Heard
  <2>4. RequestInv(d) => RequestInv(d)'
    BY DEF RequestInv
  <2>5. Understood(d)' <=> Understood(d)
    BY <2>3 DEF Understood
  <2>6. ReplyInv(d) => ReplyInv(d)'
    BY DEF ReplyInv
  <2>7. OverrunInv(d)'
    BY <2>1 DEF OverrunInv
  <2> QED BY <2>1, <2>2, <2>3, <2>4, <2>5, <2>6, <2>7
<1> QED BY <1>1 DEF SockInv

\* Both ways to begin a call.
LEMMA BeginsPreserves ==
  ASSUME SockInv, NEW c \in Conn, NEW r \in AnyRequest, Begins(c, r),
         NEW how \in {"connected", "returned"}, cl' = [cl EXCEPT ![c] = how],
         how = "connected" => r \in Request,
         st' = IF how = "connected" THEN [st EXCEPT ![c] = "pending"] ELSE st,
         st \in [Conn -> Stage]
  PROVE  SockInv'
<1>1. NoRequest \in AnyRequest /\ NoResult \in AnyResult /\ <<>> \in Seq(Int)
  BY RequestTypes
<1>2. SockTypeOK'
  BY <1>1 DEF SockInv, SockTypeOK, Begins
<1>3. st[c] = "closed"
  BY DEF SockInv, StageInv, Begins
<1>4. /\ ran'[c] = NoRequest /\ asked'[c] = r /\ c \notin overrun'
      /\ \/ cl'[c] = "connected" /\ r \in Request /\ st'[c] = "pending"
         \/ cl'[c] = "returned" /\ st'[c] = "closed"
  <2>1. cl'[c] = how /\ st'[c] = IF how = "connected" THEN "pending" ELSE "closed"
    BY <1>3 DEF SockInv, SockTypeOK
  <2>2. ran'[c] = NoRequest /\ asked'[c] = r /\ c \notin overrun'
    BY DEF SockInv, SockTypeOK, Begins
  <2>3. CASE how = "connected"
    BY <2>1, <2>2, <2>3
  <2>4. CASE how = "returned"
    BY <2>1, <2>2, <2>4
  <2> QED BY <2>3, <2>4
<1>5. StageInv(c)' /\ RequestInv(c)' /\ ReplyInv(c)' /\ OverrunInv(c)'
  BY <1>4 DEF StageInv, RequestInv, ReplyInv, OverrunInv
<1>6. \A d \in Conn \ {c} :
        /\ cl'[d] = cl[d] /\ asked'[d] = asked[d] /\ st'[d] = st[d]
        /\ toServer'[d] = toServer[d] /\ toClient'[d] = toClient[d]
        /\ ran'[d] = ran[d] /\ result'[d] = result[d] /\ answer'[d] = answer[d]
  BY DEF SockInv, SockTypeOK, Begins
<1>7. \A d \in Conn \ {c} : (d \in cut <=> d \in cut') /\ (d \in overrun <=> d \in overrun')
  BY DEF Begins
<1> QED BY <1>2, <1>5, <1>6, <1>7, OthersStay

LEMMA ConnectPreserves ==
  ASSUME AcceptInv, SockInv, NEW c \in Conn, Connect(c)
  PROVE  SockInv'
<1>1. PICK r \in Request : Begins(c, r)
  BY DEF Connect
<1>2. r \in AnyRequest
  BY RequestTypes
<1>3. st' = [st EXCEPT ![c] = "pending"] /\ st \in [Conn -> Stage]
      /\ cl' = [cl EXCEPT ![c] = "connected"]
  BY DEF Connect, Arrives, AcceptInv, LoopTypeOK
<1> QED BY <1>1, <1>2, <1>3, BeginsPreserves

LEMMA ConnectFailsPreserves ==
  ASSUME AcceptInv, SockInv, NEW c \in Conn, ConnectFails(c)
  PROVE  SockInv'
<1>1. Begins(c, NoRequest) /\ NoRequest \in AnyRequest
  BY RequestTypes DEF ConnectFails
<1>2. st' = st /\ st \in [Conn -> Stage] /\ cl' = [cl EXCEPT ![c] = "returned"]
  BY DEF ConnectFails, loopVars, AcceptInv, LoopTypeOK
<1> QED BY <1>1, <1>2, BeginsPreserves

LEMMA ClientSendsPreserves ==
  ASSUME AcceptInv, SockInv, NEW c \in Conn, ClientSends(c)
  PROVE  SockInv'
<1>1. asked[c] \in Request /\ ran[c] = NoRequest /\ st' = st
      /\ OverrunInv(c) /\ (Heard(c) => RequestInv(c))
  BY DEF ClientSends, SockInv, StageInv, loopVars
<1>2. RequestLines(asked[c]) \in Seq(Int)
  BY <1>1, RequestLinesType
<1>3. SockTypeOK'
  BY <1>2 DEF SockInv, SockTypeOK, ClientSends
<1>4. cl[c] = "connected" /\ cl'[c] = "sent" /\ asked' = asked /\ ran' = ran /\ result' = result
      /\ cut' = cut /\ overrun' = overrun /\ toServer'[c] = RequestLines(asked[c])
  BY <1>1 DEF SockInv, SockTypeOK, ClientSends
<1>5. StageInv(c)'
  BY <1>1, <1>4 DEF StageInv
<1>6. Heard(c)' => RequestInv(c)'
  BY <1>1, <1>4 DEF RequestInv, Heard
<1>7. ReplyInv(c)' /\ OverrunInv(c)'
  BY <1>1, <1>4 DEF ReplyInv, OverrunInv
<1> QED BY <1>1, <1>3, <1>4, <1>5, <1>6, <1>7, OthersStay DEF ClientSends, SockInv, SockTypeOK

LEMMA ClientDiesPreserves ==
  ASSUME AcceptInv, SockInv, NEW c \in Conn, ClientDies(c)
  PROVE  SockInv'
<1>0. /\ SockTypeOK /\ StageInv(c) /\ (Heard(c) => RequestInv(c))
      /\ (Understood(c) => ReplyInv(c)) /\ OverrunInv(c)
  BY DEF SockInv
<1>1. st' = st /\ asked' = asked /\ ran' = ran /\ toClient' = toClient /\ result' = result
      /\ answer' = answer /\ overrun' = overrun /\ asked[c] \in Request
      /\ cl[c] \in {"connected", "sent"}
      /\ cl' = [cl EXCEPT ![c] = IF st[c] = "closed" THEN "idle" ELSE "dead"]
  BY <1>0 DEF ClientDies, StageInv, loopVars
<1>2. deaths' \in 0..MaxDeaths
  BY <1>0, GarbageInt DEF ClientDies, SockTypeOK
<1>3. /\ toServer' \in [Conn -> Seq(Int)]
      /\ \A d \in Conn \ {c} : toServer'[d] = toServer[d] /\ (d \in cut <=> d \in cut')
      /\ cut \subseteq cut' /\ cut' \subseteq Conn
      /\ c \in cut' \/ (cl[c] = "sent" /\ toServer' = toServer /\ cut' = cut)
  <2> USE <1>0 DEF SockTypeOK
  <2>1. CASE cl[c] = "connected"
    <3>1. PICK n \in 0..Len(RequestLines(asked[c])) - 1 :
            toServer' = [toServer EXCEPT ![c] = SubSeq(RequestLines(asked[c]), 1, n)]
      BY <2>1 DEF ClientDies
    <3>2. RequestLines(asked[c]) \in Seq(Int)
      BY <1>1, RequestLinesType
    <3>3. SubSeq(RequestLines(asked[c]), 1, n) \in Seq(Int)
      BY <3>2
    <3>4. toServer' \in [Conn -> Seq(Int)] /\ \A d \in Conn \ {c} : toServer'[d] = toServer[d]
      BY <3>1, <3>3
    <3>5. cut' = cut \cup {c}
      BY <2>1 DEF ClientDies
    <3> QED BY <3>4, <3>5
  <2>2. CASE cl[c] = "sent"
    BY <2>2 DEF ClientDies
  <2> QED BY <1>1, <2>1, <2>2
<1>4. SockTypeOK'
  BY <1>0, <1>1, <1>2, <1>3 DEF SockTypeOK
<1>5. cl'[c] = IF st[c] = "closed" THEN "idle" ELSE "dead"
  BY <1>0, <1>1 DEF SockTypeOK
<1>6. StageInv(c)'
  BY <1>0, <1>1, <1>5 DEF StageInv
<1>7. Heard(c)' => RequestInv(c)'
  BY <1>0, <1>1, <1>3, <1>5 DEF RequestInv, Heard
<1>8. ReplyInv(c)' /\ OverrunInv(c)'
  BY <1>0, <1>1, <1>3, <1>5 DEF ReplyInv, OverrunInv
<1>9. \A d \in Conn \ {c} : cl'[d] = cl[d]
  BY <1>0, <1>1 DEF SockTypeOK
<1> QED BY <1>1, <1>3, <1>4, <1>6, <1>7, <1>8, <1>9, OthersStay

LEMMA ClientBreaksPreserves ==
  ASSUME AcceptInv, SockInv, NEW c \in Conn, ClientBreaks(c)
  PROVE  SockInv'
<1> USE DEF SockInv, SockTypeOK, ClientBreaks, loopVars
<1>1. SockTypeOK' /\ cl'[c] = "idle" /\ st' = st /\ st[c] = "closed" /\ ran[c] = NoRequest
      /\ ran' = ran
  BY DEF StageInv
<1>2. ~Heard(c)'
  BY DEF RequestInv, Heard
<1>3. StageInv(c)' /\ ReplyInv(c)' /\ OverrunInv(c)'
  BY <1>1 DEF StageInv, ReplyInv, OverrunInv
<1> QED BY <1>1, <1>2, <1>3, OthersStay

\* What a call has read is of the type of a result; and it is the result, if the
\* reply has come through.
LEMMA ReceivesRight ==
  ASSUME AcceptInv, SockInv, NEW c \in Conn, Receives(c), NEW o \in Replies(c)
  PROVE  /\ o \in AnyResult
         /\ asked[c] \in Request
         /\ toClient' \in [Conn -> Seq(Int)]
         /\ Heard(c) => /\ ran[c] = asked[c] /\ result[c] \in Outcome(asked[c])
                        /\ OneLine(result[c].val) => o = result[c]
<1>1. PICK g \in Garbage : o = ReadReply(asked[c], toClient[c], g)
  BY DEF Replies
<1>2. /\ SockTypeOK /\ StageInv(c) /\ (Heard(c) => RequestInv(c))
      /\ cl[c] = "sent" /\ st[c] = "closed"
  BY DEF SockInv, Receives
<1>3. asked[c] \in Request /\ g \in Int /\ toClient[c] \in Seq(Int)
  BY <1>2, GarbageInt DEF StageInv, SockTypeOK
<1>4. o \in AnyResult
  BY <1>1, <1>3, ReadReplyType
<1>5. toClient' \in [Conn -> Seq(Int)]
  BY <1>2 DEF Receives, SockTypeOK
<1>6. ASSUME Heard(c)
      PROVE  /\ ran[c] = asked[c] /\ result[c] \in Outcome(asked[c])
             /\ OneLine(result[c].val) => o = result[c]
  <2>1. ran[c] # NoRequest /\ ran[c] = asked[c] /\ result[c] \in Outcome(asked[c])
        /\ toClient[c] = ReplyLines(ran[c], result[c])
    BY <1>2, <1>6 DEF RequestInv
  <2>2. OneLine(result[c].val) => ReadReply(asked[c], ReplyLines(asked[c], result[c]), g) = result[c]
    BY <1>3, <2>1, ReplyRoundTrip
  <2> QED BY <1>1, <2>1, <2>2
<1> QED BY <1>3, <1>4, <1>5, <1>6

LEMMA ClientReadsPreserves ==
  ASSUME AcceptInv, SockInv, NEW c \in Conn, ClientReads(c)
  PROVE  SockInv'
<1>1. PICK o \in Replies(c) : Receives(c) /\ answer' = [answer EXCEPT ![c] = o]
  BY DEF ClientReads
<1>2. o \in AnyResult /\ toClient' \in [Conn -> Seq(Int)]
      /\ (Heard(c) => (OneLine(result[c].val) => o = result[c]))
  BY <1>1, ReceivesRight
<1>3. /\ SockTypeOK /\ StageInv(c) /\ (Heard(c) => RequestInv(c)) /\ OverrunInv(c)
  BY DEF SockInv
<1>4. /\ st' = st /\ asked' = asked /\ toServer' = toServer /\ cut' = cut /\ ran' = ran
      /\ result' = result /\ deaths' = deaths /\ overrun' = overrun
      /\ cl' = [cl EXCEPT ![c] = "returned"] /\ cl[c] = "sent" /\ st[c] = "closed"
  BY <1>1 DEF ClientReads, Receives, loopVars
<1>5. SockTypeOK'
  BY <1>1, <1>2, <1>3, <1>4 DEF SockTypeOK
<1>6. cl'[c] = "returned" /\ answer'[c] = o
  BY <1>1, <1>3, <1>4 DEF SockTypeOK
<1>7. StageInv(c)'
  BY <1>3, <1>4, <1>6 DEF StageInv
<1>8. Heard(c)' => RequestInv(c)'
  BY <1>3, <1>4, <1>6 DEF Heard, RequestInv
<1>9. Understood(c)' => ReplyInv(c)'
  BY <1>2, <1>4, <1>6 DEF Heard, Understood, ReplyInv
<1>10. OverrunInv(c)'
  BY <1>3, <1>4 DEF OverrunInv
<1>11. \A d \in Conn \ {c} : cl'[d] = cl[d] /\ answer'[d] = answer[d] /\ toClient'[d] = toClient[d]
  BY <1>1, <1>3, <1>4 DEF SockTypeOK, Receives
<1> QED BY <1>4, <1>5, <1>7, <1>8, <1>9, <1>10, <1>11, OthersStay

\* What is not the value that claves.c gave has not come through; what is, had
\* too many numbers to begin with.
LEMMA ClientOverrunsPreserves ==
  ASSUME AcceptInv, SockInv, NEW c \in Conn, ClientOverruns(c)
  PROVE  SockInv'
<1>1. PICK o \in Replies(c) :
        /\ Receives(c) /\ o.val.n > MaxVec
        /\ \/ cl' = [cl EXCEPT ![c] = "idle"] /\ answer' = answer
           \/ /\ cl' = [cl EXCEPT ![c] = "returned"]
              /\ \E a \in {o} \cup [res : Garbage, val : Stray] : answer' = [answer EXCEPT ![c] = a]
  BY DEF ClientOverruns
<1>2. /\ o \in AnyResult /\ asked[c] \in Request /\ toClient' \in [Conn -> Seq(Int)]
      /\ Heard(c) => /\ ran[c] = asked[c] /\ result[c] \in Outcome(asked[c])
                     /\ OneLine(result[c].val) => o = result[c]
  BY <1>1, ReceivesRight
<1>3. /\ SockTypeOK /\ StageInv(c) /\ OverrunInv(c)
  BY DEF SockInv
<1>4. /\ st' = st /\ asked' = asked /\ toServer' = toServer /\ cut' = cut /\ ran' = ran
      /\ result' = result /\ deaths' = deaths /\ overrun' = overrun \cup {c}
      /\ cl[c] = "sent" /\ st[c] = "closed"
  BY <1>1 DEF ClientOverruns, Receives, loopVars
<1>5. [res : Garbage, val : Stray] \subseteq AnyResult
  BY ServidorSockAssumption DEF ServidorSockAssumption, AnyResult
<1>6. answer' \in [Conn -> AnyResult] /\ \A d \in Conn \ {c} : answer'[d] = answer[d]
  <2> DEFINE Other == [res : Garbage, val : Stray]
  <2>1. answer \in [Conn -> AnyResult]
    BY <1>3 DEF SockTypeOK
  <2>2. Other \subseteq AnyResult
    BY <1>5
  <2>3. answer' = answer \/ \E a \in {o} \cup Other : answer' = [answer EXCEPT ![c] = a]
    BY <1>1
  <2> HIDE DEF Other
  <2>4. answer' = answer \/ \E a \in AnyResult : answer' = [answer EXCEPT ![c] = a]
    BY <1>2, <2>2, <2>3
  <2> QED BY <2>1, <2>4
<1>7. /\ cl' \in [Conn -> {"idle", "connected", "sent", "returned", "dead"}]
      /\ cl'[c] \in {"idle", "returned"} /\ \A d \in Conn \ {c} : cl'[d] = cl[d]
  BY <1>1, <1>3 DEF SockTypeOK
<1>8. SockTypeOK'
  BY <1>2, <1>3, <1>4, <1>6, <1>7 DEF SockTypeOK
<1>9. StageInv(c)'
  BY <1>3, <1>4, <1>7 DEF StageInv
<1>10. ~Heard(c)' /\ ~Understood(c)'
  BY <1>4 DEF Heard, Understood
<1>11. OverrunInv(c)'
  <2> SUFFICES ASSUME Heard(c)
               PROVE  /\ asked[c].op = "get_value" /\ ran[c] # NoRequest
                      /\ ~OneLine(result[c].val) \/ result[c].val.n > MaxVec
    BY <1>3, <1>4 DEF OverrunInv, Heard
  <2>1. /\ ran[c] = asked[c] /\ result[c] \in Outcome(asked[c])
        /\ OneLine(result[c].val) => o = result[c]
    BY <1>2
  <2>2. ~OneLine(result[c].val) \/ result[c].val.n > MaxVec
    BY <1>1, <2>1
  <2>3. asked[c].op # "get_value" => result[c].val = NoVal
    BY <2>1, OutcomeTypes
  <2>4. MaxVec \in Nat /\ NoVal.n = 0 /\ OneLine(NoVal)
    BY ServidorSockAssumption DEF ServidorSockAssumption, NoVal, OneLine
  <2>5. ran[c] # NoRequest
    BY <1>2, <2>1, RequestShape DEF NoRequest
  <2> QED BY <2>2, <2>3, <2>4, <2>5
<1>12. \A d \in Conn \ {c} : toClient'[d] = toClient[d] /\ (d \in overrun <=> d \in overrun')
  BY <1>1, <1>3, <1>4 DEF SockTypeOK, Receives
<1> QED BY <1>4, <1>6, <1>7, <1>8, <1>9, <1>10, <1>11, <1>12, OthersStay

\* What the thread has read is a request; and it is the one that was asked, read
\* to its last line, if that has come through.
LEMMA TakesRight ==
  ASSUME AcceptInv, SockInv, NEW c \in Conn, NEW r \in Requests(c), Takes(c, r)
  PROVE  /\ r \in AnyRequest /\ r # NoRequest /\ r.op # "none"
         /\ r.op \in {Op[n] : n \in DOMAIN Op} \cup {"unknown"}
         /\ toServer' \in [Conn -> Seq(Int)]
         /\ result' \in [Conn -> AnyResult]
         /\ result'[c] \in Outcome(r)
         /\ Heard(c) => asked[c] \in Request /\ r = asked[c] /\ toServer'[c] = <<>>
<1>1. PICK g \in Garbage : r = Decoded(toServer[c], g)
  BY DEF Requests
<1>2. /\ SockTypeOK /\ (Heard(c) => RequestInv(c))
      /\ cl[c] \in {"sent", "dead"} /\ ran[c] = NoRequest
  BY DEF SockInv, Takes
<1>3. g \in Int /\ toServer[c] \in Seq(Int)
  BY <1>2, GarbageInt DEF SockTypeOK
<1>4. r \in AnyRequest /\ r.op # "none" /\ r.op \in {Op[n] : n \in DOMAIN Op} \cup {"unknown"}
  BY <1>1, <1>3, DecodedType
<1>5. r # NoRequest
  BY <1>4 DEF NoRequest
<1>6. PICK o \in Outcome(r) : result' = [result EXCEPT ![c] = o]
  BY DEF Takes
<1>7. o \in AnyResult
  BY OutcomeTypes
<1>8. result' \in [Conn -> AnyResult] /\ result'[c] = o
  BY <1>2, <1>6, <1>7 DEF SockTypeOK
<1>9. /\ toServer' = [toServer EXCEPT ![c] = SubSeq(toServer[c], Taken(r) + 1, Len(toServer[c]))]
      /\ SubSeq(toServer[c], Taken(r) + 1, Len(toServer[c])) \in Seq(Int)
  BY <1>3, <1>4, TakenType, RestType DEF Takes
<1>10. toServer' \in [Conn -> Seq(Int)]
       /\ toServer'[c] = SubSeq(toServer[c], Taken(r) + 1, Len(toServer[c]))
  BY <1>2, <1>9 DEF SockTypeOK
<1>11. ASSUME Heard(c) PROVE asked[c] \in Request /\ r = asked[c] /\ toServer'[c] = <<>>
  <2>1. asked[c] \in Request /\ toServer[c] = RequestLines(asked[c]) /\ OneLine(asked[c].val)
    BY <1>2, <1>11 DEF RequestInv, Heard
  <2>2. r = asked[c] /\ Taken(r) = Len(toServer[c])
    BY <1>1, <1>3, <2>1, RequestRoundTrip
  <2>3. toServer'[c] = <<>>
    BY <1>3, <1>4, <1>10, <2>2, TakenType, RestType
  <2> QED BY <2>1, <2>2, <2>3
<1> QED BY <1>4, <1>5, <1>8, <1>10, <1>11

LEMMA ServePreserves ==
  ASSUME AcceptInv, SockInv, NEW c \in Conn, Serve(c)
  PROVE  SockInv'
<1>1. PICK r \in Requests(c) : Takes(c, r) /\ ran' = [ran EXCEPT ![c] = r] /\ overrun' = overrun
  BY DEF Serve
<1>2. /\ r \in AnyRequest /\ r # NoRequest
      /\ toServer' \in [Conn -> Seq(Int)] /\ result' \in [Conn -> AnyResult]
      /\ result'[c] \in Outcome(r)
      /\ Heard(c) => asked[c] \in Request /\ r = asked[c] /\ toServer'[c] = <<>>
  BY <1>1, TakesRight
<1>3. SockTypeOK /\ StageInv(c) /\ OverrunInv(c)
  BY DEF SockInv
<1>4. /\ st' = st /\ cl' = cl /\ asked' = asked /\ toClient' = toClient /\ cut' = cut
      /\ answer' = answer /\ deaths' = deaths
      /\ st[c] = "serve" /\ ran[c] = NoRequest /\ cl[c] \in {"sent", "dead"}
  BY <1>1 DEF Takes, loopVars
<1>5. SockTypeOK'
  BY <1>1, <1>2, <1>3, <1>4 DEF SockTypeOK
<1>6. ran'[c] = r
  BY <1>1, <1>3 DEF SockTypeOK
<1>7. StageInv(c)'
  BY <1>3, <1>4, <1>6 DEF StageInv
<1>8. Heard(c)' => RequestInv(c)'
  BY <1>1, <1>2, <1>4, <1>6 DEF Heard, RequestInv
<1>9. ReplyInv(c)'
  BY <1>4 DEF ReplyInv
<1>10. OverrunInv(c)'
  <2>1. c \in overrun => c \in cut \/ ~OneLine(asked[c].val)
    BY <1>3, <1>4 DEF OverrunInv
  <2> QED BY <1>1, <1>4, <2>1 DEF OverrunInv
<1>11. \A d \in Conn \ {c} : ran'[d] = ran[d] /\ result'[d] = result[d] /\ toServer'[d] = toServer[d]
  BY <1>1, <1>3 DEF SockTypeOK, Takes
<1> QED BY <1>1, <1>4, <1>5, <1>7, <1>8, <1>9, <1>10, <1>11, OthersStay

\* A request that has come through has no more numbers than MAXVEC.
LEMMA ServeOverrunsPreserves ==
  ASSUME AcceptInv, SockInv, NEW c \in Conn, ServeOverruns(c)
  PROVE  SockInv'
<1>1. PICK r \in Requests(c) :
        /\ Takes(c, r) /\ r.val.n > MaxVec /\ overrun' = overrun \cup {c}
        /\ \E q \in {r} \cup [op : {r.op}, key : Garbage, val : Stray] : ran' = [ran EXCEPT ![c] = q]
  BY DEF ServeOverruns
<1>2. /\ r \in AnyRequest /\ r # NoRequest /\ r.op # "none"
      /\ r.op \in {Op[n] : n \in DOMAIN Op} \cup {"unknown"}
      /\ toServer' \in [Conn -> Seq(Int)] /\ result' \in [Conn -> AnyResult]
      /\ Heard(c) => asked[c] \in Request /\ r = asked[c]
  BY <1>1, TakesRight
<1>3. SockTypeOK /\ StageInv(c) /\ OverrunInv(c)
  BY DEF SockInv
<1>4. /\ st' = st /\ cl' = cl /\ asked' = asked /\ toClient' = toClient /\ cut' = cut
      /\ answer' = answer /\ deaths' = deaths
      /\ st[c] = "serve" /\ ran[c] = NoRequest /\ cl[c] \in {"sent", "dead"}
  BY <1>1 DEF Takes, loopVars
<1>5. PICK q \in {r} \cup [op : {r.op}, key : Garbage, val : Stray] : ran' = [ran EXCEPT ![c] = q]
  BY <1>1
<1>6. q \in AnyRequest /\ q # NoRequest
  <2>1. Garbage \subseteq Int /\ Stray \subseteq AnyValue
    BY ServidorSockAssumption DEF ServidorSockAssumption
  <2>2. CASE q = r
    BY <1>2, <2>2
  <2>3. CASE q \in [op : {r.op}, key : Garbage, val : Stray]
    <3>1. q.op = r.op /\ q.key \in Int /\ q.val \in AnyValue
          /\ q = [op |-> q.op, key |-> q.key, val |-> q.val]
      BY <2>1, <2>3
    <3>2. r.op \in {Op[n] : n \in DOMAIN Op} \cup {"none", "unknown"}
      BY <1>2
    <3>3. q \in AnyRequest
      BY <3>1, <3>2 DEF AnyRequest
    <3> QED BY <1>2, <3>1, <3>3 DEF NoRequest
  <2> QED BY <1>5, <2>2, <2>3
<1>7. SockTypeOK'
  BY <1>1, <1>2, <1>3, <1>4, <1>5, <1>6 DEF SockTypeOK
<1>8. StageInv(c)'
  BY <1>3, <1>4 DEF StageInv
<1>9. ~Heard(c)' /\ ~Understood(c)'
  BY <1>1 DEF Heard, Understood
<1>10. OverrunInv(c)'
  <2> SUFFICES ASSUME Heard(c) PROVE FALSE
    <3>1. c \in cut \/ ~OneLine(asked[c].val) => OverrunInv(c)'
      BY <1>4 DEF OverrunInv
    <3>2. c \in overrun => c \in cut \/ ~OneLine(asked[c].val)
      BY <1>3, <1>4 DEF OverrunInv
    <3> QED BY <3>1, <3>2 DEF Heard
  <2>1. r \in Request
    BY <1>2
  <2>2. r.val.n <= MaxVec /\ r.val.n \in Int /\ MaxVec \in Nat
    BY <2>1, RequestShape, ValueShape, ServidorSockAssumption DEF ServidorSockAssumption
  <2> QED BY <1>1, <2>2
<1>11. \A d \in Conn \ {c} : /\ ran'[d] = ran[d] /\ result'[d] = result[d]
                             /\ toServer'[d] = toServer[d] /\ (d \in overrun <=> d \in overrun')
  BY <1>1, <1>3, <1>5 DEF SockTypeOK, Takes
<1> QED BY <1>4, <1>7, <1>8, <1>9, <1>10, <1>11, OthersStay

LEMMA SendReplyPreserves ==
  ASSUME AcceptInv, SockInv, NEW c \in Conn, SendReply(c)
  PROVE  SockInv'
<1>1. PICK s \in FirstLines(ReplyLines(ran[c], result[c])) :
        /\ toServer[c] = <<>> => s = ReplyLines(ran[c], result[c])
        /\ toClient' = [toClient EXCEPT ![c] = s]
        /\ cut' = IF s = ReplyLines(ran[c], result[c]) THEN cut ELSE cut \cup {c}
  BY DEF SendReply
<1>2. SockTypeOK /\ StageInv(c) /\ (Heard(c) => RequestInv(c)) /\ OverrunInv(c)
  BY DEF SockInv
<1>3. s \in Seq(Int)
  <2>1. ReplyLines(ran[c], result[c]) \in Seq(Int)
    BY <1>2, ReplyLinesType DEF SockTypeOK
  <2> QED BY <2>1, FirstLinesType
<1>4. /\ st[c] = "serve" /\ st' = [st EXCEPT ![c] = "closed"] /\ DOMAIN st = Conn
      /\ cl' = [cl EXCEPT ![c] = IF cl[c] = "dead" THEN "idle" ELSE cl[c]]
      /\ ran[c] # NoRequest /\ asked' = asked /\ toServer' = toServer /\ overrun' = overrun
      /\ ran' = ran /\ result' = result /\ answer' = answer /\ deaths' = deaths
  BY DEF SendReply, Finishes, AcceptInv, LoopTypeOK
<1>5. SockTypeOK'
  BY <1>1, <1>2, <1>3, <1>4 DEF SockTypeOK
<1>6. st'[c] = "closed" /\ cl'[c] = (IF cl[c] = "dead" THEN "idle" ELSE cl[c])
      /\ toClient'[c] = s
  BY <1>1, <1>2, <1>4 DEF SockTypeOK
<1>7. StageInv(c)'
  BY <1>2, <1>4, <1>6 DEF StageInv
<1>8. Heard(c)' => RequestInv(c)'
  <2> SUFFICES ASSUME Heard(c)' PROVE RequestInv(c)'
    OBVIOUS
  <2>1. Heard(c)
    BY <1>1, <1>4 DEF Heard
  <2>2. RequestInv(c)
    BY <1>2, <2>1
  <2>3. toServer[c] = <<>>
    BY <1>4, <2>2 DEF RequestInv
  <2>4. s = ReplyLines(ran[c], result[c])
    BY <1>1, <2>3
  <2> QED BY <1>2, <1>4, <1>6, <2>2, <2>4 DEF RequestInv, StageInv
<1>9. ReplyInv(c)'
  BY <1>2, <1>4, <1>6 DEF StageInv, ReplyInv
<1>10. OverrunInv(c)'
  BY <1>1, <1>2, <1>4 DEF OverrunInv
<1>11. \A d \in Conn \ {c} : /\ st'[d] = st[d] /\ cl'[d] = cl[d] /\ toClient'[d] = toClient[d]
                             /\ (d \in cut <=> d \in cut')
  BY <1>1, <1>2, <1>4 DEF SockTypeOK
<1> QED BY <1>4, <1>5, <1>7, <1>8, <1>9, <1>10, <1>11, OthersStay

LEMMA ServerDiesPreserves ==
  ASSUME AcceptInv, SockInv, ServerDies
  PROVE  SockInv'
<1> DEFINE Got == [c \in Conn |-> IF st[c] = "serve" /\ ran[c] # NoRequest
                                    THEN FirstLines(ReplyLines(ran[c], result[c]))
                                    ELSE {toClient[c]}]
<1>1. PICK f \in [Conn -> UNION {Got[c] : c \in Conn}] :
        (\A c \in Conn : f[c] \in Got[c]) /\ toClient' = f
  BY DEF ServerDies
<1>2. /\ SockTypeOK
      /\ \A c \in Conn : StageInv(c) /\ (Heard(c) => RequestInv(c))
                         /\ (Understood(c) => ReplyInv(c)) /\ OverrunInv(c)
  BY DEF SockInv
<1>3. ASSUME NEW c \in Conn PROVE f[c] \in Seq(Int)
  <2>1. ReplyLines(ran[c], result[c]) \in Seq(Int)
    BY <1>2, ReplyLinesType DEF SockTypeOK
  <2>2. CASE st[c] = "serve" /\ ran[c] # NoRequest
    <3>1. f[c] \in FirstLines(ReplyLines(ran[c], result[c]))
      BY <1>1, <2>2
    <3> QED BY <2>1, <3>1, FirstLinesType
  <2>3. CASE ~(st[c] = "serve" /\ ran[c] # NoRequest)
    BY <1>1, <1>2, <2>3 DEF SockTypeOK
  <2> QED BY <2>2, <2>3
<1>4. \A c \in Conn : st[c] = "closed" => f[c] = toClient[c]
  BY <1>1
<1> HIDE DEF Got
<1>5. toClient' \in [Conn -> Seq(Int)]
  BY <1>1, <1>3
<1>6. /\ \A c \in Conn : st'[c] = "closed"
      /\ cl' = [c \in Conn |-> IF cl[c] = "dead" THEN "idle" ELSE cl[c]]
      /\ cut' = cut \cup {c \in Conn : st[c] # "closed"}
      /\ ran' = ran /\ asked' = asked /\ result' = result /\ toServer' = toServer
      /\ answer' = answer /\ overrun' = overrun /\ deaths' = deaths
  BY DEF ServerDies, StopServer
<1>7. SockTypeOK'
  BY <1>2, <1>5, <1>6 DEF SockTypeOK
<1>8. ASSUME NEW c \in Conn
      PROVE  StageInv(c)' /\ (Heard(c)' => RequestInv(c)') /\ (Understood(c)' => ReplyInv(c)')
             /\ OverrunInv(c)'
  <2>1. StageInv(c) /\ (Heard(c) => RequestInv(c)) /\ (Understood(c) => ReplyInv(c)) /\ OverrunInv(c)
    BY <1>2
  <2>2. /\ st'[c] = "closed" /\ cl'[c] = (IF cl[c] = "dead" THEN "idle" ELSE cl[c])
        /\ ran'[c] = ran[c] /\ asked'[c] = asked[c] /\ result'[c] = result[c]
        /\ toServer'[c] = toServer[c] /\ answer'[c] = answer[c]
        /\ (st[c] # "closed" => c \in cut') /\ (c \in cut => c \in cut')
        /\ (c \in overrun' <=> c \in overrun) /\ (st[c] = "closed" => toClient'[c] = toClient[c])
    BY <1>1, <1>4, <1>6
  <2>3. StageInv(c)'
    BY <2>1, <2>2 DEF StageInv
  <2>4. Heard(c)' => Heard(c) /\ st[c] = "closed"
    BY <2>2 DEF Heard
  <2>5. Heard(c)' => RequestInv(c)'
    BY <2>1, <2>2, <2>4 DEF RequestInv
  <2>6. Understood(c)' => Understood(c)
    BY <2>2, <2>4 DEF Understood
  <2>7. Understood(c)' => ReplyInv(c)'
    BY <2>1, <2>2, <2>6 DEF ReplyInv
  <2>8. OverrunInv(c)'
    BY <2>1, <2>2 DEF OverrunInv
  <2> QED BY <2>3, <2>5, <2>7, <2>8
<1> QED BY <1>7, <1>8, SockInvParts DEF SockInv

\* main and the handoff touch no call, and close no connection.
LEMMA LoopStepPreserves ==
  ASSUME AcceptInv, SockInv, LoopStep
  PROVE  SockInv'
<1>1. /\ cl' = cl /\ asked' = asked /\ toServer' = toServer /\ toClient' = toClient /\ cut' = cut
      /\ overrun' = overrun
      /\ ran' = ran /\ result' = result /\ answer' = answer /\ deaths' = deaths
  BY DEF LoopStep, callVars
<1>2. \A c \in Conn : st'[c] = st[c] \/ (st[c] \notin {"closed", "serve"} /\ st'[c] # "closed")
  <2> USE DEF AcceptInv, LoopTypeOK
  <2>1. CASE Accept
    <3>1. Head(backlog) \in Conn /\ backlog[1] = Head(backlog) /\ 1 \in DOMAIN backlog
      BY <2>1 DEF Accept, Backlogs
    <3>2. st[Head(backlog)] = "pending"
      BY <3>1 DEF PlaceInv
    <3> QED BY <2>1, <3>2 DEF Accept
  <2>2. ASSUME NEW d \in Conn, MallocFails(d) \/ PthreadCreate(d) \/ PthreadCreateFails(d)
        PROVE  \A c \in Conn : st'[c] = st[c]
                 \/ (st[c] \notin {"closed", "serve"} /\ st'[c] # "closed")
    BY <2>2 DEF MallocFails, PthreadCreate, PthreadCreateFails
  <2>3. CASE MainLocks \/ MainWaits \/ SpuriousWakeup \/ MainGoesOn
    BY <2>3 DEF MainLocks, MainWaits, SpuriousWakeup, MainGoesOn
  <2>4. ASSUME NEW d \in Conn, HandoffStep(d)
        PROVE  \A c \in Conn : st'[c] = st[c]
                 \/ (st[c] \notin {"closed", "serve"} /\ st'[c] # "closed")
    BY <2>4 DEF HandoffStep, ThreadLocks, ThreadCopies
  <2> QED BY <2>1, <2>2, <2>3, <2>4 DEF LoopStep, MainStep
<1>3. SockTypeOK'
  BY <1>1 DEF SockInv, SockTypeOK
<1>4. ASSUME NEW c \in Conn PROVE StageInv(c)'
  BY <1>1, <1>2 DEF SockInv, StageInv
<1>5. ASSUME NEW c \in Conn, Heard(c)' PROVE RequestInv(c)'
  <2>1. StageInv(c) /\ RequestInv(c)
    BY <1>1, <1>5 DEF SockInv, Heard
  <2>2. CASE st'[c] = st[c]
    BY <1>1, <2>1, <2>2 DEF RequestInv
  <2>3. CASE st[c] \notin {"closed", "serve"} /\ st'[c] # "closed"
    BY <1>1, <2>1, <2>3 DEF StageInv, RequestInv
  <2> QED BY <2>2, <2>3, <1>2
<1>6. ASSUME NEW c \in Conn PROVE (Understood(c)' => ReplyInv(c)') /\ OverrunInv(c)'
  BY <1>1 DEF SockInv, Heard, Understood, ReplyInv, OverrunInv
<1> QED BY <1>3, <1>4, <1>5, <1>6 DEF SockInv

\* proxy-sock.c, 58-228, and servidor-sock.c, 31-169: at every moment of a call,
\* both sides agree on how far it is and on the lines that are under way, if none
\* has died on the other, no value1 has a '\n' and no V_value2 was overrun.
THEOREM SockInvariant == SockSpec => []SockInv
<1>1. SockInit => SockInv
  BY SockInitEstablishes
<1>2. AcceptInv /\ SockInv /\ [SockNext]_sockVars => SockInv'
  <2> SUFFICES ASSUME AcceptInv, SockInv, [SockNext]_sockVars PROVE SockInv'
    OBVIOUS
  <2>1. CASE LoopStep
    BY <2>1, LoopStepPreserves
  <2>2. CASE ServerDies
    BY <2>2, ServerDiesPreserves
  <2>3. ASSUME NEW c \in Conn, CallStep(c) PROVE SockInv'
    BY <2>3, ConnectPreserves, ConnectFailsPreserves, ClientSendsPreserves,
       ClientDiesPreserves, ClientBreaksPreserves, ClientReadsPreserves,
       ClientOverrunsPreserves, ServePreserves, ServeOverrunsPreserves,
       SendReplyPreserves DEF CallStep
  <2>4. CASE UNCHANGED sockVars
    BY <2>4 DEF sockVars, SockInv, SockTypeOK, StageInv, Heard, Understood, RequestInv, ReplyInv,
                OverrunInv
  <2> QED BY <2>1, <2>2, <2>3, <2>4 DEF SockNext
<1> QED BY <1>1, <1>2, SockAcceptInv, PTL DEF SockSpec

\* Whatever the length of V_value2, whatever get_value leaves in N_value2, and
\* however many calls there are at a time: a request that arrived whole is run as
\* it was asked, a whole reply is the result.
THEOREM WholeCallsAreRight == SockSpec => []CallsAreRunAsAsked
<1>1. SockInv => CallsAreRunAsAsked
  BY DEF SockInv, RequestInv, ReplyInv, CallsAreRunAsAsked
<1> QED BY <1>1, SockInvariant, PTL

\* proxy-sock.c, 22-27: a request that is_N_value2_valid has let pass makes the
\* server store no number past V_value2, nor does a reply make the client, if
\* nothing was cut, no value1 has a '\n' and claves.c gave no more than MAXVEC.
THEOREM StoresStayInBounds == SockSpec => []OverrunsHaveACause
<1>1. SockInv => OverrunsHaveACause
  BY DEF SockInv, OverrunsHaveACause
<1> QED BY <1>1, SockInvariant, PTL
=============================================================================
