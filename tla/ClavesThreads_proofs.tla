------------------------ MODULE ClavesThreads_proofs ------------------------
(***************************************************************************)
(* claves.c without a lock, for any sets of keys and values.  Whichever    *)
(* fopen or write fails: no call returns with a stream open, for any set   *)
(* of threads in any order, and every read and write is on a file; with    *)
(* one thread at a time, a call that reports an error has changed nothing. *)
(* When nothing fails and no call removes a tuple, the ones that set_value *)
(* has acknowledged stay.                                                  *)
(*                                                                         *)
(* None of these is inductive.  StreamsClosed says nothing of a call under *)
(* way: StreamsInv says at which labels a call has each stream open.       *)
(* FailureInv, TypeInv and AckedInv are explained where they are used.     *)
(***************************************************************************)
EXTENDS ClavesThreads, DataFile_proofs

Reading == {"exist_scan", "get_scan", "del_temp", "del_scan"}
Writing == {"set_flush", "del_scan", "del_flush"}

MaybeInode == Inode \cup {NoInode}

StreamsInv ==
  /\ dir \in [FileName -> MaybeInode]
  /\ pc \in [Thread -> Label]
  /\ rd \in [Thread -> MaybeInode]
  /\ wr \in [Thread -> MaybeInode]
  /\ \A t \in Thread : /\ pc[t] \notin Reading => rd[t] = NoInode
                       /\ pc[t] \notin Writing => wr[t] = NoInode

\* A step that takes t to label l with streams i and j, the ones that l has.
LEMMA Moves ==
  ASSUME StreamsInv, NEW t \in Thread, NEW l \in Label,
         NEW i \in MaybeInode, NEW j \in MaybeInode,
         dir' \in [FileName -> MaybeInode],
         pc' = [pc EXCEPT ![t] = l],
         rd' = [rd EXCEPT ![t] = i],
         wr' = [wr EXCEPT ![t] = j],
         l \notin Reading => i = NoInode,
         l \notin Writing => j = NoInode
  PROVE  StreamsInv'
BY DEF StreamsInv

\* A stream that a step leaves alone.
LEMMA Stays ==
  ASSUME StreamsInv, NEW t \in Thread
  PROVE  /\ rd = [rd EXCEPT ![t] = rd[t]]
         /\ wr = [wr EXCEPT ![t] = wr[t]]
         /\ rd[t] \in MaybeInode
         /\ wr[t] \in MaybeInode
         /\ pc[t] \notin Reading => rd[t] = NoInode
         /\ pc[t] \notin Writing => wr[t] = NoInode
         /\ dir[Data] \in MaybeInode
BY DEF StreamsInv, FileName, Data

\* fopen(., "w") and fopen(., "a") give an inode.
LEMMA Fopens ==
  ASSUME StreamsInv, NEW n \in FileName, NEW i \in Inode,
         Truncates(n, i) \/ Appends(n, i)
  PROVE  dir' \in [FileName -> MaybeInode]
BY DEF StreamsInv, Truncates, Appends, MaybeInode

\* Labels at which no stream is open.
Closed == Label \ (Reading \cup Writing)

\* Where a function of claves.c goes when it returns.
LEMMA ReturnsTo ==
  ASSUME NEW t \in Thread, NEW x, Returns(t, x)
  PROVE  \E l \in Closed : pc' = [pc EXCEPT ![t] = l]
BY DEF Returns, Closed, Label, Reading, Writing

LEMMA ExistReturnsTo ==
  ASSUME NEW t \in Thread, NEW found, ExistReturns(t, found)
  PROVE  \E l \in Closed : pc' = [pc EXCEPT ![t] = l]
<1>1. CASE \E x : Returns(t, x)
  BY <1>1, ReturnsTo
<1>2. CASE \E l \in Closed : pc' = [pc EXCEPT ![t] = l]
  BY <1>2
<1>3. \/ \E x : Returns(t, x)
      \/ \E l \in {"get_open", "set_open", "del_open", "exist_open"} :
           pc' = [pc EXCEPT ![t] = l]
  BY DEF ExistReturns, Goto
<1>4. {"get_open", "set_open", "del_open", "exist_open"} \subseteq Closed
  BY DEF Closed, Label, Reading, Writing
<1>. QED
  BY <1>1, <1>2, <1>3, <1>4

\* A step that goes to a label of Closed and closes what was open.
LEMMA Closes ==
  ASSUME StreamsInv, NEW t \in Thread,
         \E l \in Closed : pc' = [pc EXCEPT ![t] = l],
         dir' \in [FileName -> MaybeInode],
         \/ rd' = [rd EXCEPT ![t] = NoInode]
         \/ pc[t] \notin Reading /\ rd' = rd,
         \/ wr' = [wr EXCEPT ![t] = NoInode]
         \/ pc[t] \notin Writing /\ wr' = wr
  PROVE  StreamsInv'
<1>1. PICK l \in Closed : pc' = [pc EXCEPT ![t] = l]
  OBVIOUS
<1>2. l \in Label /\ NoInode \in MaybeInode
  BY DEF Closed, MaybeInode
<1>3. rd' = [rd EXCEPT ![t] = NoInode] /\ wr' = [wr EXCEPT ![t] = NoInode]
  BY Stays
<1>. QED
  BY <1>1, <1>2, <1>3, Moves

-----------------------------------------------------------------------------
\* The functions that only read.
LEMMA ReadersStep ==
  ASSUME StreamsInv, NEW t \in Thread,
         ExistOpen(t) \/ ExistScan(t) \/ GetOpen(t) \/ GetScan(t)
  PROVE  StreamsInv'
<1>. USE DEF At
<1>0. /\ dir' = dir /\ wr' = wr
      /\ dir' \in [FileName -> MaybeInode]
      /\ pc[t] \notin Writing
  BY DEF StreamsInv, ExistOpen, ExistScan, GetOpen, GetScan, Writing
<1>1. ASSUME NEW l \in {"exist_scan", "get_scan"},
             pc' = [pc EXCEPT ![t] = l],
             rd' = [rd EXCEPT ![t] = dir[Data]]
      PROVE  StreamsInv'
  <2>1. l \in Label /\ l \in Reading
    BY DEF Label, Reading
  <2>. QED
    BY <1>0, <1>1, <2>1, Stays, Moves
<1>2. CASE ExistOpen(t)
  <2>1. CASE rd' = [rd EXCEPT ![t] = dir[Data]] /\ Goto(t, "exist_scan")
    BY <1>1, <2>1 DEF Goto
  <2>2. CASE ExistReturns(t, FALSE) /\ UNCHANGED rd
    <3>1. pc[t] \notin Reading
      BY <1>2 DEF ExistOpen, Reading
    <3>. QED
      BY <1>0, <2>2, <3>1, ExistReturnsTo, Closes
  <2>. QED
    BY <1>2, <2>1, <2>2 DEF ExistOpen
<1>3. CASE ExistScan(t)
  <2>1. \E l \in Closed : pc' = [pc EXCEPT ![t] = l]
    BY <1>3, ExistReturnsTo DEF ExistScan
  <2>. QED
    BY <1>0, <1>3, <2>1, Closes DEF ExistScan
<1>4. CASE GetOpen(t)
  <2>1. CASE rd' = [rd EXCEPT ![t] = dir[Data]] /\ Goto(t, "get_scan")
    BY <1>1, <2>1 DEF Goto
  <2>2. CASE Returns(t, Result(-1)) /\ UNCHANGED rd
    <3>1. pc[t] \notin Reading
      BY <1>4 DEF GetOpen, Reading
    <3>. QED
      BY <1>0, <2>2, <3>1, ReturnsTo, Closes
  <2>. QED
    BY <1>4, <2>1, <2>2 DEF GetOpen
<1>5. CASE GetScan(t)
  <2>1. \E l \in Closed : pc' = [pc EXCEPT ![t] = l]
    BY <1>5, ReturnsTo DEF GetScan
  <2>. QED
    BY <1>0, <1>5, <2>1, Closes DEF GetScan
<1>. QED
  BY <1>2, <1>3, <1>4, <1>5

\* destroy and set_value.
LEMMA WritersStep ==
  ASSUME StreamsInv, NEW t \in Thread,
         Destroy(t) \/ SetOpen(t) \/ SetFlush(t)
  PROVE  StreamsInv'
<1>. USE DEF At
<1>0. /\ rd' = rd
      /\ pc[t] \notin Reading
      /\ Data \in FileName
  BY DEF Destroy, SetOpen, SetFlush, Reading, FileName, Data
<1>1. CASE Destroy(t)
  <2>1. dir' \in [FileName -> MaybeInode]
    BY <1>0, <1>1, Fopens DEF Destroy, StreamsInv, fileVars
  <2>2. \E l \in Closed : pc' = [pc EXCEPT ![t] = l]
    BY <1>1, ReturnsTo DEF Destroy
  <2>3. wr' = wr /\ pc[t] \notin Writing
    BY <1>1 DEF Destroy, Writing
  <2>. QED
    BY <1>0, <2>1, <2>2, <2>3, Closes
<1>2. CASE SetOpen(t)
  <2>1. CASE /\ \E i \in Inode : Appends(Data, i) /\ wr' = [wr EXCEPT ![t] = i]
             /\ Goto(t, "set_flush")
    <3>1. PICK i \in Inode : Appends(Data, i) /\ wr' = [wr EXCEPT ![t] = i]
      BY <2>1
    <3>2. /\ "set_flush" \in Label /\ "set_flush" \in Writing
          /\ i \in MaybeInode
      BY DEF Label, Writing, MaybeInode
    <3>3. dir' \in [FileName -> MaybeInode]
      BY <1>0, <3>1, Fopens
    <3>4. pc' = [pc EXCEPT ![t] = "set_flush"]
      BY <2>1 DEF Goto
    <3>. QED
      BY <1>0, <3>1, <3>2, <3>3, <3>4, Stays, Moves
  <2>2. CASE UNCHANGED <<dir, content, wr>> /\ Returns(t, Result(-1))
    <3>1. \E l \in Closed : pc' = [pc EXCEPT ![t] = l]
      BY <2>2, ReturnsTo
    <3>2. dir' \in [FileName -> MaybeInode]
      BY <2>2 DEF StreamsInv
    <3>3. pc[t] \notin Writing
      BY <1>2 DEF SetOpen, Writing
    <3>. QED
      BY <1>0, <2>2, <3>1, <3>2, <3>3, Closes
  <2>. QED
    BY <1>2, <2>1, <2>2 DEF SetOpen
<1>3. CASE SetFlush(t)
  <2>1. \E l \in Closed : pc' = [pc EXCEPT ![t] = l]
    BY <1>3, ReturnsTo DEF SetFlush
  <2>2. /\ wr' = [wr EXCEPT ![t] = NoInode]
        /\ dir' \in [FileName -> MaybeInode]
    BY <1>3 DEF SetFlush, StreamsInv
  <2>. QED
    BY <1>0, <2>1, <2>2, Closes
<1>. QED
  BY <1>1, <1>2, <1>3

-----------------------------------------------------------------------------
\* delete_key while it has data.txt open.
LEMMA DeleteReads ==
  ASSUME StreamsInv, NEW t \in Thread,
         DelOpen(t) \/ DelTemp(t) \/ DelScan(t)
  PROVE  StreamsInv'
<1>. USE DEF At
<1>1. CASE DelOpen(t)
  <2>0. /\ wr' = wr
        /\ dir' \in [FileName -> MaybeInode]
        /\ pc[t] \notin Writing /\ pc[t] \notin Reading
    BY <1>1 DEF DelOpen, StreamsInv, Writing, Reading
  <2>1. CASE rd' = [rd EXCEPT ![t] = dir[Data]] /\ Goto(t, "del_temp")
    <3>1. /\ "del_temp" \in Label /\ "del_temp" \in Reading
          /\ pc' = [pc EXCEPT ![t] = "del_temp"]
      BY <2>1 DEF Goto, Label, Reading
    <3>. QED
      BY <2>0, <2>1, <3>1, Stays, Moves
  <2>2. CASE Returns(t, Result(-1)) /\ UNCHANGED rd
    BY <2>0, <2>2, ReturnsTo, Closes
  <2>. QED
    BY <1>1, <2>1, <2>2 DEF DelOpen
<1>2. CASE DelTemp(t)
  <2>0. pc[t] \notin Writing /\ Temp \in FileName
    BY <1>2 DEF DelTemp, Writing, FileName, Temp
  <2>1. CASE /\ \E i \in Inode : Truncates(Temp, i) /\ wr' = [wr EXCEPT ![t] = i]
             /\ Goto(t, "del_scan")
             /\ UNCHANGED rd
    <3>1. PICK i \in Inode : Truncates(Temp, i) /\ wr' = [wr EXCEPT ![t] = i]
      BY <2>1
    <3>2. /\ "del_scan" \in Label /\ "del_scan" \in Reading
          /\ "del_scan" \in Writing /\ i \in MaybeInode
      BY DEF Label, Reading, Writing, MaybeInode
    <3>3. dir' \in [FileName -> MaybeInode]
      BY <2>0, <3>1, Fopens
    <3>4. pc' = [pc EXCEPT ![t] = "del_scan"]
      BY <2>1 DEF Goto
    <3>. QED
      BY <2>1, <3>1, <3>2, <3>3, <3>4, Stays, Moves
  <2>2. CASE /\ Returns(t, Result(-1))
             /\ rd' = [rd EXCEPT ![t] = NoInode]
             /\ UNCHANGED <<dir, content, wr>>
    <3>1. \E l \in Closed : pc' = [pc EXCEPT ![t] = l]
      BY <2>2, ReturnsTo
    <3>2. dir' \in [FileName -> MaybeInode]
      BY <2>2 DEF StreamsInv
    <3>. QED
      BY <2>0, <2>2, <3>1, <3>2, Closes
  <2>. QED
    BY <1>2, <2>1, <2>2 DEF DelTemp
<1>3. CASE DelScan(t)
  <2>1. /\ pc' = [pc EXCEPT ![t] = "del_flush"]
        /\ rd' = [rd EXCEPT ![t] = NoInode]
        /\ wr' = wr
        /\ dir' \in [FileName -> MaybeInode]
    BY <1>3 DEF DelScan, Goto, StreamsInv
  <2>2. /\ "del_flush" \in Label /\ "del_flush" \in Writing
        /\ NoInode \in MaybeInode
    BY DEF Label, Writing, MaybeInode
  <2>. QED
    BY <2>1, <2>2, Stays, Moves
<1>. QED
  BY <1>1, <1>2, <1>3

\* delete_key from the fclose of temp.txt on.
LEMMA DeleteReplaces ==
  ASSUME StreamsInv, NEW t \in Thread,
         DelFlush(t) \/ DelRemove(t) \/ DelRename(t)
  PROVE  StreamsInv'
<1>. USE DEF At
<1>1. /\ rd' = rd
      /\ pc[t] \notin Reading
  BY DEF DelFlush, DelRemove, DelRename, Reading
<1>2. \/ wr' = [wr EXCEPT ![t] = NoInode]
      \/ pc[t] \notin Writing /\ wr' = wr
  BY DEF DelFlush, DelRemove, DelRename, Writing
<1>3. dir' \in [FileName -> MaybeInode]
  BY DEF StreamsInv, DelFlush, DelRemove, DelRename, FileName, Temp, Data,
         MaybeInode
<1>4. "del_remove" \in Closed /\ "del_rename" \in Closed
  BY DEF Closed, Label, Reading, Writing
<1>5. \E l \in Closed : pc' = [pc EXCEPT ![t] = l]
  BY <1>4, ReturnsTo DEF DelFlush, DelRemove, DelRename, Goto
<1>. QED
  BY <1>1, <1>2, <1>3, <1>5, Closes

-----------------------------------------------------------------------------
LEMMA StreamsInit == ThreadsInit => StreamsInv
BY DEF ThreadsInit, ClavesInit, StreamsInv, MaybeInode, Label

LEMMA StreamsNext == StreamsInv /\ [ThreadsNext]_threadsVars => StreamsInv'
<1>. SUFFICES ASSUME StreamsInv, [ThreadsNext]_threadsVars
              PROVE  StreamsInv'
  OBVIOUS
<1>1. ASSUME NEW t \in Thread, NEW r \in Request, Call(t, r)
      PROVE  StreamsInv'
  <2>1. /\ UNCHANGED <<dir, rd, wr>>
        /\ pc[t] \notin Reading /\ pc[t] \notin Writing
        /\ pc' = [pc EXCEPT ![t] = Entry(r.op)]
    BY <1>1 DEF Call, Begin, At, Reading, Writing
  <2>2. Entry(r.op) \in Closed
    BY DEF Entry, Closed, Label, Reading, Writing
  <2>3. dir' \in [FileName -> MaybeInode]
    BY <2>1 DEF StreamsInv
  <2>. QED
    BY <2>1, <2>2, <2>3, Closes
<1>2. ASSUME NEW t \in Thread, Step(t)
      PROVE  StreamsInv'
  BY <1>2, ReadersStep, WritersStep, DeleteReads, DeleteReplaces
  DEF Step, ClavesStep
<1>3. ASSUME NEW t \in Thread, Return(t)
      PROVE  StreamsInv'
  <2>1. /\ UNCHANGED <<dir, rd, wr>>
        /\ pc[t] \notin Reading /\ pc[t] \notin Writing
        /\ pc' = [pc EXCEPT ![t] = "idle"]
    BY <1>3 DEF Return, End, At, Reading, Writing
  <2>2. "idle" \in Closed
    BY DEF Closed, Label, Reading, Writing
  <2>3. dir' \in [FileName -> MaybeInode]
    BY <2>1 DEF StreamsInv
  <2>. QED
    BY <2>1, <2>2, <2>3, Closes
<1>4. CASE UNCHANGED threadsVars
  BY <1>4 DEF threadsVars, StreamsInv
<1>. QED
  BY <1>1, <1>2, <1>3, <1>4 DEF ThreadsNext

\* Whatever fails on the way, a call of claves.h returns with both its streams
\* closed, for any number of threads that call at the same time.
THEOREM EveryCallClosesItsStreams == ThreadsSpec => []StreamsClosed
<1>1. StreamsInv => StreamsClosed
  BY DEF StreamsInv, StreamsClosed, Reading, Writing
<1>. QED
  BY <1>1, StreamsInit, StreamsNext, PTL DEF ThreadsSpec

-----------------------------------------------------------------------------
(* FailedCallsChangeNothing, for one thread at a time.  A call can still   *)
(* fail at the labels of Early, where it has changed nothing; from there   *)
(* on it returns 0 whatever happens, and so does modify_value once it is   *)
(* inside delete_key or set_value.                                         *)

Early == {"exist_open", "exist_scan", "get_open", "get_scan", "destroy",
          "set_open", "del_open", "del_temp"}

\* modify_value has called delete_key or set_value.
Nested(t) ==
  req[t].op = "modify_value" /\ fn[t] \in {"delete_key", "set_value"}

FailureInv ==
  /\ \A f \in {pc, req, fn, ret, before} : DOMAIN f = Thread
  /\ \A t \in Thread :
       /\ fn[t] = req[t].op \/ Nested(t)
       /\ pc[t] \in Early /\ ~Nested(t) => Lines = before[t]
       /\ At(t, "done") /\ ret[t].res = -1 => Lines = before[t]

LEMMA SameFilesSameLines ==
  ASSUME UNCHANGED <<dir, content>>
  PROVE  Lines' = Lines
BY DEF Lines, Exists

\* Nothing has changed yet, and the function returns.
LEMMA EarlyReturn ==
  ASSUME FailureInv, NEW t, Thread = {t}, NEW x, Returns(t, x),
         pc[t] \in Early, UNCHANGED <<dir, content, req, before>>
  PROVE  FailureInv'
<1>1. Lines' = Lines
  BY SameFilesSameLines
<1>. QED
  BY <1>1 DEF FailureInv, Returns, Nested, At, Early, Result

\* The function returns 0.
LEMMA ReturnsSuccess ==
  ASSUME FailureInv, NEW t, Thread = {t}, Returns(t, Result(0)),
         UNCHANGED <<req, before>>
  PROVE  FailureInv'
<1>1. CASE fn[t] = "delete_key" /\ req[t].op = "modify_value"
  BY <1>1 DEF FailureInv, Returns, Nested, At
<1>2. CASE ~(fn[t] = "delete_key" /\ req[t].op = "modify_value")
  <2>1. ret' = [ret EXCEPT ![t] = Result(0)] /\ fn' = fn
    BY <1>2 DEF Returns
  <2>2. pc' = [pc EXCEPT ![t] = "done"]
    BY <1>2 DEF Returns
  <2>3. ret'[t].res = 0 /\ pc'[t] = "done" /\ fn'[t] = fn[t]
    BY <2>1, <2>2 DEF FailureInv, Result
  <2>. QED
    BY <2>1, <2>2, <2>3 DEF FailureInv, Nested, At, Early
<1>. QED
  BY <1>1, <1>2

\* The function goes on, to a label where it has changed nothing or cannot
\* fail any more.
LEMMA GoesOn ==
  ASSUME FailureInv, NEW t, Thread = {t}, NEW l, Goto(t, l), l # "done",
         UNCHANGED <<req, before>>,
         l \in Early => pc[t] \in Early /\ UNCHANGED <<dir, content>>
  PROVE  FailureInv'
<1>1. l \in Early => Lines' = Lines
  BY SameFilesSameLines
<1>. QED
  BY <1>1 DEF FailureInv, Goto, Nested, At

LEMMA EarlyExistReturn ==
  ASSUME FailureInv, NEW t, Thread = {t}, NEW found, ExistReturns(t, found),
         pc[t] \in Early, UNCHANGED <<dir, content, req, before>>
  PROVE  FailureInv'
<1>1. CASE \E x : Returns(t, x)
  BY <1>1, EarlyReturn
<1>2. CASE \E l \in {"get_open", "set_open", "del_open"} : Goto(t, l)
  BY <1>2, GoesOn
<1>3. CASE /\ fn[t] = "modify_value"
           /\ fn' = [fn EXCEPT ![t] = "delete_key"]
           /\ pc' = [pc EXCEPT ![t] = "exist_open"]
           /\ UNCHANGED ret
  BY <1>3 DEF FailureInv, Nested, At
<1>. QED
  BY <1>1, <1>2, <1>3 DEF ExistReturns

LEMMA EarlySteps ==
  ASSUME FailureInv, NEW t, Thread = {t}, UNCHANGED before,
         ExistOpen(t) \/ ExistScan(t) \/ GetOpen(t) \/ GetScan(t) \/ DelOpen(t)
  PROVE  FailureInv'
<1>1. UNCHANGED <<dir, content, req>> /\ pc[t] \in Early
  BY DEF ExistOpen, ExistScan, GetOpen, GetScan, DelOpen, At, Early
<1>2. \/ \E found : ExistReturns(t, found)
      \/ \E x : Returns(t, x)
      \/ \E l \in {"exist_scan", "get_scan", "del_temp"} : Goto(t, l)
  BY DEF ExistOpen, ExistScan, GetOpen, GetScan, DelOpen
<1>. QED
  BY <1>1, <1>2, EarlyExistReturn, EarlyReturn, GoesOn

LEMMA ChangingSteps ==
  ASSUME FailureInv, NEW t, Thread = {t}, UNCHANGED before,
         \/ Destroy(t) \/ SetOpen(t) \/ SetFlush(t)
         \/ DelTemp(t) \/ DelScan(t)
         \/ DelFlush(t) \/ DelRemove(t) \/ DelRename(t)
  PROVE  FailureInv'
<1>1. UNCHANGED req
  BY DEF Destroy, SetOpen, SetFlush, DelTemp, DelScan, DelFlush, DelRemove, DelRename
<1>2. CASE Returns(t, Result(0))
  BY <1>1, <1>2, ReturnsSuccess
<1>3. CASE \E l \in {"set_flush", "del_scan", "del_flush", "del_remove", "del_rename"} :
             Goto(t, l)
  BY <1>1, <1>3, GoesOn DEF Early
<1>4. CASE Returns(t, Result(-1)) /\ pc[t] \in Early /\ UNCHANGED <<dir, content>>
  BY <1>1, <1>4, EarlyReturn
<1>. QED
  BY <1>2, <1>3, <1>4
  DEF Destroy, SetOpen, SetFlush, DelTemp, DelScan, DelFlush, DelRemove,
      DelRename, At, Early, fileVars

\* Of one thread at a time, a call that reports an error (claves.h) has changed
\* nothing, whichever fopen or write failed.
THEOREM FailureChangesNothing ==
  ASSUME NEW CONSTANT self, Thread = {self}
  PROVE  ThreadsSpec => []FailedCallsChangeNothing
<1>1. ThreadsInit => FailureInv
  BY DEF ThreadsInit, ClavesInit, FailureInv, NoRequest, At, Early, Nested
<1>2. FailureInv /\ [ThreadsNext]_threadsVars => FailureInv'
  <2>. SUFFICES ASSUME FailureInv, [ThreadsNext]_threadsVars
                PROVE  FailureInv'
    OBVIOUS
  <2>1. ASSUME NEW r \in Request, Call(self, r)
        PROVE  FailureInv'
    <3>1. Lines' = Lines
      BY <2>1, SameFilesSameLines DEF Call, Begin
    <3>2. pc' = [pc EXCEPT ![self] = Entry(r.op)] /\ Entry(r.op) # "done"
      BY <2>1, Zenon DEF Call, Begin, Entry
    <3>. QED
      BY <2>1, <3>1, <3>2 DEF Call, Begin, FailureInv, At
  <2>2. CASE Step(self)
    BY <2>2, EarlySteps, ChangingSteps DEF Step, ClavesStep
  <2>3. CASE Return(self)
    BY <2>3 DEF Return, End, FailureInv, NoRequest, Early, At
  <2>4. CASE UNCHANGED threadsVars
    BY <2>4 DEF threadsVars, FailureInv, Nested, At, Lines, Exists
  <2>. QED
    BY <2>1, <2>2, <2>3, <2>4 DEF ThreadsNext
<1>3. FailureInv => FailedCallsChangeNothing
  BY DEF FailureInv, FailedCallsChangeNothing
<1>. QED
  BY <1>1, <1>2, <1>3, PTL DEF ThreadsSpec

-----------------------------------------------------------------------------
(* Types.  What a call reads or writes is a file, and set_value has a line *)
(* to write, because of the labels that lead there.                        *)

\* A call is in the function that was asked for, or in one that modify_value
\* calls.
CallInv(t) ==
  /\ fn[t] = req[t].op \/ Nested(t)
  /\ pc[t] # "idle" => req[t] \in Request
  /\ pc[t] \in {"set_open", "set_flush"} => fn[t] = "set_value"

TypeInv ==
  /\ ThreadsTypeOK
  /\ \A t \in Thread : /\ CallInv(t)
                       /\ pc[t] \in Reading => rd[t] \in Inode
                       /\ pc[t] \in Writing => wr[t] \in Inode

\* What a step of t may do to the control: all that Returns and Goto change.
ControlOK(t) ==
  /\ pc' \in [Thread -> Label]
  /\ fn' \in [Thread -> Op \cup {"none"}]
  /\ ret' \in [Thread -> Reply]
  /\ CallInv(t)'
  /\ \A u \in Thread \ {t} : pc'[u] = pc[u] /\ fn'[u] = fn[u]

LEMMA ReturnsControl ==
  ASSUME TypeInv, NEW t \in Thread, pc[t] # "idle", UNCHANGED req,
         NEW x \in Reply, Returns(t, x)
  PROVE  ControlOK(t) /\ pc'[t] \in {"exist_open", "done"}
<1>1. ThreadsTypeOK /\ ClavesTypeOK /\ CallInv(t)
  BY DEF TypeInv, ThreadsTypeOK
<1>2. CASE req[t].op = "modify_value" /\ fn[t] = "delete_key"
  BY <1>1, <1>2 DEF ClavesTypeOK, Returns, ControlOK, CallInv, Nested, Label, Op, WriteOp
<1>3. CASE ~(req[t].op = "modify_value" /\ fn[t] = "delete_key")
  <2>1. Result(0) \in Reply
    BY DEF Result, Reply
  <2>2. /\ pc' = [pc EXCEPT ![t] = "done"] /\ fn' = fn
        /\ \E y \in Reply : ret' = [ret EXCEPT ![t] = y]
    BY <1>3, <2>1 DEF Returns
  <2>3. /\ pc' \in [Thread -> Label] /\ pc'[t] = "done"
        /\ \A u \in Thread \ {t} : pc'[u] = pc[u] /\ fn'[u] = fn[u]
    BY <1>1, <2>2 DEF ClavesTypeOK, Label
  <2>4. ret' \in [Thread -> Reply] /\ fn' \in [Thread -> Op \cup {"none"}]
    BY <1>1, <2>2 DEF ClavesTypeOK
  <2> QED
    BY <1>1, <2>2, <2>3, <2>4 DEF ControlOK, CallInv, Nested
<1> QED
  BY <1>2, <1>3

LEMMA GotoControl ==
  ASSUME TypeInv, NEW t \in Thread, pc[t] # "idle", UNCHANGED req,
         NEW l \in Label, Goto(t, l),
         l \in {"set_open", "set_flush"} => fn[t] = "set_value"
  PROVE  ControlOK(t) /\ pc'[t] = l
BY DEF TypeInv, ThreadsTypeOK, ClavesTypeOK, Goto, ControlOK, CallInv, Nested

LEMMA ExistReturnsControl ==
  ASSUME TypeInv, NEW t \in Thread, pc[t] # "idle", UNCHANGED req,
         NEW found \in BOOLEAN, ExistReturns(t, found)
  PROVE  ControlOK(t) /\ pc'[t] \in Closed
<1>1. \A n \in {-1, 0, 1} : Result(n) \in Reply
  BY DEF Result, Reply
<1>2. {"get_open", "set_open", "del_open"} \subseteq Label
  BY DEF Label
<1>3. {"exist_open", "done", "get_open", "set_open", "del_open"} \subseteq Closed
  BY DEF Closed, Label, Reading, Writing
<1>4. CASE fn[t] = "exist"
  <2>1. Returns(t, Result(IF found THEN 1 ELSE 0))
    BY <1>4 DEF ExistReturns
  <2> QED BY <1>1, <1>3, <2>1, ReturnsControl
<1>5. CASE fn[t] = "get_value"
  <2>1. IF found THEN Goto(t, "get_open") ELSE Returns(t, Result(-1))
    BY <1>5 DEF ExistReturns
  <2> QED BY <1>1, <1>2, <1>3, <2>1, ReturnsControl, GotoControl
<1>6. CASE fn[t] = "set_value"
  <2>1. IF found THEN Returns(t, Result(-1)) ELSE Goto(t, "set_open")
    BY <1>6 DEF ExistReturns
  <2> QED BY <1>1, <1>2, <1>3, <1>6, <2>1, ReturnsControl, GotoControl
<1>7. CASE fn[t] = "delete_key"
  <2>1. IF found THEN Goto(t, "del_open") ELSE Returns(t, Result(-1))
    BY <1>7 DEF ExistReturns
  <2> QED BY <1>1, <1>2, <1>3, <2>1, ReturnsControl, GotoControl
<1>8. CASE fn[t] = "modify_value"
  <2>1. CASE found
    <3>1. /\ fn' = [fn EXCEPT ![t] = "delete_key"]
          /\ pc' = [pc EXCEPT ![t] = "exist_open"] /\ ret' = ret
      BY <1>8, <2>1 DEF ExistReturns
    <3>2. req[t].op = "modify_value" /\ req[t] \in Request
      BY <1>8 DEF TypeInv, CallInv, Nested
    <3> QED
      BY <1>3, <3>1, <3>2
         DEF TypeInv, ThreadsTypeOK, ClavesTypeOK, ControlOK, CallInv, Nested, Label, Op, KeyedOp
  <2>2. CASE ~found
    <3>1. Returns(t, Result(-1))
      BY <1>8, <2>2 DEF ExistReturns
    <3> QED BY <1>1, <1>3, <3>1, ReturnsControl
  <2> QED BY <2>1, <2>2
<1> QED
  BY <1>4, <1>5, <1>6, <1>7, <1>8 DEF ExistReturns

\* A step of t with its control and its streams in order keeps the types.
LEMMA TypeStep ==
  ASSUME TypeInv, NEW t \in Thread, ControlOK(t), UNCHANGED <<req, acked, before>>,
         NEW i \in MaybeInode, rd' = [rd EXCEPT ![t] = i],
         NEW j \in MaybeInode, wr' = [wr EXCEPT ![t] = j],
         pc'[t] \in Reading => i \in Inode,
         pc'[t] \in Writing => j \in Inode,
         dir' \in [FileName -> MaybeInode],
         content' \in [Inode -> Seq(Line)],
         buf' \in [Thread -> Seq(Line)]
  PROVE  TypeInv'
<1>1. ThreadsTypeOK'
  BY DEF TypeInv, ThreadsTypeOK, ClavesTypeOK, ControlOK, MaybeInode
<1>2. rd'[t] = i /\ wr'[t] = j /\ \A u \in Thread \ {t} : rd'[u] = rd[u] /\ wr'[u] = wr[u]
  BY DEF TypeInv, ThreadsTypeOK, ClavesTypeOK
<1>3. ASSUME NEW u \in Thread \ {t} PROVE CallInv(u)'
  BY DEF TypeInv, ControlOK, CallInv, Nested
<1> QED
  BY <1>1, <1>2, <1>3 DEF TypeInv, ControlOK

\* What a step leaves alone.
LEMMA TypesStay ==
  ASSUME TypeInv, NEW t \in Thread
  PROVE  /\ rd = [rd EXCEPT ![t] = rd[t]] /\ rd[t] \in MaybeInode
         /\ wr = [wr EXCEPT ![t] = wr[t]] /\ wr[t] \in MaybeInode
         /\ dir \in [FileName -> MaybeInode] /\ NoInode \in MaybeInode
         /\ Inode \subseteq MaybeInode
         /\ Exists(Data) => dir[Data] \in Inode
         /\ content \in [Inode -> Seq(Line)]
         /\ buf \in [Thread -> Seq(Line)]
         /\ pc[t] \in Reading => rd[t] \in Inode
         /\ pc[t] \in Writing => wr[t] \in Inode
         /\ CallInv(t)
BY DEF TypeInv, ThreadsTypeOK, ClavesTypeOK, MaybeInode, Exists, FileName, Data

LEMMA ResultTypes == Result(-1) \in Reply /\ Result(0) \in Reply /\ Result(1) \in Reply
BY DEF Result, Reply

LEMMA ClosedLabels ==
  /\ \A l \in Closed : l \notin Reading /\ l \notin Writing
  /\ "exist_open" \in Closed /\ "done" \in Closed
BY DEF Closed, Label, Reading, Writing

\* What get_value finds is a value.
LEMMA FoundValue ==
  ASSUME NEW s \in Seq(Line), NEW k
  PROVE  (IF k \in KeysOf(s) THEN [res |-> 0, val |-> Lookup(s, k)] ELSE Result(-1)) \in Reply
<1>1. CASE k \in KeysOf(s)
  <2>1. PICK n \in DOMAIN s : Lookup(s, k) = s[n].val
    BY <1>1, LookupFirst
  <2>2. s[n] \in Line
    OBVIOUS
  <2>3. Lookup(s, k) \in Value
    BY <2>1, <2>2 DEF Line
  <2> QED BY <1>1, <2>3 DEF Reply
<1>2. CASE k \notin KeysOf(s)
  BY <1>2, ResultTypes
<1> QED BY <1>1, <1>2

LEMMA ReadersTyped ==
  ASSUME TypeInv, NEW t \in Thread, UNCHANGED <<acked, before>>,
         ExistOpen(t) \/ ExistScan(t) \/ GetOpen(t) \/ GetScan(t) \/ DelOpen(t)
  PROVE  TypeInv'
<1> USE DEF At
<1>0. /\ UNCHANGED <<dir, content, req, wr, buf>> /\ pc[t] # "idle"
  BY DEF ExistOpen, ExistScan, GetOpen, GetScan, DelOpen
<1>1. ASSUME Exists(Data), NEW l \in {"exist_scan", "get_scan", "del_temp"}, Goto(t, l),
             rd' = [rd EXCEPT ![t] = dir[Data]]
      PROVE  TypeInv'
  <2>1. ControlOK(t) /\ pc'[t] = l
    BY <1>0, <1>1, GotoControl DEF Label
  <2>2. l \notin Writing
    BY DEF Writing
  <2> QED BY <1>0, <1>1, <2>1, <2>2, TypesStay, TypeStep
<1>2. ASSUME ControlOK(t), pc'[t] \in Closed,
             rd' = rd \/ rd' = [rd EXCEPT ![t] = NoInode]
      PROVE  TypeInv'
  <2>1. pc'[t] \notin Reading /\ pc'[t] \notin Writing
    BY <1>2, ClosedLabels
  <2> QED BY <1>0, <1>2, <2>1, TypesStay, TypeStep
<1>3. CASE ExistOpen(t)
  BY <1>0, <1>1, <1>2, <1>3, ExistReturnsControl DEF ExistOpen
<1>4. CASE ExistScan(t)
  <2>1. (req[t].key \in KeysOf(content[rd[t]])) \in BOOLEAN
    OBVIOUS
  <2> QED BY <1>0, <1>2, <1>4, <2>1, ExistReturnsControl DEF ExistScan
<1>5. CASE GetOpen(t)
  BY <1>0, <1>1, <1>2, <1>5, ReturnsControl, ResultTypes, ClosedLabels DEF GetOpen
<1>6. CASE GetScan(t)
  <2>1. content[rd[t]] \in Seq(Line)
    BY <1>6, TypesStay DEF GetScan, Reading
  <2>2. \E x \in Reply : Returns(t, x)
    BY <1>6, <2>1, FoundValue DEF GetScan
  <2> QED BY <1>0, <1>2, <1>6, <2>2, ReturnsControl, ClosedLabels DEF GetScan
<1>7. CASE DelOpen(t)
  BY <1>0, <1>1, <1>2, <1>7, ReturnsControl, ResultTypes, ClosedLabels DEF DelOpen
<1> QED
  BY <1>3, <1>4, <1>5, <1>6, <1>7

\* fopen(., "w") and fopen(., "a").
LEMMA FopensTyped ==
  ASSUME TypeInv, NEW n \in FileName, NEW i \in Inode,
         Truncates(n, i) \/ Appends(n, i)
  PROVE  dir' \in [FileName -> MaybeInode] /\ content' \in [Inode -> Seq(Line)]
<1>1. content \in [Inode -> Seq(Line)] /\ <<>> \in Seq(Line)
  BY DEF TypeInv, ThreadsTypeOK, ClavesTypeOK
<1>2. content[i] \in Seq(Line)
  BY <1>1
<1>3. \E s \in Seq(Line) : content' = [content EXCEPT ![i] = s]
  BY <1>1, <1>2 DEF Truncates, Appends
<1>4. content' \in [Inode -> Seq(Line)]
  BY <1>1, <1>3
<1>5. dir' \in [FileName -> MaybeInode]
  BY DEF TypeInv, ThreadsTypeOK, ClavesTypeOK, Truncates, Appends, MaybeInode
<1> QED
  BY <1>4, <1>5

\* The line that set_value writes.
LEMMA InsertedLine ==
  ASSUME TypeInv, NEW t \in Thread, pc[t] \in {"set_open", "set_flush"}
  PROVE  [key |-> req[t].key, val |-> Printed[req[t].val]] \in Line
<1>1. req[t] \in Request /\ req[t].op \in WriteOp
  BY DEF TypeInv, CallInv, Nested, WriteOp
<1>2. req[t] \in [op : WriteOp, key : Key, val : Value]
  BY <1>1 DEF Request, WriteOp, KeyedOp
<1> QED
  BY <1>2, ValueAssumption DEF Line

LEMMA WritersTyped ==
  ASSUME TypeInv, NEW t \in Thread, UNCHANGED <<acked, before>>,
         Destroy(t) \/ SetOpen(t) \/ SetFlush(t)
  PROVE  TypeInv'
<1> USE DEF At
<1>0. /\ UNCHANGED <<req, rd, buf>> /\ pc[t] # "idle" /\ Data \in FileName
  BY DEF Destroy, SetOpen, SetFlush, FileName
<1>1. ASSUME ControlOK(t), pc'[t] \in Closed,
             wr' = wr \/ wr' = [wr EXCEPT ![t] = NoInode],
             dir' \in [FileName -> MaybeInode], content' \in [Inode -> Seq(Line)]
      PROVE  TypeInv'
  <2>1. pc'[t] \notin Reading /\ pc'[t] \notin Writing
    BY <1>1, ClosedLabels
  <2>2. /\ rd' = [rd EXCEPT ![t] = rd[t]] /\ rd[t] \in MaybeInode
        /\ \E j \in {wr[t], NoInode} : j \in MaybeInode /\ wr' = [wr EXCEPT ![t] = j]
        /\ buf' \in [Thread -> Seq(Line)]
    BY <1>0, <1>1, TypesStay
  <2> QED BY <1>0, <1>1, <2>1, <2>2, TypeStep
<1>2. CASE Destroy(t)
  <2>1. dir' \in [FileName -> MaybeInode] /\ content' \in [Inode -> Seq(Line)]
    BY <1>0, <1>2, FopensTyped, TypesStay DEF Destroy, fileVars
  <2>2. \E x \in Reply : Returns(t, x)
    BY <1>2, ResultTypes DEF Destroy
  <2> QED BY <1>0, <1>1, <1>2, <2>1, <2>2, ReturnsControl, ClosedLabels DEF Destroy
<1>3. CASE SetOpen(t)
  <2>1. CASE /\ \E i \in Inode : Appends(Data, i) /\ wr' = [wr EXCEPT ![t] = i]
             /\ Goto(t, "set_flush")
    <3>1. PICK i \in Inode : Appends(Data, i) /\ wr' = [wr EXCEPT ![t] = i]
      BY <2>1
    <3>2. dir' \in [FileName -> MaybeInode] /\ content' \in [Inode -> Seq(Line)]
      BY <1>0, <3>1, FopensTyped
    <3>3. fn[t] = "set_value"
      BY <1>3 DEF SetOpen, TypeInv, CallInv
    <3>4. ControlOK(t) /\ pc'[t] = "set_flush"
      BY <1>0, <2>1, <3>3, GotoControl DEF Label
    <3>5. "set_flush" \notin Reading
      BY DEF Reading
    <3>6. rd' = [rd EXCEPT ![t] = rd[t]] /\ rd[t] \in MaybeInode /\ i \in MaybeInode
          /\ buf' \in [Thread -> Seq(Line)]
      BY <1>0, TypesStay
    <3> QED BY <1>0, <3>1, <3>2, <3>4, <3>5, <3>6, TypeStep
  <2>2. CASE UNCHANGED <<dir, content, wr>> /\ Returns(t, Result(-1))
    BY <1>0, <1>1, <2>2, TypesStay, ReturnsControl, ResultTypes, ClosedLabels
  <2> QED BY <1>3, <2>1, <2>2 DEF SetOpen
<1>4. CASE SetFlush(t)
  <2> DEFINE l == [key |-> req[t].key, val |-> Printed[req[t].val]]
             i == wr[t]
  <2>1. /\ Writes(i, Append(content[i], l)) /\ dir' = dir
        /\ wr' = [wr EXCEPT ![t] = NoInode] /\ Returns(t, Result(0))
    BY <1>4 DEF SetFlush
  <2>2. i \in Inode /\ l \in Line
    BY <1>4, TypesStay, InsertedLine DEF SetFlush, Writing
  <2> HIDE DEF i, l
  <2>3. content[i] \in Seq(Line) /\ Append(content[i], l) \in Seq(Line)
    BY <2>2, TypesStay, AppendLine
  <2>4. content' \in [Inode -> Seq(Line)]
    BY <2>1, <2>2, <2>3, TypesStay DEF Writes
  <2> QED BY <1>0, <1>1, <2>1, <2>4, TypesStay, ReturnsControl, ResultTypes, ClosedLabels
<1> QED
  BY <1>2, <1>3, <1>4

\* What the copying loop prints are lines.
LEMMA ReprintedLines ==
  ASSUME NEW s \in Seq(Line)
  PROVE  Reprinted(s) \in Seq(Line)
<1>1. DOMAIN s = 1..Len(s) /\ Len(s) \in Nat /\ \A n \in DOMAIN s : s[n] \in Line
  OBVIOUS
<1>2. \A n \in DOMAIN s : [key |-> s[n].key, val |-> Printed[s[n].val]] \in Line
  BY <1>1, ValueAssumption DEF Line
<1> QED
  BY <1>1, <1>2 DEF Reprinted

LEMMA OverlaidLines ==
  ASSUME NEW s \in Seq(Line), NEW new \in Seq(Line)
  PROVE  Overlay(s, new) \in Seq(Line)
<1>1. Len(new) + 1 \in 1..(Len(s) + 1) \/ Len(new) + 1 > Len(s)
  OBVIOUS
<1>2. SubSeq(s, Len(new) + 1, Len(s)) \in Seq(Line)
  BY <1>1
<1> QED
  BY <1>2 DEF Overlay

LEMMA DeleteTyped ==
  ASSUME TypeInv, NEW t \in Thread, UNCHANGED <<acked, before>>,
         DelTemp(t) \/ DelScan(t) \/ DelFlush(t) \/ DelRemove(t) \/ DelRename(t)
  PROVE  TypeInv'
<1> USE DEF At
<1>0. UNCHANGED req /\ pc[t] # "idle" /\ Temp \in FileName /\ Data \in FileName
  BY DEF DelTemp, DelScan, DelFlush, DelRemove, DelRename, FileName
<1>1. CASE DelTemp(t)
  <2>1. CASE /\ \E i \in Inode : Truncates(Temp, i) /\ wr' = [wr EXCEPT ![t] = i]
             /\ Goto(t, "del_scan")
             /\ UNCHANGED rd
    <3>1. PICK i \in Inode : Truncates(Temp, i) /\ wr' = [wr EXCEPT ![t] = i]
      BY <2>1
    <3>2. dir' \in [FileName -> MaybeInode] /\ content' \in [Inode -> Seq(Line)]
      BY <1>0, <3>1, FopensTyped
    <3>3. ControlOK(t)
      BY <1>0, <2>1, GotoControl DEF Label
    <3>4. rd[t] \in Inode /\ UNCHANGED buf
      BY <1>1, TypesStay DEF DelTemp, Reading
    <3> QED BY <2>1, <1>0, <3>1, <3>2, <3>3, <3>4, TypesStay, TypeStep
  <2>2. CASE /\ Returns(t, Result(-1))
             /\ rd' = [rd EXCEPT ![t] = NoInode]
             /\ UNCHANGED <<dir, content, wr>>
    <3>1. ControlOK(t) /\ pc'[t] \notin Reading /\ pc'[t] \notin Writing
      BY <1>0, <2>2, ReturnsControl, ResultTypes, ClosedLabels
    <3>2. UNCHANGED buf
      BY <1>1 DEF DelTemp
    <3> QED BY <1>0, <2>2, <3>1, <3>2, TypesStay, TypeStep
  <2> QED BY <1>1, <2>1, <2>2 DEF DelTemp
<1>2. CASE DelScan(t)
  <2> DEFINE s == content[rd[t]]
             w == Without(s, req[t].key)
  <2>1. s \in Seq(Line) /\ wr[t] \in Inode
    BY <1>2, TypesStay DEF DelScan, Reading, Writing
  <2>2. /\ buf' = [buf EXCEPT ![t] = Reprinted(w)] /\ Goto(t, "del_flush")
        /\ UNCHANGED <<dir, content, wr>> /\ rd' = [rd EXCEPT ![t] = NoInode]
    BY <1>2 DEF DelScan
  <2> HIDE DEF s
  <2>3. w \in Seq(Line)
    BY <2>1, WithoutLines
  <2> HIDE DEF w
  <2>4. Reprinted(w) \in Seq(Line)
    BY <2>3, ReprintedLines
  <2>5. buf' \in [Thread -> Seq(Line)]
    BY <2>2, <2>4, TypesStay
  <2>6. ControlOK(t) /\ pc'[t] \notin Reading
    BY <1>0, <2>2, GotoControl DEF Label, Reading
  <2>7. /\ wr' = [wr EXCEPT ![t] = wr[t]] /\ wr[t] \in MaybeInode /\ NoInode \in MaybeInode
        /\ dir' \in [FileName -> MaybeInode] /\ content' \in [Inode -> Seq(Line)]
    BY <2>2, TypesStay
  <2> QED BY <1>0, <2>1, <2>2, <2>5, <2>6, <2>7, TypeStep
<1>3. CASE DelFlush(t)
  <2> DEFINE i == wr[t]
             s == Overlay(content[i], buf[t])
  <2>1. /\ Writes(i, s) /\ wr' = [wr EXCEPT ![t] = NoInode]
        /\ buf' = [buf EXCEPT ![t] = <<>>] /\ Goto(t, "del_remove")
        /\ UNCHANGED <<dir, rd>>
    BY <1>3 DEF DelFlush
  <2>2. i \in Inode /\ content[i] \in Seq(Line) /\ buf[t] \in Seq(Line)
    BY <1>3, TypesStay DEF DelFlush, Writing
  <2>3. s \in Seq(Line)
    BY <2>2, OverlaidLines
  <2> HIDE DEF i, s
  <2>4. content' \in [Inode -> Seq(Line)] /\ buf' \in [Thread -> Seq(Line)]
    <3>1. content \in [Inode -> Seq(Line)] /\ buf \in [Thread -> Seq(Line)] /\ <<>> \in Seq(Line)
      BY TypesStay
    <3>2. content' = [content EXCEPT ![i] = s] \/ content' = content
      BY <2>1 DEF Writes
    <3> QED BY <2>1, <2>3, <3>1, <3>2
  <2>5. ControlOK(t) /\ pc'[t] \notin Reading /\ pc'[t] \notin Writing
    BY <1>0, <2>1, GotoControl DEF Label, Reading, Writing
  <2>6. /\ rd' = [rd EXCEPT ![t] = rd[t]] /\ rd[t] \in MaybeInode
        /\ dir' \in [FileName -> MaybeInode] /\ NoInode \in MaybeInode
    BY <2>1, TypesStay
  <2> QED BY <1>0, <2>1, <2>4, <2>5, <2>6, TypeStep
<1>4. CASE DelRemove(t)
  <2>1. /\ Goto(t, "del_rename") /\ UNCHANGED <<content, rd, wr, buf>>
        /\ dir' = [dir EXCEPT ![Data] = NoInode]
    BY <1>4 DEF DelRemove
  <2>2. ControlOK(t) /\ pc'[t] \notin Reading /\ pc'[t] \notin Writing
    BY <1>0, <2>1, GotoControl DEF Label, Reading, Writing
  <2>3. dir' \in [FileName -> MaybeInode]
    BY <2>1, TypesStay
  <2>4. /\ rd' = [rd EXCEPT ![t] = rd[t]] /\ rd[t] \in MaybeInode
        /\ wr' = [wr EXCEPT ![t] = wr[t]] /\ wr[t] \in MaybeInode
        /\ content' \in [Inode -> Seq(Line)] /\ buf' \in [Thread -> Seq(Line)]
    BY <2>1, TypesStay
  <2> QED BY <1>0, <2>1, <2>2, <2>3, <2>4, TypeStep
<1>5. CASE DelRename(t)
  <2>1. Returns(t, Result(0)) /\ UNCHANGED <<content, rd, wr, buf>>
    BY <1>5 DEF DelRename
  <2>2. ControlOK(t) /\ pc'[t] \notin Reading /\ pc'[t] \notin Writing
    BY <1>0, <2>1, ReturnsControl, ResultTypes, ClosedLabels
  <2>3. dir' \in [FileName -> MaybeInode]
    BY <1>5, <1>0, TypesStay DEF DelRename
  <2>4. /\ rd' = [rd EXCEPT ![t] = rd[t]] /\ rd[t] \in MaybeInode
        /\ wr' = [wr EXCEPT ![t] = wr[t]] /\ wr[t] \in MaybeInode
        /\ content' \in [Inode -> Seq(Line)] /\ buf' \in [Thread -> Seq(Line)]
    BY <2>1, TypesStay
  <2> QED BY <1>0, <2>1, <2>2, <2>3, <2>4, TypeStep
<1> QED
  BY <1>1, <1>2, <1>3, <1>4, <1>5

LEMMA TypeInit == ThreadsInit => TypeInv
<1> SUFFICES ASSUME ThreadsInit PROVE TypeInv
  OBVIOUS
<1>1. Result(0) \in Reply /\ <<>> \in Seq(Line)
  BY ResultTypes
<1>2. ThreadsTypeOK
  BY <1>1 DEF ThreadsInit, ClavesInit, ThreadsTypeOK, ClavesTypeOK, Label, NoRequest
<1>3. \A t \in Thread : /\ CallInv(t)
                        /\ pc[t] \notin Reading /\ pc[t] \notin Writing
  BY DEF ThreadsInit, ClavesInit, CallInv, NoRequest, Reading, Writing
<1> QED
  BY <1>2, <1>3 DEF TypeInv

\* The beginning and the end of a call.
LEMMA CallTyped ==
  ASSUME TypeInv, NEW t \in Thread, NEW r \in Request, Call(t, r)
  PROVE  TypeInv'
<1>1. /\ pc' = [pc EXCEPT ![t] = Entry(r.op)] /\ req' = [req EXCEPT ![t] = r]
      /\ fn' = [fn EXCEPT ![t] = r.op] /\ before' = [before EXCEPT ![t] = Lines]
      /\ UNCHANGED <<dir, content, rd, wr, buf, ret>> /\ acked' \in SUBSET acked
  BY DEF Call, Begin
<1>2. Lines \in Seq(Line)
  BY TypesStay DEF Lines
<1>3. Entry(r.op) \in Label \ {"set_open", "set_flush"}
      /\ Entry(r.op) \notin Reading /\ Entry(r.op) \notin Writing
  BY DEF Entry, Label, Reading, Writing
<1>4. r.op \in Op
  BY DEF Request, Op
<1>5. ThreadsTypeOK'
  BY <1>1, <1>2, <1>3, <1>4 DEF TypeInv, ThreadsTypeOK, ClavesTypeOK
<1>6. CallInv(t)' /\ pc'[t] \notin Reading /\ pc'[t] \notin Writing
  BY <1>1, <1>3 DEF TypeInv, ThreadsTypeOK, ClavesTypeOK, CallInv
<1>7. \A u \in Thread \ {t} : CallInv(u)' /\ pc'[u] = pc[u] /\ rd'[u] = rd[u] /\ wr'[u] = wr[u]
  BY <1>1 DEF TypeInv, CallInv, Nested
<1> QED
  BY <1>5, <1>6, <1>7 DEF TypeInv

LEMMA ReturnTyped ==
  ASSUME TypeInv, NEW t \in Thread, Return(t)
  PROVE  TypeInv'
<1> DEFINE l == [key |-> req[t].key, val |-> Printed[req[t].val]]
<1>1. /\ pc[t] = "done" /\ pc' = [pc EXCEPT ![t] = "idle"]
      /\ req' = [req EXCEPT ![t] = NoRequest] /\ fn' = [fn EXCEPT ![t] = "none"]
      /\ ret' = [ret EXCEPT ![t] = Result(0)] /\ before' = [before EXCEPT ![t] = <<>>]
      /\ UNCHANGED <<dir, content, rd, wr, buf>>
      /\ acked' = acked \/ (req[t].op = "set_value" /\ acked' = acked \cup {l})
  BY DEF Return, End, At
<1>2. acked' \subseteq Line
  <2>1. CASE acked' = acked
    BY <2>1 DEF TypeInv, ThreadsTypeOK
  <2>2. CASE req[t].op = "set_value" /\ acked' = acked \cup {l}
    <3>1. req[t] \in Request
      BY <1>1 DEF TypeInv, CallInv
    <3>2. req[t] \in [op : WriteOp, key : Key, val : Value]
      BY <2>2, <3>1 DEF Request, KeyedOp
    <3>3. l \in Line
      BY <3>2, ValueAssumption DEF Line
    <3> QED BY <2>2, <3>3 DEF TypeInv, ThreadsTypeOK
  <2> QED BY <1>1, <2>1, <2>2
<1> HIDE DEF l
<1>3. Result(0) \in Reply /\ <<>> \in Seq(Line) /\ "idle" \in Label
  BY ResultTypes DEF Label
<1>4. ThreadsTypeOK'
  BY <1>1, <1>2, <1>3 DEF TypeInv, ThreadsTypeOK, ClavesTypeOK
<1>5. CallInv(t)' /\ pc'[t] \notin Reading /\ pc'[t] \notin Writing
  BY <1>1 DEF TypeInv, ThreadsTypeOK, ClavesTypeOK, CallInv, NoRequest, Reading, Writing
<1>6. \A u \in Thread \ {t} : CallInv(u)' /\ pc'[u] = pc[u] /\ rd'[u] = rd[u] /\ wr'[u] = wr[u]
  BY <1>1 DEF TypeInv, CallInv, Nested
<1> QED
  BY <1>4, <1>5, <1>6 DEF TypeInv

LEMMA TypeNext == TypeInv /\ [ThreadsNext]_threadsVars => TypeInv'
<1> SUFFICES ASSUME TypeInv, [ThreadsNext]_threadsVars PROVE TypeInv'
  OBVIOUS
<1>1. ASSUME NEW t \in Thread, NEW r \in Request, Call(t, r) PROVE TypeInv'
  BY <1>1, CallTyped
<1>2. ASSUME NEW t \in Thread, Step(t) PROVE TypeInv'
  BY <1>2, ReadersTyped, WritersTyped, DeleteTyped DEF Step, ClavesStep
<1>3. ASSUME NEW t \in Thread, Return(t) PROVE TypeInv'
  BY <1>3, ReturnTyped
<1>4. CASE UNCHANGED threadsVars
  BY <1>4 DEF threadsVars, TypeInv, ThreadsTypeOK, ClavesTypeOK, CallInv, Nested
<1> QED
  BY <1>1, <1>2, <1>3, <1>4 DEF ThreadsNext

LEMMA TypeInvariant == ThreadsSpec => []TypeInv
BY TypeInit, TypeNext, PTL DEF ThreadsSpec

\* However the calls of any number of threads interleave, and whichever fopen
\* or write fails, the files hold lines of the format and every call that
\* returns does so with a result of claves.h.
THEOREM ThreadsTypeCorrect == ThreadsSpec => []ThreadsTypeOK
<1>1. TypeInv => ThreadsTypeOK
  BY DEF TypeInv
<1> QED
  BY TypeInvariant, <1>1, PTL

-----------------------------------------------------------------------------
(* AckedTuplesStay, when no call removes a tuple.  data.txt is then one    *)
(* file for ever, that grows: whoever has it open for appending has that   *)
(* file, and the line of a call that is about to return 0 is on it.        *)

Additive == {"set_value", "get_value", "exist"}

OnFile(l) == \E n \in DOMAIN Lines : Lines[n] = l

\* The line of the call of t.
Own(t) == [key |-> req[t].key, val |-> Printed[req[t].val]]

\* Where a call may be, and in which function.
PlaceOK(t) ==
  /\ fn[t] = req[t].op
  /\ \/ pc[t] = "idle"
     \/ fn[t] \in Additive /\ pc[t] \in {"exist_open", "exist_scan", "done"}
     \/ fn[t] = "get_value" /\ pc[t] \in {"get_open", "get_scan"}
     \/ fn[t] = "set_value" /\ pc[t] \in {"set_open", "set_flush"}

AppendOK(t) ==
  /\ wr[t] # NoInode => wr[t] = dir[Data]
  /\ pc[t] = "done" /\ req[t].op = "set_value" /\ ret[t].res = 0 => OnFile(Own(t))

AckedInv ==
  /\ \A t \in Thread : PlaceOK(t) /\ AppendOK(t)
  /\ \A l \in acked : OnFile(l)

\* A step of t that takes no line from data.txt, nor the file from another
\* thread that appends to it.
LEMMA AckedStep ==
  ASSUME AckedInv, NEW t \in Thread, UNCHANGED <<req, acked>>,
         \A u \in Thread \ {t} : /\ pc'[u] = pc[u] /\ fn'[u] = fn[u] /\ ret'[u] = ret[u]
                                 /\ wr'[u] = wr[u]
                                 /\ wr[u] # NoInode => dir'[Data] = dir[Data],
         \A l : OnFile(l) => OnFile(l)',
         PlaceOK(t)', AppendOK(t)'
  PROVE  AckedInv'
<1>1. ASSUME NEW u \in Thread \ {t}
      PROVE  PlaceOK(u)' /\ AppendOK(u)'
  <2>1. PlaceOK(u) /\ AppendOK(u)
    BY DEF AckedInv
  <2>2. Own(u)' = Own(u)
    BY DEF Own
  <2>3. PlaceOK(u)'
    BY <2>1 DEF PlaceOK
  <2>4. AppendOK(u)'
    BY <2>1, <2>2 DEF AppendOK
  <2> QED BY <2>3, <2>4
<1>2. \A l \in acked' : OnFile(l)'
  BY DEF AckedInv
<1> QED
  BY <1>1, <1>2 DEF AckedInv

\* None of these functions calls another one but exist.
LEMMA AdditiveReturns ==
  ASSUME TypeInv, AckedInv, NEW t \in Thread, pc[t] # "idle", NEW x, Returns(t, x)
  PROVE  pc' = [pc EXCEPT ![t] = "done"] /\ ret' = [ret EXCEPT ![t] = x] /\ fn' = fn
<1>1. PlaceOK(t)
  BY DEF AckedInv
<1>2. req[t].op # "modify_value"
  BY <1>1 DEF PlaceOK, Additive
<1> QED
  BY <1>2 DEF Returns

\* The steps that only read: they return 0 to nobody who inserts.
LEMMA AckedReaders ==
  ASSUME TypeInv, AckedInv, NEW t \in Thread, UNCHANGED acked,
         ExistOpen(t) \/ ExistScan(t) \/ GetOpen(t) \/ GetScan(t)
  PROVE  AckedInv'
<1> USE DEF At
<1>1. UNCHANGED <<dir, content, req, wr>> /\ pc[t] # "idle"
  BY DEF ExistOpen, ExistScan, GetOpen, GetScan
<1>2. PlaceOK(t) /\ AppendOK(t) /\ fn[t] \in Additive
  BY <1>1 DEF AckedInv, PlaceOK, Additive
<1>3. pc \in [Thread -> Label] /\ ret \in [Thread -> Reply]
  BY DEF TypeInv, ThreadsTypeOK, ClavesTypeOK
<1>4. \A l : OnFile(l)' <=> OnFile(l)
  BY <1>1 DEF OnFile, Lines, Exists
<1>5. ASSUME NEW x, Returns(t, x), fn[t] = "set_value" => x.res = -1
      PROVE  AckedInv'
  <2>1. pc' = [pc EXCEPT ![t] = "done"] /\ ret' = [ret EXCEPT ![t] = x] /\ fn' = fn
    BY <1>1, <1>5, AdditiveReturns
  <2>2. PlaceOK(t)' /\ AppendOK(t)'
    BY <1>1, <1>2, <1>3, <1>5, <2>1 DEF PlaceOK, AppendOK
  <2> QED BY <1>1, <1>3, <1>4, <2>1, <2>2, AckedStep
<1>6. ASSUME NEW l \in {"exist_scan", "get_open", "get_scan", "set_open"}, Goto(t, l),
             l \in {"get_open", "get_scan"} => fn[t] = "get_value",
             l = "set_open" => fn[t] = "set_value"
      PROVE  AckedInv'
  <2>1. pc' = [pc EXCEPT ![t] = l] /\ ret' = ret /\ fn' = fn
    BY <1>6 DEF Goto
  <2>2. PlaceOK(t)' /\ AppendOK(t)'
    BY <1>1, <1>2, <1>3, <1>6, <2>1 DEF PlaceOK, AppendOK
  <2> QED BY <1>1, <1>3, <1>4, <2>1, <2>2, AckedStep
<1>7. ASSUME NEW found, ExistReturns(t, found)
      PROVE  AckedInv'
  <2>1. \/ Goto(t, "get_open") /\ fn[t] = "get_value"
        \/ Goto(t, "set_open") /\ fn[t] = "set_value"
        \/ \E n : Returns(t, Result(n)) /\ (fn[t] = "set_value" => n = -1)
    BY <1>2, <1>7 DEF ExistReturns, Additive
  <2>2. \A n : Result(n).res = n
    BY DEF Result
  <2> QED BY <1>5, <1>6, <2>1, <2>2
<1>8. CASE ExistOpen(t) \/ ExistScan(t)
  BY <1>6, <1>7, <1>8 DEF ExistOpen, ExistScan
<1>9. CASE GetOpen(t) \/ GetScan(t)
  <2>1. fn[t] = "get_value"
    BY <1>2, <1>9 DEF PlaceOK, GetOpen, GetScan
  <2>2. Goto(t, "get_scan") \/ \E x : Returns(t, x)
    BY <1>9 DEF GetOpen, GetScan
  <2> QED BY <1>5, <1>6, <2>1, <2>2
<1> QED
  BY <1>8, <1>9

\* fopen(., "a") makes data.txt or leaves it as it is.
LEMMA AckedSetOpen ==
  ASSUME Faults = FALSE, TypeInv, AckedInv, NEW t \in Thread, UNCHANGED acked, SetOpen(t)
  PROVE  AckedInv'
<1>1. /\ pc[t] = "set_open" /\ pc' = [pc EXCEPT ![t] = "set_flush"]
      /\ UNCHANGED <<fn, ret, req>>
  BY DEF SetOpen, Goto, At
<1>2. PICK i \in Inode : Appends(Data, i) /\ wr' = [wr EXCEPT ![t] = i]
  BY DEF SetOpen
<1>3. /\ pc \in [Thread -> Label] /\ wr \in [Thread -> MaybeInode]
      /\ dir \in [FileName -> MaybeInode] /\ Data \in FileName
      /\ content \in [Inode -> Seq(Line)]
  BY DEF TypeInv, ThreadsTypeOK, ClavesTypeOK, MaybeInode, FileName
<1>4. PlaceOK(t) /\ fn[t] = "set_value"
  BY <1>1 DEF AckedInv, PlaceOK, Additive
<1>5. dir'[Data] = i /\ (Exists(Data) => dir[Data] = i /\ content' = content)
  BY <1>2, <1>3 DEF Appends, Opened
<1>6. \A u \in Thread : wr[u] # NoInode => dir'[Data] = dir[Data]
  BY <1>5 DEF AckedInv, AppendOK, Exists
<1>7. i # NoInode
  BY <1>2, ClavesAssumption
<1>8. \A l : OnFile(l) => OnFile(l)'
  BY <1>5, <1>7 DEF OnFile, Lines, Exists
<1>9. PlaceOK(t)' /\ AppendOK(t)'
  BY <1>1, <1>2, <1>3, <1>4, <1>5 DEF PlaceOK, AppendOK
<1> QED
  BY <1>1, <1>2, <1>3, <1>6, <1>8, <1>9, AckedStep

\* The line goes where the file ends, after all the others.
LEMMA AckedSetFlush ==
  ASSUME Faults = FALSE, TypeInv, AckedInv, NEW t \in Thread, UNCHANGED acked, SetFlush(t)
  PROVE  AckedInv'
<1> DEFINE i == wr[t]
<1>1. /\ pc[t] = "set_flush" /\ UNCHANGED <<dir, req>> /\ Returns(t, Result(0))
      /\ wr' = [wr EXCEPT ![t] = NoInode]
      /\ content' = [content EXCEPT ![i] = Append(content[i], Own(t))]
  BY DEF SetFlush, At, Writes, Own
<1>2. /\ pc' = [pc EXCEPT ![t] = "done"] /\ ret' = [ret EXCEPT ![t] = Result(0)]
      /\ fn' = fn
  BY <1>1, AdditiveReturns
<1>3. /\ pc \in [Thread -> Label] /\ wr \in [Thread -> MaybeInode]
      /\ ret \in [Thread -> Reply] /\ content \in [Inode -> Seq(Line)]
  BY DEF TypeInv, ThreadsTypeOK, ClavesTypeOK, MaybeInode
<1>4. i \in Inode
  BY <1>1 DEF TypeInv, Writing
<1>5. dir[Data] = i /\ Exists(Data)
  BY <1>4, ClavesAssumption DEF AckedInv, AppendOK, Exists
<1>6. Lines = content[i] /\ Lines' = Append(content[i], Own(t)) /\ content[i] \in Seq(Line)
  BY <1>1, <1>3, <1>4, <1>5 DEF Lines, Exists
<1>7. Own(t) \in Line
  BY <1>1, InsertedLine DEF Own
<1>8. (\A l : OnFile(l) => OnFile(l)') /\ OnFile(Own(t))'
  <2> DEFINE s == content[i]
             own == Own(t)
  <2>1. s \in Seq(Line) /\ Lines = s /\ Lines' = Append(s, own)
    BY <1>6
  <2> HIDE DEF s, own
  <2>2. /\ DOMAIN s = 1..Len(s) /\ Len(s) \in Nat
        /\ DOMAIN Append(s, own) = 1..(Len(s) + 1)
        /\ \A n \in 1..Len(s) : Append(s, own)[n] = s[n]
        /\ Append(s, own)[Len(s) + 1] = own
    BY <2>1
  <2>3. \A l : OnFile(l) => OnFile(l)'
    BY <2>1, <2>2 DEF OnFile
  <2>4. \E n \in DOMAIN Lines' : Lines'[n] = own
    BY <2>1, <2>2
  <2>5. own' = own
    BY <1>1 DEF own, Own
  <2> QED BY <2>3, <2>4, <2>5 DEF OnFile, own
<1>9. PlaceOK(t) /\ fn[t] = "set_value"
  BY <1>1 DEF AckedInv, PlaceOK, Additive
<1>10. PlaceOK(t)' /\ AppendOK(t)'
  BY <1>1, <1>2, <1>3, <1>8, <1>9 DEF PlaceOK, AppendOK, Additive
<1> HIDE DEF i
<1> QED
  BY <1>1, <1>2, <1>3, <1>8, <1>10, AckedStep

LEMMA AckedNext ==
  ASSUME Faults = FALSE, Calls \cap {"destroy", "delete_key", "modify_value"} = {},
         TypeInv, AckedInv, [ThreadsNext]_threadsVars
  PROVE  AckedInv'
<1>1. ASSUME NEW t \in Thread, NEW r \in Request, Call(t, r) PROVE AckedInv'
  <2>1. /\ pc' = [pc EXCEPT ![t] = Entry(r.op)] /\ req' = [req EXCEPT ![t] = r]
        /\ fn' = [fn EXCEPT ![t] = r.op] /\ acked' \in SUBSET acked
        /\ UNCHANGED <<dir, content, rd, wr, buf, ret>>
    BY <1>1 DEF Call, Begin
  <2>2. r.op \in Additive
    <3>1. r.op \in Op /\ r.op \in Calls
      BY <1>1 DEF Request, Call, Op
    <3> QED BY <3>1 DEF Op, KeyedOp, WriteOp, Additive
  <2>3. Entry(r.op) = "exist_open" \/ (r.op = "get_value" /\ Entry(r.op) = "get_open")
    BY <2>2, Zenon DEF Entry, Additive
  <2>4. /\ pc \in [Thread -> Label] /\ fn \in [Thread -> Op \cup {"none"}]
        /\ req \in [Thread -> Request \cup {NoRequest}]
    BY DEF TypeInv, ThreadsTypeOK, ClavesTypeOK
  <2>5. \A l : OnFile(l)' <=> OnFile(l)
    BY <2>1 DEF OnFile, Lines, Exists
  <2>6. PlaceOK(t)' /\ AppendOK(t)'
    BY <2>1, <2>2, <2>3, <2>4 DEF AckedInv, PlaceOK, AppendOK
  <2>7. ASSUME NEW u \in Thread \ {t} PROVE PlaceOK(u)' /\ AppendOK(u)'
    <3>1. PlaceOK(u) /\ AppendOK(u) /\ Own(u)' = Own(u)
      BY <2>1 DEF AckedInv, Own
    <3>2. PlaceOK(u)'
      BY <2>1, <3>1 DEF PlaceOK
    <3>3. AppendOK(u)'
      BY <2>1, <2>5, <3>1 DEF AppendOK
    <3> QED BY <3>2, <3>3
  <2> QED BY <2>1, <2>5, <2>6, <2>7 DEF AckedInv
<1>2. ASSUME NEW t \in Thread, Step(t) PROVE AckedInv'
  <2>1. ~(Destroy(t) \/ DelOpen(t) \/ DelTemp(t) \/ DelScan(t)
          \/ DelFlush(t) \/ DelRemove(t) \/ DelRename(t))
    BY DEF AckedInv, PlaceOK, Destroy, DelOpen, DelTemp, DelScan, DelFlush, DelRemove,
           DelRename, At
  <2> QED
    BY <1>2, <2>1, AckedReaders, AckedSetOpen, AckedSetFlush DEF Step, ClavesStep
<1>3. ASSUME NEW t \in Thread, Return(t) PROVE AckedInv'
  <2>1. /\ pc[t] = "done" /\ pc' = [pc EXCEPT ![t] = "idle"]
        /\ req' = [req EXCEPT ![t] = NoRequest] /\ fn' = [fn EXCEPT ![t] = "none"]
        /\ UNCHANGED <<dir, content, rd, wr, buf>>
        /\ ret' = [ret EXCEPT ![t] = Result(0)]
        /\ \/ acked' = acked
           \/ req[t].op = "set_value" /\ ret[t].res = 0 /\ acked' = acked \cup {Own(t)}
    BY <1>3 DEF Return, End, At, Own
  <2>2. /\ pc \in [Thread -> Label] /\ fn \in [Thread -> Op \cup {"none"}]
        /\ req \in [Thread -> Request \cup {NoRequest}] /\ ret \in [Thread -> Reply]
    BY DEF TypeInv, ThreadsTypeOK, ClavesTypeOK
  <2>3. \A l : OnFile(l)' <=> OnFile(l)
    BY <2>1 DEF OnFile, Lines, Exists
  <2>4. PlaceOK(t)' /\ AppendOK(t)'
    BY <2>1, <2>2 DEF AckedInv, PlaceOK, AppendOK, NoRequest
  <2>5. ASSUME NEW u \in Thread \ {t} PROVE PlaceOK(u)' /\ AppendOK(u)'
    <3>1. PlaceOK(u) /\ AppendOK(u) /\ Own(u)' = Own(u)
      BY <2>1 DEF AckedInv, Own
    <3>2. PlaceOK(u)'
      BY <2>1, <3>1 DEF PlaceOK
    <3>3. AppendOK(u)'
      BY <2>1, <2>3, <3>1 DEF AppendOK
    <3> QED BY <3>2, <3>3
  <2>6. \A l \in acked' : OnFile(l)'
    BY <2>1, <2>3 DEF AckedInv, AppendOK
  <2> QED BY <2>4, <2>5, <2>6 DEF AckedInv
<1>4. CASE UNCHANGED threadsVars
  BY <1>4 DEF threadsVars, AckedInv, PlaceOK, AppendOK, OnFile, Own, Lines, Exists
<1> QED
  BY <1>1, <1>2, <1>3, <1>4 DEF ThreadsNext

\* claves.c takes no lock.  As long as no call removes or changes a tuple, and
\* no fopen or write fails, none that set_value has acknowledged is lost,
\* whatever the number of threads that insert at the same time (with a
\* delete_key among them one can be: the run threads_deletes).
THEOREM InsertionsStay ==
  ASSUME Faults = FALSE, Calls \cap {"destroy", "delete_key", "modify_value"} = {}
  PROVE  ThreadsSpec => []AckedTuplesStay
<1>1. ThreadsInit => AckedInv
  BY DEF ThreadsInit, ClavesInit, AckedInv, PlaceOK, AppendOK, NoRequest
<1>2. TypeInv /\ AckedInv /\ [ThreadsNext]_threadsVars => AckedInv'
  BY AckedNext
<1>3. AckedInv => AckedTuplesStay
  BY DEF AckedInv, AckedTuplesStay, OnFile
<1> QED
  BY TypeInvariant, <1>1, <1>2, <1>3, PTL DEF ThreadsSpec
=============================================================================
