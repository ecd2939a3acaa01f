------------------------- MODULE ServidorRpc_proofs -------------------------
(***************************************************************************)
(* Proofs about ServidorRpc for every set of clients, connections, keys    *)
(* and values, any number of dispatchers and of crashes.                   *)
(*                                                                         *)
(* The argument for IInv: a step of claves.c is taken by the holder of m,  *)
(* every other thread is idle and has no stream open, so what the holder   *)
(* found in the files (FrameOK) is still so at its next step; data.txt     *)
(* then gets a new line only with a key it does not hold, and is replaced  *)
(* only by a copy of itself without some lines.                            *)
(***************************************************************************)
EXTENDS ServidorRpc, DataFile_proofs

-----------------------------------------------------------------------------
(* Control: what Returns, Goto and ExistReturns do to pc, fn and ret.      *)

\* The step of thread t leaves the other threads alone, and t in a place
\* that its call leads to.
ControlOK(t) ==
  /\ pc' \in [Thread -> Label]
  /\ fn' \in [Thread -> Op \cup {"none"}]
  /\ ret' \in [Thread -> Reply]
  /\ \A u \in Thread \ {t} : pc'[u] = pc[u] /\ fn'[u] = fn[u]
  /\ CallOK(t)'

\* A function of claves.c that returns leads to the caller, or to set_value
\* inside modify_value.
LEMMA ReturnsControl ==
  ASSUME TypeOK, NEW t \in Thread, CallOK(t), UNCHANGED req,
         NEW x \in Reply, Returns(t, x)
  PROVE  ControlOK(t) /\ pc'[t] \in {"exist_open", "done"}
<1>1. CASE req[t].op = "modify_value" /\ fn[t] = "delete_key"
  BY <1>1 DEF TypeOK, ClavesTypeOK, Returns, ControlOK, CallOK, Label, Op, WriteOp
<1>2. CASE ~(req[t].op = "modify_value" /\ fn[t] = "delete_key")
  <2>1. Result(0) \in Reply
    BY DEF Result, Reply
  <2>2. /\ pc' = [pc EXCEPT ![t] = "done"] /\ fn' = fn
        /\ \E y \in Reply : ret' = [ret EXCEPT ![t] = y]
    BY <1>2, <2>1 DEF Returns
  <2>3. /\ pc' \in [Thread -> Label] /\ pc'[t] = "done"
        /\ \A u \in Thread \ {t} : pc'[u] = pc[u] /\ fn'[u] = fn[u]
    BY <2>2 DEF TypeOK, ClavesTypeOK, Label
  <2>4. ret' \in [Thread -> Reply] /\ fn' \in [Thread -> Op \cup {"none"}]
    BY <2>2 DEF TypeOK, ClavesTypeOK
  <2> QED
    BY <2>2, <2>3, <2>4 DEF ControlOK, CallOK
<1> QED
  BY <1>1, <1>2

LEMMA GotoControl ==
  ASSUME TypeOK, NEW t \in Thread, CallOK(t), UNCHANGED req,
         NEW l \in Label, Goto(t, l),
         l \in {"set_open", "set_flush"} => fn[t] = "set_value"
  PROVE  ControlOK(t) /\ pc'[t] = l
BY DEF TypeOK, ClavesTypeOK, Goto, ControlOK, CallOK

\* After exist, set_value goes on to its append only if the key was not found.
LEMMA ExistReturnsControl ==
  ASSUME TypeOK, NEW t \in Thread, CallOK(t), UNCHANGED req,
         NEW found \in BOOLEAN, ExistReturns(t, found)
  PROVE  /\ ControlOK(t)
         /\ pc'[t] \in {"exist_open", "done", "get_open", "set_open", "del_open"}
         /\ pc'[t] = "set_open" => ~found
<1>1. \A n \in {-1, 0, 1} : Result(n) \in Reply
  BY DEF Result, Reply
<1>2. {"get_open", "set_open", "del_open"} \subseteq Label
  BY DEF Label
<1>3. CASE fn[t] = "exist"
  <2>1. Returns(t, Result(IF found THEN 1 ELSE 0))
    BY <1>3 DEF ExistReturns
  <2> QED BY <1>1, <2>1, ReturnsControl
<1>4. CASE fn[t] = "get_value"
  <2>1. IF found THEN Goto(t, "get_open") ELSE Returns(t, Result(-1))
    BY <1>4 DEF ExistReturns
  <2> QED BY <1>1, <1>2, <2>1, ReturnsControl, GotoControl
<1>5. CASE fn[t] = "set_value"
  <2>1. IF found THEN Returns(t, Result(-1)) ELSE Goto(t, "set_open")
    BY <1>5 DEF ExistReturns
  <2> QED BY <1>1, <1>2, <1>5, <2>1, ReturnsControl, GotoControl
<1>6. CASE fn[t] = "delete_key"
  <2>1. IF found THEN Goto(t, "del_open") ELSE Returns(t, Result(-1))
    BY <1>6 DEF ExistReturns
  <2> QED BY <1>1, <1>2, <2>1, ReturnsControl, GotoControl
<1>7. CASE fn[t] = "modify_value"
  <2>1. CASE found
    BY <1>7, <2>1 DEF ExistReturns, TypeOK, ClavesTypeOK, ControlOK, CallOK, Label, Op, KeyedOp
  <2>2. CASE ~found
    <3>1. Returns(t, Result(-1))
      BY <1>7, <2>2 DEF ExistReturns
    <3> QED BY <1>1, <3>1, ReturnsControl
  <2> QED BY <2>1, <2>2
<1> QED
  BY <1>3, <1>4, <1>5, <1>6, <1>7 DEF ExistReturns

-----------------------------------------------------------------------------
(* The frame of the step: all that a step of the holder of m can disturb.  *)

\* Only the holder of m is inside claves.c or has a stream open.
LEMMA OthersIdle ==
  ASSUME IInv, NEW t \in Thread, stage[t] = "locked", NEW u \in Thread \ {t}
  PROVE  /\ m = t /\ stage[u] # "locked"
         /\ pc[u] = "idle" /\ rd[u] = NoInode /\ wr[u] = NoInode
BY DEF IInv, MutexInv, FrameOK, Reading, Copying

\* So a step of the holder that leaves its own frame and the files in order
\* preserves the invariant.
LEMMA HolderStep ==
  ASSUME IInv, NEW t \in Thread, stage[t] = "locked", UNCHANGED rpcVars,
         ControlOK(t), req' = req,
         dir' \in [FileName -> Inode \cup {NoInode}],
         content' \in [Inode -> Seq(Line)],
         rd' \in [Thread -> Inode \cup {NoInode}],
         wr' \in [Thread -> Inode \cup {NoInode}],
         buf' \in [Thread -> Seq(Line)],
         \A u \in Thread \ {t} : rd'[u] = rd[u] /\ wr'[u] = wr[u],
         FrameOK(t)', TwoFiles', NoDuplicateKeys'
  PROVE  IInv'
<1>1. TypeOK'
  BY DEF IInv, TypeOK, ClavesTypeOK, ControlOK, rpcVars
<1>2. MutexInv'
  BY OthersIdle DEF IInv, MutexInv, ControlOK, rpcVars
<1>3. ASSUME NEW u \in Thread \ {t}
      PROVE  CallOK(u)' /\ FrameOK(u)'
  <2>1. pc'[u] = "idle" /\ fn'[u] = fn[u] /\ req'[u] = req[u]
        /\ rd'[u] = NoInode /\ wr'[u] = NoInode
    BY OthersIdle DEF ControlOK
  <2>2. CallOK(u)
    BY DEF IInv
  <2> QED
    BY <2>1, <2>2 DEF CallOK, FrameOK, Reading, Copying, Replacing
<1>4. CallOK(t)'
  BY DEF ControlOK
<1> QED
  BY <1>1, <1>2, <1>3, <1>4 DEF IInv

-----------------------------------------------------------------------------
(* One lemma per step of claves.c.                                         *)

LEMMA ExistOpenStep ==
  ASSUME Faults = FALSE, IInv, NEW t \in Thread, stage[t] = "locked",
         UNCHANGED rpcVars, ExistOpen(t)
  PROVE  IInv'
<1>1. TypeOK /\ ClavesTypeOK /\ CallOK(t) /\ FrameOK(t) /\ TwoFiles /\ NoDuplicateKeys
  BY DEF IInv, TypeOK
<1>2. /\ pc[t] = "exist_open" /\ dir' = dir /\ content' = content /\ req' = req
      /\ wr' = wr /\ buf' = buf
  BY DEF ExistOpen, At
<1>3. rd[t] = NoInode /\ wr[t] = NoInode
  BY <1>1, <1>2 DEF FrameOK, Reading, Copying
<1>4. CASE /\ Exists(Data) /\ rd' = [rd EXCEPT ![t] = dir[Data]]
           /\ Goto(t, "exist_scan")
  <2>1. ControlOK(t) /\ pc'[t] = "exist_scan"
    BY <1>1, <1>2, <1>4, GotoControl DEF Label
  <2>2. /\ rd' \in [Thread -> Inode \cup {NoInode}] /\ rd'[t] = dir[Data]
        /\ \A u \in Thread \ {t} : rd'[u] = rd[u]
    BY <1>1, <1>4 DEF ClavesTypeOK, FileName
  <2>3. FrameOK(t)'
    BY <1>2, <1>3, <1>4, <2>1, <2>2 DEF FrameOK, Exists, Reading, Copying, Replacing
  <2>4. TwoFiles' /\ NoDuplicateKeys'
    BY <1>1, <1>2 DEF TwoFiles, NoDuplicateKeys, Exists
  <2> QED
    BY <1>1, <1>2, <2>1, <2>2, <2>3, <2>4, HolderStep DEF ClavesTypeOK
<1>5. CASE /\ ~Exists(Data) /\ rd' = rd
           /\ ExistReturns(t, FALSE)
  <2>1. /\ ControlOK(t)
        /\ pc'[t] \in {"exist_open", "done", "get_open", "set_open", "del_open"}
    BY <1>1, <1>2, <1>5, ExistReturnsControl
  <2>2. FrameOK(t)'
    BY <1>2, <1>3, <1>5, <2>1 DEF FrameOK, Exists, Reading, Copying, Replacing
  <2>3. TwoFiles' /\ NoDuplicateKeys'
    BY <1>1, <1>2 DEF TwoFiles, NoDuplicateKeys, Exists
  <2> QED
    BY <1>1, <1>2, <1>5, <2>1, <2>2, <2>3, HolderStep DEF ClavesTypeOK
<1> QED
  BY <1>4, <1>5 DEF ExistOpen

LEMMA ExistScanStep ==
  ASSUME IInv, NEW t \in Thread, stage[t] = "locked",
         UNCHANGED rpcVars, ExistScan(t)
  PROVE  IInv'
<1>1. TypeOK /\ ClavesTypeOK /\ CallOK(t) /\ FrameOK(t) /\ TwoFiles /\ NoDuplicateKeys
  BY DEF IInv, TypeOK
<1>2. /\ pc[t] = "exist_scan" /\ dir' = dir /\ content' = content /\ req' = req
      /\ wr' = wr /\ buf' = buf /\ rd' = [rd EXCEPT ![t] = NoInode]
  BY DEF ExistScan, At
<1>3. rd[t] = dir[Data] /\ wr[t] = NoInode
  BY <1>1, <1>2 DEF FrameOK, Reading, Copying
<1> DEFINE found == req[t].key \in KeysOf(content[dir[Data]])
<1>4. /\ ControlOK(t)
      /\ pc'[t] \in {"exist_open", "done", "get_open", "set_open", "del_open"}
      /\ pc'[t] = "set_open" => ~found
  <2>1. ExistReturns(t, found) /\ found \in BOOLEAN
    BY <1>3 DEF ExistScan
  <2> HIDE DEF found
  <2> QED
    BY <1>1, <1>2, <2>1, ExistReturnsControl
<1>5. /\ rd' \in [Thread -> Inode \cup {NoInode}] /\ rd'[t] = NoInode
      /\ \A u \in Thread \ {t} : rd'[u] = rd[u]
  BY <1>1, <1>2 DEF ClavesTypeOK
<1>6. FrameOK(t)'
  BY <1>2, <1>3, <1>4, <1>5 DEF FrameOK, Exists, Reading, Copying, Replacing
<1>7. TwoFiles' /\ NoDuplicateKeys'
  BY <1>1, <1>2 DEF TwoFiles, NoDuplicateKeys, Exists
<1> QED
  BY <1>1, <1>2, <1>4, <1>5, <1>6, <1>7, HolderStep DEF ClavesTypeOK

LEMMA GetOpenStep ==
  ASSUME Faults = FALSE, IInv, NEW t \in Thread, stage[t] = "locked",
         UNCHANGED rpcVars, GetOpen(t)
  PROVE  IInv'
<1>1. TypeOK /\ ClavesTypeOK /\ CallOK(t) /\ FrameOK(t) /\ TwoFiles /\ NoDuplicateKeys
  BY DEF IInv, TypeOK
<1>2. /\ pc[t] = "get_open" /\ dir' = dir /\ content' = content /\ req' = req
      /\ wr' = wr /\ buf' = buf
  BY DEF GetOpen, At
<1>3. rd[t] = NoInode /\ wr[t] = NoInode
  BY <1>1, <1>2 DEF FrameOK, Reading, Copying
<1>4. TwoFiles' /\ NoDuplicateKeys'
  BY <1>1, <1>2 DEF TwoFiles, NoDuplicateKeys, Exists
<1>5. CASE /\ Exists(Data) /\ rd' = [rd EXCEPT ![t] = dir[Data]]
           /\ Goto(t, "get_scan")
  <2>1. ControlOK(t) /\ pc'[t] = "get_scan"
    BY <1>1, <1>2, <1>5, GotoControl DEF Label
  <2>2. /\ rd' \in [Thread -> Inode \cup {NoInode}] /\ rd'[t] = dir[Data]
        /\ \A u \in Thread \ {t} : rd'[u] = rd[u]
    BY <1>1, <1>5 DEF ClavesTypeOK, FileName
  <2>3. FrameOK(t)'
    BY <1>2, <1>3, <1>5, <2>1, <2>2 DEF FrameOK, Exists, Reading, Copying, Replacing
  <2> QED
    BY <1>1, <1>2, <1>4, <2>1, <2>2, <2>3, HolderStep DEF ClavesTypeOK
<1>6. CASE ~Exists(Data) /\ rd' = rd /\ Returns(t, Result(-1))
  <2>1. ControlOK(t) /\ pc'[t] \in {"exist_open", "done"}
    BY <1>1, <1>2, <1>6, ReturnsControl DEF Result, Reply
  <2>2. FrameOK(t)'
    BY <1>2, <1>3, <1>6, <2>1 DEF FrameOK, Exists, Reading, Copying, Replacing
  <2> QED
    BY <1>1, <1>2, <1>4, <1>6, <2>1, <2>2, HolderStep DEF ClavesTypeOK
<1> QED
  BY <1>5, <1>6 DEF GetOpen

\* get_value returns the value of the one line with its key.
LEMMA GetScanStep ==
  ASSUME IInv, NEW t \in Thread, stage[t] = "locked",
         UNCHANGED rpcVars, GetScan(t)
  PROVE  IInv'
<1> DEFINE k == req[t].key
           s == content[dir[Data]]
           x == IF k \in KeysOf(s) THEN [res |-> 0, val |-> Lookup(s, k)]
                                   ELSE Result(-1)
<1>1. TypeOK /\ ClavesTypeOK /\ CallOK(t) /\ FrameOK(t) /\ TwoFiles /\ NoDuplicateKeys
  BY DEF IInv, TypeOK
<1>2. /\ pc[t] = "get_scan" /\ dir' = dir /\ content' = content /\ req' = req
      /\ wr' = wr /\ buf' = buf /\ rd' = [rd EXCEPT ![t] = NoInode]
  BY DEF GetScan, At
<1>3. rd[t] = dir[Data] /\ wr[t] = NoInode /\ Exists(Data)
  BY <1>1, <1>2 DEF FrameOK, Reading, Copying
<1>4. s \in Seq(Line) /\ Unique(s)
  BY <1>1, <1>3 DEF ClavesTypeOK, NoDuplicateKeys, Exists, FileName
<1>5. x \in Reply
  <2> HIDE DEF s, k
  <2>1. CASE k \in KeysOf(s)
    <3>1. PICK n \in DOMAIN s : s[n].key = k
      BY <2>1 DEF KeysOf
    <3>2. Lookup(s, k) = s[n].val
      BY <1>4, <3>1, LookupUnique
    <3>3. s[n] \in Line
      BY <1>4
    <3>4. s[n].val \in Value
      BY <3>3 DEF Line
    <3> QED BY <2>1, <3>2, <3>4 DEF Reply
  <2>2. CASE k \notin KeysOf(s)
    BY <2>2 DEF Reply, Result
  <2> QED BY <2>1, <2>2
<1>6. Returns(t, x)
  BY <1>3 DEF GetScan
<1> HIDE DEF x
<1>7. ControlOK(t) /\ pc'[t] \in {"exist_open", "done"}
  BY <1>1, <1>2, <1>5, <1>6, ReturnsControl
<1>8. /\ rd' \in [Thread -> Inode \cup {NoInode}] /\ rd'[t] = NoInode
      /\ \A u \in Thread \ {t} : rd'[u] = rd[u]
  BY <1>1, <1>2 DEF ClavesTypeOK
<1>9. FrameOK(t)'
  BY <1>2, <1>3, <1>7, <1>8 DEF FrameOK, Exists, Reading, Copying, Replacing
<1>10. TwoFiles' /\ NoDuplicateKeys'
  BY <1>1, <1>2 DEF TwoFiles, NoDuplicateKeys, Exists
<1> QED
  BY <1>1, <1>2, <1>7, <1>8, <1>9, <1>10, HolderStep DEF ClavesTypeOK

LEMMA DelOpenStep ==
  ASSUME Faults = FALSE, IInv, NEW t \in Thread, stage[t] = "locked",
         UNCHANGED rpcVars, DelOpen(t)
  PROVE  IInv'
<1>1. TypeOK /\ ClavesTypeOK /\ CallOK(t) /\ FrameOK(t) /\ TwoFiles /\ NoDuplicateKeys
  BY DEF IInv, TypeOK
<1>2. /\ pc[t] = "del_open" /\ dir' = dir /\ content' = content /\ req' = req
      /\ wr' = wr /\ buf' = buf
  BY DEF DelOpen, At
<1>3. rd[t] = NoInode /\ wr[t] = NoInode
  BY <1>1, <1>2 DEF FrameOK, Reading, Copying
<1>4. TwoFiles' /\ NoDuplicateKeys'
  BY <1>1, <1>2 DEF TwoFiles, NoDuplicateKeys, Exists
<1>5. CASE /\ Exists(Data) /\ rd' = [rd EXCEPT ![t] = dir[Data]]
           /\ Goto(t, "del_temp")
  <2>1. ControlOK(t) /\ pc'[t] = "del_temp"
    BY <1>1, <1>2, <1>5, GotoControl DEF Label
  <2>2. /\ rd' \in [Thread -> Inode \cup {NoInode}] /\ rd'[t] = dir[Data]
        /\ \A u \in Thread \ {t} : rd'[u] = rd[u]
    BY <1>1, <1>5 DEF ClavesTypeOK, FileName
  <2>3. FrameOK(t)'
    BY <1>2, <1>3, <1>5, <2>1, <2>2 DEF FrameOK, Exists, Reading, Copying, Replacing
  <2> QED
    BY <1>1, <1>2, <1>4, <2>1, <2>2, <2>3, HolderStep DEF ClavesTypeOK
<1>6. CASE ~Exists(Data) /\ rd' = rd /\ Returns(t, Result(-1))
  <2>1. ControlOK(t) /\ pc'[t] \in {"exist_open", "done"}
    BY <1>1, <1>2, <1>6, ReturnsControl DEF Result, Reply
  <2>2. FrameOK(t)'
    BY <1>2, <1>3, <1>6, <2>1 DEF FrameOK, Exists, Reading, Copying, Replacing
  <2> QED
    BY <1>1, <1>2, <1>4, <1>6, <2>1, <2>2, HolderStep DEF ClavesTypeOK
<1> QED
  BY <1>5, <1>6 DEF DelOpen

-----------------------------------------------------------------------------
(* The steps that write.                                                   *)

\* fopen(n, "w") on one of the two files leaves it with an inode of its own,
\* empty, and the other file as it was.
LEMMA TruncatesEffect ==
  ASSUME ClavesTypeOK, TwoFiles, NEW n \in FileName, NEW i \in Inode,
         Truncates(n, i)
  PROVE  /\ dir' \in [FileName -> Inode \cup {NoInode}]
         /\ content' \in [Inode -> Seq(Line)]
         /\ dir'[n] = i /\ i # NoInode /\ content'[i] = <<>>
         /\ \A o \in FileName \ {n} :
              /\ dir'[o] = dir[o] /\ dir[o] # i
              /\ dir[o] # NoInode => content'[dir[o]] = content[dir[o]]
<1>1. /\ dir' = [dir EXCEPT ![n] = i] /\ content' = [content EXCEPT ![i] = <<>>]
      /\ i \in Opened(n)
  BY DEF Truncates
<1>2. <<>> \in Seq(Line) /\ i # NoInode
  BY ClavesAssumption
<1>3. \A o \in FileName \ {n} : dir[o] # i
  BY <1>1, <1>2 DEF Opened, Exists, FreeInode, TwoFiles, FileName
<1> QED
  BY <1>1, <1>2, <1>3 DEF ClavesTypeOK

LEMMA DestroyStep ==
  ASSUME Faults = FALSE, IInv, NEW t \in Thread, stage[t] = "locked",
         UNCHANGED rpcVars, Destroy(t)
  PROVE  IInv'
<1>1. TypeOK /\ ClavesTypeOK /\ CallOK(t) /\ FrameOK(t) /\ TwoFiles /\ NoDuplicateKeys
  BY DEF IInv, TypeOK
<1>2. /\ pc[t] = "destroy" /\ req' = req /\ rd' = rd /\ wr' = wr /\ buf' = buf
      /\ Returns(t, Result(0))
  BY DEF Destroy, At
<1>3. PICK i \in Inode : Truncates(Data, i)
  BY DEF Destroy
<1>4. /\ dir' \in [FileName -> Inode \cup {NoInode}]
      /\ content' \in [Inode -> Seq(Line)]
      /\ dir'[Data] = i /\ content'[i] = <<>>
      /\ dir'[Temp] = dir[Temp] /\ dir[Temp] # i
  BY <1>1, <1>3, TruncatesEffect DEF FileName, Data, Temp
<1>5. rd[t] = NoInode /\ wr[t] = NoInode
  BY <1>1, <1>2 DEF FrameOK, Reading, Copying
<1>6. ControlOK(t) /\ pc'[t] \in {"exist_open", "done"}
  BY <1>1, <1>2, ReturnsControl DEF Result, Reply
<1>7. FrameOK(t)'
  BY <1>2, <1>5, <1>6 DEF FrameOK, Reading, Copying, Replacing
<1>8. TwoFiles' /\ NoDuplicateKeys'
  BY <1>4 DEF TwoFiles, NoDuplicateKeys, Exists, Unique
<1> QED
  BY <1>1, <1>2, <1>4, <1>6, <1>7, <1>8, HolderStep DEF ClavesTypeOK

LEMMA SetOpenStep ==
  ASSUME Faults = FALSE, IInv, NEW t \in Thread, stage[t] = "locked",
         UNCHANGED rpcVars, SetOpen(t)
  PROVE  IInv'
<1>1. TypeOK /\ ClavesTypeOK /\ CallOK(t) /\ FrameOK(t) /\ TwoFiles /\ NoDuplicateKeys
  BY DEF IInv, TypeOK
<1>2. /\ pc[t] = "set_open" /\ req' = req /\ rd' = rd /\ buf' = buf
      /\ Goto(t, "set_flush")
  BY DEF SetOpen, At
<1>3. PICK i \in Inode : Appends(Data, i) /\ wr' = [wr EXCEPT ![t] = i]
  BY DEF SetOpen
<1>4. /\ dir' = [dir EXCEPT ![Data] = i] /\ i \in Opened(Data)
      /\ content' = [content EXCEPT ![i] = IF Exists(Data) THEN @ ELSE <<>>]
  BY <1>3 DEF Appends
<1>5. <<>> \in Seq(Line) /\ i # NoInode
  BY ClavesAssumption
<1>6. /\ dir' \in [FileName -> Inode \cup {NoInode}]
      /\ content' \in [Inode -> Seq(Line)]
      /\ wr' \in [Thread -> Inode \cup {NoInode}] /\ wr'[t] = i
      /\ \A u \in Thread \ {t} : wr'[u] = wr[u]
      /\ dir'[Data] = i /\ dir'[Temp] = dir[Temp]
  BY <1>1, <1>3, <1>4, <1>5 DEF ClavesTypeOK, FileName, Data, Temp
<1>7. dir[Temp] # i
  BY <1>1, <1>4, <1>5 DEF Opened, Exists, FreeInode, TwoFiles, FileName
<1>8. rd[t] = NoInode
  BY <1>1, <1>2 DEF FrameOK, Reading
<1>9. ControlOK(t) /\ pc'[t] = "set_flush"
  BY <1>1, <1>2, GotoControl DEF CallOK, Label
<1>10. /\ req[t].key \notin KeysOf(content'[i])
       /\ Unique(content'[i])
  <2>1. CASE Exists(Data)
    <3>1. i = dir[Data] /\ content' = content
      BY <1>1, <1>4, <2>1 DEF Opened, ClavesTypeOK
    <3> QED
      BY <1>1, <1>2, <2>1, <3>1 DEF FrameOK, NoDuplicateKeys
  <2>2. CASE ~Exists(Data)
    <3>1. content'[i] = <<>>
      BY <1>1, <1>4, <2>2 DEF ClavesTypeOK
    <3> QED
      BY <3>1 DEF Unique, KeysOf
  <2> QED BY <2>1, <2>2
<1>11. FrameOK(t)'
  BY <1>2, <1>5, <1>6, <1>8, <1>9, <1>10
     DEF FrameOK, Exists, Reading, Copying, Replacing
<1>12. TwoFiles' /\ NoDuplicateKeys'
  BY <1>5, <1>6, <1>7, <1>10 DEF TwoFiles, NoDuplicateKeys, Exists
<1> QED
  BY <1>1, <1>2, <1>6, <1>9, <1>11, <1>12, HolderStep DEF ClavesTypeOK

\* The line that set_value writes is a line.
LEMMA InsertedLine ==
  ASSUME TypeOK, NEW t \in Thread, req[t].op \in WriteOp
  PROVE  /\ req[t].key \in Key /\ req[t].val \in Value
         /\ [key |-> req[t].key, val |-> Printed[req[t].val]] \in Line
<1>1. req[t] \in Request \cup {NoRequest}
  BY DEF TypeOK, ClavesTypeOK
<1>2. req[t] \in [op : WriteOp, key : Key, val : Value]
  BY <1>1 DEF Request, NoRequest, WriteOp, KeyedOp
<1> QED
  BY <1>2, ValueAssumption DEF Line

LEMMA SetFlushStep ==
  ASSUME Faults = FALSE, IInv, NEW t \in Thread, stage[t] = "locked",
         UNCHANGED rpcVars, SetFlush(t)
  PROVE  IInv'
<1> DEFINE l == [key |-> req[t].key, val |-> Printed[req[t].val]]
           d == dir[Data]
<1>1. TypeOK /\ ClavesTypeOK /\ CallOK(t) /\ FrameOK(t) /\ TwoFiles /\ NoDuplicateKeys
  BY DEF IInv, TypeOK
<1>2. /\ pc[t] = "set_flush" /\ dir' = dir /\ req' = req /\ rd' = rd /\ buf' = buf
      /\ wr' = [wr EXCEPT ![t] = NoInode] /\ Returns(t, Result(0))
  BY DEF SetFlush, At
<1>3. /\ rd[t] = NoInode /\ wr[t] = d /\ d # NoInode
      /\ l.key \notin KeysOf(content[d])
  BY <1>1, <1>2 DEF FrameOK, Reading, Exists
<1>4. d \in Inode /\ content[d] \in Seq(Line) /\ Unique(content[d]) /\ d # dir[Temp]
  BY <1>1, <1>3 DEF ClavesTypeOK, FileName, NoDuplicateKeys, TwoFiles, Exists
<1>5. l \in Line
  BY <1>1, <1>2, InsertedLine DEF CallOK
<1>6. content' = [content EXCEPT ![d] = Append(content[d], l)]
  BY <1>3 DEF SetFlush, Writes
<1> HIDE DEF l, d
<1>7. Append(content[d], l) \in Seq(Line) /\ Unique(Append(content[d], l))
  BY <1>3, <1>4, <1>5, AppendLine
<1>8. content' \in [Inode -> Seq(Line)] /\ Unique(content'[d])
  BY <1>1, <1>4, <1>6, <1>7 DEF ClavesTypeOK
<1>9. ControlOK(t) /\ pc'[t] \in {"exist_open", "done"}
  BY <1>1, <1>2, ReturnsControl DEF Result, Reply
<1>10. /\ wr' \in [Thread -> Inode \cup {NoInode}] /\ wr'[t] = NoInode
       /\ \A u \in Thread \ {t} : wr'[u] = wr[u]
  BY <1>1, <1>2 DEF ClavesTypeOK
<1>11. FrameOK(t)'
  BY <1>2, <1>3, <1>9, <1>10 DEF FrameOK, Reading, Copying, Replacing
<1>12. TwoFiles' /\ NoDuplicateKeys'
  BY <1>1, <1>2, <1>8 DEF TwoFiles, NoDuplicateKeys, Exists, d
<1> QED
  BY <1>1, <1>2, <1>8, <1>9, <1>10, <1>11, <1>12, HolderStep DEF ClavesTypeOK

LEMMA DelTempStep ==
  ASSUME Faults = FALSE, IInv, NEW t \in Thread, stage[t] = "locked",
         UNCHANGED rpcVars, DelTemp(t)
  PROVE  IInv'
<1>1. TypeOK /\ ClavesTypeOK /\ CallOK(t) /\ FrameOK(t) /\ TwoFiles /\ NoDuplicateKeys
  BY DEF IInv, TypeOK
<1>2. /\ pc[t] = "del_temp" /\ req' = req /\ rd' = rd /\ buf' = buf
      /\ Goto(t, "del_scan")
  BY DEF DelTemp, At
<1>3. PICK i \in Inode : Truncates(Temp, i) /\ wr' = [wr EXCEPT ![t] = i]
  BY DEF DelTemp
<1>4. /\ dir' \in [FileName -> Inode \cup {NoInode}]
      /\ content' \in [Inode -> Seq(Line)]
      /\ dir'[Temp] = i /\ i # NoInode /\ content'[i] = <<>>
      /\ dir'[Data] = dir[Data] /\ dir[Data] # i
      /\ dir[Data] # NoInode => content'[dir[Data]] = content[dir[Data]]
  BY <1>1, <1>3, TruncatesEffect DEF FileName, Data, Temp
<1>5. rd[t] = dir[Data] /\ dir[Data] # NoInode
  BY <1>1, <1>2 DEF FrameOK, Reading, Exists
<1>6. ControlOK(t) /\ pc'[t] = "del_scan"
  BY <1>1, <1>2, GotoControl DEF Label
<1>7. /\ wr' \in [Thread -> Inode \cup {NoInode}] /\ wr'[t] = i
      /\ \A u \in Thread \ {t} : wr'[u] = wr[u]
  BY <1>1, <1>3 DEF ClavesTypeOK
<1>8. FrameOK(t)'
  BY <1>2, <1>4, <1>5, <1>6, <1>7 DEF FrameOK, Exists, Reading, Copying, Replacing
<1>9. TwoFiles' /\ NoDuplicateKeys'
  BY <1>1, <1>4 DEF TwoFiles, NoDuplicateKeys, Exists
<1> QED
  BY <1>1, <1>2, <1>4, <1>6, <1>7, <1>8, <1>9, HolderStep DEF ClavesTypeOK

\* Printing a line again changes no key.
LEMMA ReprintedLines ==
  ASSUME NEW s \in Seq(Line)
  PROVE  Reprinted(s) \in Seq(Line) /\ (Unique(s) => Unique(Reprinted(s)))
<1> DEFINE p == Reprinted(s)
<1>1. DOMAIN s = 1..Len(s) /\ Len(s) \in Nat
  OBVIOUS
<1>2. \A n \in DOMAIN s : s[n] \in Line
  OBVIOUS
<1>3. \A n \in DOMAIN s : [key |-> s[n].key, val |-> Printed[s[n].val]] \in Line
  BY <1>2, ValueAssumption DEF Line
<1>4. DOMAIN p = DOMAIN s /\ \A n \in DOMAIN s : p[n] \in Line /\ p[n].key = s[n].key
  BY <1>3 DEF Reprinted
<1>5. p = [n \in 1..Len(s) |-> p[n]]
  BY <1>1 DEF Reprinted
<1> HIDE DEF p
<1>6. p \in Seq(Line)
  BY <1>1, <1>4, <1>5
<1>7. Unique(s) => Unique(p)
  BY <1>4 DEF Unique
<1> QED
  BY <1>6, <1>7 DEF p

LEMMA DelScanStep ==
  ASSUME IInv, NEW t \in Thread, stage[t] = "locked",
         UNCHANGED rpcVars, DelScan(t)
  PROVE  IInv'
<1> DEFINE s == content[dir[Data]]
           w == Without(s, req[t].key)
<1>1. TypeOK /\ ClavesTypeOK /\ CallOK(t) /\ FrameOK(t) /\ TwoFiles /\ NoDuplicateKeys
  BY DEF IInv, TypeOK
<1>2. /\ pc[t] = "del_scan" /\ dir' = dir /\ content' = content /\ req' = req
      /\ wr' = wr /\ rd' = [rd EXCEPT ![t] = NoInode] /\ Goto(t, "del_flush")
  BY DEF DelScan, At
<1>3. /\ rd[t] = dir[Data] /\ wr[t] = dir[Temp] /\ Exists(Data) /\ Exists(Temp)
      /\ content[dir[Temp]] = <<>>
  BY <1>1, <1>2 DEF FrameOK, Reading, Copying
<1>4. s \in Seq(Line) /\ Unique(s)
  BY <1>1, <1>3 DEF ClavesTypeOK, NoDuplicateKeys, Exists, FileName
<1>5. buf' = [buf EXCEPT ![t] = Reprinted(w)]
  BY <1>3 DEF DelScan
<1> HIDE DEF s
<1>6. w \in Seq(Line) /\ Unique(w)
  BY <1>4, WithoutLines
<1> HIDE DEF w
<1>7. Reprinted(w) \in Seq(Line) /\ Unique(Reprinted(w))
  BY <1>6, ReprintedLines
<1>8. buf' \in [Thread -> Seq(Line)] /\ Unique(buf'[t])
  BY <1>1, <1>5, <1>7 DEF ClavesTypeOK
<1>9. ControlOK(t) /\ pc'[t] = "del_flush"
  BY <1>1, <1>2, GotoControl DEF Label
<1>10. /\ rd' \in [Thread -> Inode \cup {NoInode}] /\ rd'[t] = NoInode
       /\ \A u \in Thread \ {t} : rd'[u] = rd[u]
  BY <1>1, <1>2 DEF ClavesTypeOK
<1>11. FrameOK(t)'
  BY <1>2, <1>3, <1>8, <1>9, <1>10 DEF FrameOK, Exists, Reading, Copying, Replacing
<1>12. TwoFiles' /\ NoDuplicateKeys'
  BY <1>1, <1>2 DEF TwoFiles, NoDuplicateKeys, Exists
<1> QED
  BY <1>1, <1>2, <1>8, <1>9, <1>10, <1>11, <1>12, HolderStep DEF ClavesTypeOK

\* temp.txt was empty, so what the flush leaves on it is the buffer.
LEMMA DelFlushStep ==
  ASSUME Faults = FALSE, IInv, NEW t \in Thread, stage[t] = "locked",
         UNCHANGED rpcVars, DelFlush(t)
  PROVE  IInv'
<1> DEFINE i == dir[Temp]
<1>1. TypeOK /\ ClavesTypeOK /\ CallOK(t) /\ FrameOK(t) /\ TwoFiles /\ NoDuplicateKeys
  BY DEF IInv, TypeOK
<1>2. /\ pc[t] = "del_flush" /\ dir' = dir /\ req' = req /\ rd' = rd
      /\ wr' = [wr EXCEPT ![t] = NoInode] /\ buf' = [buf EXCEPT ![t] = <<>>]
      /\ Goto(t, "del_remove")
  BY DEF DelFlush, At
<1>3. /\ rd[t] = NoInode /\ wr[t] = i /\ i # NoInode
      /\ content[i] = <<>> /\ Unique(buf[t])
  BY <1>1, <1>2 DEF FrameOK, Reading, Copying, Exists
<1>4. i \in Inode /\ buf[t] \in Seq(Line) /\ (Exists(Data) => dir[Data] # i)
  BY <1>1, <1>3 DEF ClavesTypeOK, FileName, TwoFiles
<1>5. Overlay(content[i], buf[t]) = buf[t]
  <2>1. SubSeq(<<>>, Len(buf[t]) + 1, Len(<<>>)) = <<>>
    BY <1>4
  <2>2. buf[t] \o <<>> = buf[t]
    BY <1>4
  <2> QED BY <1>3, <2>1, <2>2 DEF Overlay
<1>6. content' = [content EXCEPT ![i] = buf[t]]
  BY <1>3, <1>5 DEF DelFlush, Writes
<1> HIDE DEF i
<1>7. /\ content' \in [Inode -> Seq(Line)] /\ Unique(content'[i])
      /\ Exists(Data) => content'[dir[Data]] = content[dir[Data]]
  BY <1>1, <1>3, <1>4, <1>6 DEF ClavesTypeOK, FileName, Exists
<1>8. ControlOK(t) /\ pc'[t] = "del_remove"
  BY <1>1, <1>2, GotoControl DEF Label
<1>9. /\ wr' \in [Thread -> Inode \cup {NoInode}] /\ wr'[t] = NoInode
      /\ \A u \in Thread \ {t} : wr'[u] = wr[u]
      /\ buf' \in [Thread -> Seq(Line)]
  BY <1>1, <1>2 DEF ClavesTypeOK
<1>10. FrameOK(t)'
  BY <1>2, <1>3, <1>7, <1>8, <1>9 DEF FrameOK, Exists, Reading, Copying, Replacing, i
<1>11. TwoFiles' /\ NoDuplicateKeys'
  BY <1>1, <1>2, <1>7 DEF TwoFiles, NoDuplicateKeys, Exists
<1> QED
  BY <1>1, <1>2, <1>7, <1>8, <1>9, <1>10, <1>11, HolderStep DEF ClavesTypeOK

LEMMA DelRemoveStep ==
  ASSUME IInv, NEW t \in Thread, stage[t] = "locked",
         UNCHANGED rpcVars, DelRemove(t)
  PROVE  IInv'
<1>1. TypeOK /\ ClavesTypeOK /\ CallOK(t) /\ FrameOK(t) /\ TwoFiles /\ NoDuplicateKeys
  BY DEF IInv, TypeOK
<1>2. /\ pc[t] = "del_remove" /\ content' = content /\ req' = req /\ rd' = rd
      /\ wr' = wr /\ buf' = buf /\ dir' = [dir EXCEPT ![Data] = NoInode]
      /\ Goto(t, "del_rename")
  BY DEF DelRemove, At
<1>3. /\ rd[t] = NoInode /\ wr[t] = NoInode
      /\ Exists(Temp) /\ Unique(content[dir[Temp]])
  BY <1>1, <1>2 DEF FrameOK, Reading, Copying, Replacing
<1>4. /\ dir' \in [FileName -> Inode \cup {NoInode}]
      /\ dir'[Data] = NoInode /\ dir'[Temp] = dir[Temp]
  BY <1>1, <1>2 DEF ClavesTypeOK, FileName, Data, Temp
<1>5. ControlOK(t) /\ pc'[t] = "del_rename"
  BY <1>1, <1>2, GotoControl DEF Label
<1>6. FrameOK(t)'
  BY <1>2, <1>3, <1>4, <1>5 DEF FrameOK, Exists, Reading, Copying, Replacing
<1>7. TwoFiles' /\ NoDuplicateKeys'
  BY <1>4 DEF TwoFiles, NoDuplicateKeys, Exists
<1> QED
  BY <1>1, <1>2, <1>4, <1>5, <1>6, <1>7, HolderStep DEF ClavesTypeOK

LEMMA DelRenameStep ==
  ASSUME IInv, NEW t \in Thread, stage[t] = "locked",
         UNCHANGED rpcVars, DelRename(t)
  PROVE  IInv'
<1>1. TypeOK /\ ClavesTypeOK /\ CallOK(t) /\ FrameOK(t) /\ TwoFiles /\ NoDuplicateKeys
  BY DEF IInv, TypeOK
<1>2. /\ pc[t] = "del_rename" /\ content' = content /\ req' = req /\ rd' = rd
      /\ wr' = wr /\ buf' = buf /\ Returns(t, Result(0))
  BY DEF DelRename, At
<1>3. /\ rd[t] = NoInode /\ wr[t] = NoInode
      /\ Exists(Temp) /\ Unique(content[dir[Temp]])
  BY <1>1, <1>2 DEF FrameOK, Reading, Copying, Replacing
<1>4. /\ dir' \in [FileName -> Inode \cup {NoInode}]
      /\ dir'[Data] = dir[Temp] /\ dir'[Temp] = NoInode
  BY <1>1, <1>3 DEF DelRename, ClavesTypeOK, FileName, Data, Temp
<1>5. ControlOK(t) /\ pc'[t] \in {"exist_open", "done"}
  BY <1>1, <1>2, ReturnsControl DEF Result, Reply
<1>6. FrameOK(t)'
  BY <1>2, <1>3, <1>5 DEF FrameOK, Exists, Reading, Copying, Replacing
<1>7. TwoFiles' /\ NoDuplicateKeys'
  BY <1>2, <1>3, <1>4 DEF TwoFiles, NoDuplicateKeys, Exists
<1> QED
  BY <1>1, <1>2, <1>4, <1>5, <1>6, <1>7, HolderStep DEF ClavesTypeOK

LEMMA HandleStep ==
  ASSUME Faults = FALSE, IInv, NEW t \in Thread, Handle(t)
  PROVE  IInv'
<1>1. stage[t] = "locked" /\ UNCHANGED rpcVars /\ ClavesStep(t)
  BY DEF Handle
<1> QED
  BY <1>1, ExistOpenStep, ExistScanStep, GetOpenStep, GetScanStep, DestroyStep,
     SetOpenStep, SetFlushStep, DelOpenStep, DelTempStep, DelScanStep,
     DelFlushStep, DelRemoveStep, DelRenameStep DEF ClavesStep

-----------------------------------------------------------------------------
(* The steps around claves.c: they leave the files alone.                  *)

LEMMA ClientStep ==
  ASSUME IInv, NEW c \in Client, NEW t \in Thread,
         \/ \E r \in Request : ClientCall(c, t, r)
         \/ ClientReceive(c, t)
         \/ ClientError(c, t)
  PROVE  IInv'
<1>1. TypeOK /\ ClavesTypeOK /\ MutexInv
  BY DEF IInv, TypeOK
<1>2. /\ dir' = dir /\ content' = content /\ pc' = pc /\ req' = req /\ fn' = fn
      /\ rd' = rd /\ wr' = wr /\ buf' = buf /\ m' = m /\ up' = up /\ crashes' = crashes
  BY DEF ClientCall, ClientReceive, ClientError
<1>3. /\ ret' \in [Thread -> Reply] /\ arg' \in [Thread -> Request \cup {NoRequest}]
      /\ cur' \in [Client -> Thread \cup {NoThread}] /\ stage' \in [Thread -> Stage]
  <2>1. Result(0) \in Reply /\ {"free", "sent"} \subseteq Stage
    BY DEF Result, Reply, Stage
  <2>2. CASE \E r \in Request : ClientCall(c, t, r)
    BY <1>1, <2>1, <2>2 DEF ClientCall, TypeOK, ClavesTypeOK
  <2>3. CASE Forgets(t) /\ cur' = [cur EXCEPT ![c] = NoThread]
    BY <1>1, <2>1, <2>3 DEF Forgets, TypeOK, ClavesTypeOK
  <2>4. CASE UNCHANGED <<stage, arg, ret>> /\ cur' = [cur EXCEPT ![c] = NoThread]
    BY <1>1, <2>4 DEF TypeOK, ClavesTypeOK
  <2> QED BY <2>2, <2>3, <2>4 DEF ClientReceive, ClientError
<1>4. /\ stage[t] # "locked" \/ stage'[t] = stage[t]
      /\ stage'[t] # "locked" \/ stage'[t] = stage[t]
      /\ \A u \in Thread \ {t} : stage'[u] = stage[u]
  BY <1>1 DEF ClientCall, ClientReceive, ClientError, Forgets, TypeOK
<1>5. TypeOK'
  BY <1>1, <1>2, <1>3 DEF TypeOK, ClavesTypeOK
<1>6. MutexInv'
  BY <1>1, <1>2, <1>4 DEF MutexInv
<1>7. /\ \A u \in Thread : CallOK(u)' /\ FrameOK(u)'
      /\ TwoFiles' /\ NoDuplicateKeys'
  BY <1>2 DEF IInv, CallOK, FrameOK, Exists, TwoFiles, NoDuplicateKeys
<1> QED
  BY <1>5, <1>6, <1>7 DEF IInv

\* Dispatch, SendReply and Restart: nobody is inside claves.c.
LEMMA DispatchStep ==
  ASSUME IInv, NEW t \in Thread, Dispatch(t) \/ SendReply(t)
  PROVE  IInv'
<1>1. TypeOK /\ ClavesTypeOK /\ MutexInv
  BY DEF IInv, TypeOK
<1>2. /\ dir' = dir /\ content' = content /\ pc' = pc /\ req' = req /\ fn' = fn
      /\ rd' = rd /\ wr' = wr /\ buf' = buf /\ m' = m /\ up' = up
      /\ crashes' = crashes /\ cur' = cur
  BY DEF Dispatch, SendReply
<1>3. /\ ret' \in [Thread -> Reply] /\ arg' \in [Thread -> Request \cup {NoRequest}]
      /\ stage' \in [Thread -> Stage]
  <2>1. Result(0) \in Reply /\ {"free", "handler", "answered"} \subseteq Stage
    BY DEF Result, Reply, Stage
  <2>2. CASE Forgets(t)
    BY <1>1, <2>1, <2>2 DEF Forgets, TypeOK, ClavesTypeOK
  <2>3. CASE /\ stage' = [stage EXCEPT ![t] = "answered"] \/ stage' = [stage EXCEPT ![t] = "handler"]
             /\ UNCHANGED <<arg, ret>>
    BY <1>1, <2>1, <2>3 DEF TypeOK, ClavesTypeOK
  <2> QED BY <2>2, <2>3 DEF Dispatch, SendReply
<1>4. /\ stage[t] # "locked" /\ stage'[t] # "locked"
      /\ \A u \in Thread \ {t} : stage'[u] = stage[u]
  BY <1>1 DEF Dispatch, SendReply, Forgets, TypeOK
<1>5. TypeOK'
  BY <1>1, <1>2, <1>3 DEF TypeOK, ClavesTypeOK
<1>6. MutexInv'
  BY <1>1, <1>2, <1>4 DEF MutexInv
<1>7. /\ \A u \in Thread : CallOK(u)' /\ FrameOK(u)'
      /\ TwoFiles' /\ NoDuplicateKeys'
  BY <1>2 DEF IInv, CallOK, FrameOK, Exists, TwoFiles, NoDuplicateKeys
<1> QED
  BY <1>5, <1>6, <1>7 DEF IInv

LEMMA LockStep ==
  ASSUME IInv, NEW t \in Thread, Lock(t)
  PROVE  IInv'
<1>1. TypeOK /\ ClavesTypeOK /\ MutexInv /\ FrameOK(t)
  BY DEF IInv, TypeOK
<1>2. /\ m = NoThread /\ m' = t /\ stage' = [stage EXCEPT ![t] = "locked"]
      /\ pc[t] = "idle" /\ req' = [req EXCEPT ![t] = arg[t]]
      /\ fn' = [fn EXCEPT ![t] = arg[t].op] /\ pc' = [pc EXCEPT ![t] = Entry(arg[t].op)]
      /\ dir' = dir /\ content' = content /\ rd' = rd /\ wr' = wr /\ buf' = buf
      /\ ret' = ret /\ arg' = arg /\ cur' = cur /\ up' = up /\ crashes' = crashes
  BY DEF Lock, Begin, At
<1>3. arg[t] \in Request \cup {NoRequest} /\ arg[t].op \in Op \cup {"none"}
  <2>1. arg[t] \in Request \cup {NoRequest}
    BY <1>1 DEF TypeOK
  <2> QED
    BY <2>1 DEF Request, NoRequest, Op, KeyedOp, WriteOp
<1>4. Entry(arg[t].op) \in {"destroy", "get_open", "exist_open"}
  BY DEF Entry
<1>5. TypeOK'
  <2>1. stage' \in [Thread -> Stage] /\ m' \in Thread \cup {NoThread}
    BY <1>1, <1>2 DEF TypeOK, Stage
  <2>2. pc' \in [Thread -> Label]
    BY <1>1, <1>2, <1>4 DEF ClavesTypeOK, Label
  <2>3. req' \in [Thread -> Request \cup {NoRequest}] /\ fn' \in [Thread -> Op \cup {"none"}]
    BY <1>1, <1>2, <1>3 DEF ClavesTypeOK
  <2> QED
    BY <1>1, <1>2, <2>1, <2>2, <2>3 DEF TypeOK, ClavesTypeOK
<1>6. MutexInv'
  BY <1>1, <1>2, ServidorRpcAssumption DEF MutexInv, TypeOK, ClavesTypeOK
<1>7. ASSUME NEW u \in Thread
      PROVE  CallOK(u)' /\ FrameOK(u)'
  <2>1. CASE u = t
    <3>1. /\ fn'[t] = req'[t].op /\ pc'[t] \in {"destroy", "get_open", "exist_open"}
          /\ rd'[t] = NoInode /\ wr'[t] = NoInode
      BY <1>1, <1>2, <1>4 DEF ClavesTypeOK, FrameOK, Reading, Copying
    <3> QED
      BY <2>1, <3>1 DEF CallOK, FrameOK, Reading, Copying, Replacing, WriteOp
  <2>2. CASE u # t
    <3>1. pc'[u] = pc[u] /\ fn'[u] = fn[u] /\ req'[u] = req[u]
      BY <1>2, <2>2 DEF TypeOK
    <3> QED
      BY <1>2, <3>1 DEF IInv, CallOK, FrameOK, Exists
  <2> QED BY <2>1, <2>2
<1>8. TwoFiles' /\ NoDuplicateKeys'
  BY <1>2 DEF IInv, TwoFiles, NoDuplicateKeys, Exists
<1> QED
  BY <1>5, <1>6, <1>7, <1>8 DEF IInv

LEMMA UnlockStep ==
  ASSUME IInv, NEW t \in Thread, Unlock(t)
  PROVE  IInv'
<1>1. TypeOK /\ ClavesTypeOK /\ MutexInv /\ FrameOK(t)
  BY DEF IInv, TypeOK
<1>2. /\ stage[t] = "locked" /\ m' = NoThread /\ stage' = [stage EXCEPT ![t] = "unlocked"]
      /\ pc[t] = "done" /\ req' = [req EXCEPT ![t] = NoRequest]
      /\ fn' = [fn EXCEPT ![t] = "none"] /\ pc' = [pc EXCEPT ![t] = "idle"]
      /\ dir' = dir /\ content' = content /\ rd' = rd /\ wr' = wr /\ buf' = buf
      /\ ret' = ret /\ arg' = arg /\ cur' = cur /\ up' = up /\ crashes' = crashes
  BY DEF Unlock, End, At
<1>3. TypeOK'
  BY <1>1, <1>2 DEF TypeOK, ClavesTypeOK, Stage, Label
<1>4. MutexInv'
  BY <1>1, <1>2, ServidorRpcAssumption DEF MutexInv, TypeOK, ClavesTypeOK
<1>5. ASSUME NEW u \in Thread
      PROVE  CallOK(u)' /\ FrameOK(u)'
  <2>1. CASE u = t
    <3>1. fn'[t] = "none" /\ pc'[t] = "idle" /\ rd'[t] = NoInode /\ wr'[t] = NoInode
      BY <1>1, <1>2 DEF ClavesTypeOK, FrameOK, Reading, Copying
    <3> QED
      BY <2>1, <3>1 DEF CallOK, FrameOK, Reading, Copying, Replacing
  <2>2. CASE u # t
    <3>1. pc'[u] = pc[u] /\ fn'[u] = fn[u] /\ req'[u] = req[u]
      BY <1>2, <2>2
    <3> QED
      BY <1>2, <3>1 DEF IInv, CallOK, FrameOK, Exists
  <2> QED BY <2>1, <2>2
<1>6. TwoFiles' /\ NoDuplicateKeys'
  BY <1>2 DEF IInv, TwoFiles, NoDuplicateKeys, Exists
<1> QED
  BY <1>3, <1>4, <1>5, <1>6 DEF IInv

\* A crash empties every frame and leaves the files, whatever it interrupts.
LEMMA CrashStep ==
  ASSUME IInv, Crash
  PROVE  IInv'
<1>1. TypeOK /\ ClavesTypeOK
  BY DEF IInv, TypeOK
<1>2. /\ \A u \in Thread : /\ pc'[u] = "idle" /\ fn'[u] = "none"
                           /\ rd'[u] = NoInode /\ wr'[u] = NoInode
                           /\ stage'[u] # "locked"
      /\ m' = NoThread /\ dir' = dir /\ content' = content
  BY DEF Crash
<1>3. TypeOK'
  <2>1. Result(0) \in Reply /\ <<>> \in Seq(Line)
    BY DEF Result, Reply
  <2>2. /\ ret' \in [Thread -> Reply] /\ arg' \in [Thread -> Request \cup {NoRequest}]
        /\ stage' \in [Thread -> Stage]
    BY <1>1, <2>1 DEF Crash, TypeOK, ClavesTypeOK, Stage
  <2>3. crashes' \in 0..MaxCrashes
    <3>1. crashes \in 0..MaxCrashes /\ MaxCrashes \in Nat
      BY <1>1, ServidorRpcAssumption DEF TypeOK
    <3>2. crashes < MaxCrashes /\ crashes' = crashes + 1
      BY DEF Crash
    <3> QED
      BY <3>1, <3>2
  <2>4. up' \in BOOLEAN
    BY DEF Crash
  <2> QED
    BY <1>1, <2>1, <2>2, <2>3, <2>4 DEF Crash, TypeOK, ClavesTypeOK, Label
<1>4. MutexInv'
  BY <1>2, ServidorRpcAssumption DEF MutexInv
<1>5. \A u \in Thread : CallOK(u)' /\ FrameOK(u)'
  BY <1>2 DEF CallOK, FrameOK, Reading, Copying, Replacing
<1>6. TwoFiles' /\ NoDuplicateKeys'
  BY <1>2 DEF IInv, TwoFiles, NoDuplicateKeys, Exists
<1> QED
  BY <1>3, <1>4, <1>5, <1>6 DEF IInv

-----------------------------------------------------------------------------
LEMMA InitInvariant ==
  Init => IInv
<1> SUFFICES ASSUME Init PROVE IInv
  OBVIOUS
<1>1. TypeOK
  BY ServidorRpcAssumption
     DEF Init, ClavesInit, TypeOK, ClavesTypeOK, Label, Stage, Result, Reply
<1>2. MutexInv
  BY ServidorRpcAssumption DEF Init, ClavesInit, MutexInv
<1>3. \A t \in Thread : CallOK(t) /\ FrameOK(t)
  BY DEF Init, ClavesInit, CallOK, FrameOK, Reading, Copying, Replacing
<1>4. TwoFiles /\ NoDuplicateKeys
  BY DEF Init, ClavesInit, TwoFiles, NoDuplicateKeys, Exists, FileName, Data, Temp
<1> QED
  BY <1>1, <1>2, <1>3, <1>4 DEF IInv

\* The invariant holds in every state, as long as the file system works.
THEOREM InvariantHolds ==
  ASSUME Faults = FALSE
  PROVE  Spec => []IInv
<1>1. IInv /\ [Next]_vars => IInv'
  <2> SUFFICES ASSUME IInv, [Next]_vars
               PROVE  IInv'
    OBVIOUS
  <2>1. CASE ClientNext
    BY <2>1, ClientStep DEF ClientNext
  <2>2. CASE ServerNext
    <3>1. ASSUME NEW t \in Thread,
                 Dispatch(t) \/ Lock(t) \/ Handle(t) \/ Unlock(t) \/ SendReply(t)
          PROVE  IInv'
      BY <3>1, DispatchStep, LockStep, HandleStep, UnlockStep
    <3>2. CASE Restart
      BY <3>2 DEF Restart, IInv, TypeOK, ClavesTypeOK, MutexInv, CallOK, FrameOK,
                  TwoFiles, NoDuplicateKeys, Exists
    <3> QED BY <2>2, <3>1, <3>2, CrashStep DEF ServerNext
  <2>3. CASE UNCHANGED vars
    BY <2>3 DEF vars, IInv, TypeOK, ClavesTypeOK, MutexInv, CallOK, FrameOK,
                TwoFiles, NoDuplicateKeys, Exists
  <2> QED
    BY <2>1, <2>2, <2>3 DEF Next
<1> QED
  BY <1>1, InitInvariant, PTL DEF Spec

\* Type correctness.  It is not inductive alone: that get_value returns a
\* value rests on the keys of data.txt being unique.
THEOREM TypeCorrect ==
  ASSUME Faults = FALSE
  PROVE  Spec => []TypeOK
<1>1. IInv => TypeOK
  BY DEF IInv
<1> QED
  BY <1>1, InvariantHolds, PTL

\* The promise of claves.h: no key is ever on two lines of data.txt, for any
\* number of overlapping, timed-out and interrupted calls.
THEOREM KeysStayUnique ==
  ASSUME Faults = FALSE
  PROVE  Spec => []NoDuplicateKeys
<1>1. IInv => NoDuplicateKeys
  BY DEF IInv
<1> QED
  BY <1>1, InvariantHolds, PTL
=============================================================================
