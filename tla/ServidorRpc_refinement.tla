----------------------- MODULE ServidorRpc_refinement -----------------------
(***************************************************************************)
(* The server of ejercicio_evaluable_3 implements the store that claves.h  *)
(* promises: every behaviour of ServidorRpc is, seen through StoreImage    *)
(* and CallImage, one of TupleStore, for every set of clients,             *)
(* connections, keys and values and any number of crashes.                 *)
(*                                                                         *)
(* The argument: a thread that does not hold m takes no part in the store  *)
(* (HolderView, FreeView), so each step of claves.c is judged by where its *)
(* own call stands before and after it.  Where both are on the same side   *)
(* of the call's instant the step must leave the image alone (Quiet);      *)
(* the one step that crosses must have the effect that TupleStore gives    *)
(* the call (TakesEffect).                                                 *)
(***************************************************************************)
EXTENDS ServidorRpc_proofs

Refines == [AtomicStore!StoreNext]_<<StoreImage, CallImage>>

\* The step of thread t leaves it at label l in function f with result x.
Control(t, l, f, x) ==
  /\ pc' = [pc EXCEPT ![t] = l]
  /\ fn' = [fn EXCEPT ![t] = f]
  /\ ret' = [ret EXCEPT ![t] = x]

\* The call r has taken effect when its thread is at label p in function f.
Final(r, p, f) ==
  \/ p \in {"done", "del_rename"}
  \/ r.op = "modify_value" /\ f = "set_value"

-----------------------------------------------------------------------------
(* Control.                                                                *)

LEMMA GotoIs ==
  ASSUME TypeOK, NEW t \in Thread, NEW l, Goto(t, l)
  PROVE  Control(t, l, fn[t], ret[t])
BY DEF TypeOK, ClavesTypeOK, Goto, Control

\* A function that modify_value did not call returns to the server.
LEMMA ReturnsOuter ==
  ASSUME TypeOK, NEW t \in Thread, NEW x, Returns(t, x),
         \/ req[t].op # "modify_value"
         \/ fn[t] \notin {"delete_key", "set_value"}
  PROVE  Control(t, "done", fn[t], x)
BY DEF TypeOK, ClavesTypeOK, Returns, Control

\* modify_value goes on with set_value, whatever its delete_key returned ...
LEMMA ReturnsDelete ==
  ASSUME TypeOK, NEW t \in Thread, NEW x, Returns(t, x),
         req[t].op = "modify_value", fn[t] = "delete_key"
  PROVE  Control(t, "exist_open", "set_value", ret[t])
BY DEF TypeOK, ClavesTypeOK, Returns, Control

\* ... and returns 0, whatever its set_value returned.
LEMMA ReturnsSet ==
  ASSUME TypeOK, NEW t \in Thread, NEW x, Returns(t, x),
         req[t].op = "modify_value", fn[t] = "set_value"
  PROVE  Control(t, "done", "set_value", Result(0))
BY DEF TypeOK, ClavesTypeOK, Returns, Control

\* What the holder's step does to the other threads' part of RInv: nothing.
LEMMA HolderR ==
  ASSUME IInv, RInv, NEW t \in Thread, stage[t] = "locked", UNCHANGED rpcVars,
         req' = req, NEW l \in Label \ {"idle"}, NEW f, NEW x, Control(t, l, f, x),
         FunctionOK(t)', CopyOK(t)', \A i \in Inode : AsPrinted(content'[i])
  PROVE  RInv'
<1>1. TypeOK /\ ClavesTypeOK
  BY DEF IInv, TypeOK
<1>2. /\ stage' = stage /\ arg' = arg
      /\ pc'[t] = l
      /\ \A u \in Thread \ {t} : pc'[u] = pc[u] /\ fn'[u] = fn[u]
  BY <1>1 DEF ClavesTypeOK, Control, rpcVars
<1>3. \A u \in Thread : RequestOK(u)'
  BY <1>2 DEF RInv, RequestOK
<1>4. ASSUME NEW u \in Thread \ {t}
      PROVE  FunctionOK(u)' /\ CopyOK(u)'
  <2>1. pc'[u] = "idle" /\ fn'[u] = fn[u] /\ FunctionOK(u)
    BY <1>2, OthersIdle DEF RInv
  <2> QED
    BY <2>1 DEF FunctionOK, CopyOK, Inner, Deleting
<1> QED
  BY <1>3, <1>4 DEF RInv

-----------------------------------------------------------------------------
(* The image of the store.                                                 *)

\* What the holder of m makes of the store.
HolderView ==
  \A t \in Thread : stage[t] = "locked" =>
    /\ FileStore = IF pc[t] = "del_rename" THEN Tuples(Temp) ELSE Tuples(Data)
    /\ StoreImage = IF Reinserts(t)
                      THEN AtomicStore!Bind(FileStore, req[t].key, Printed[req[t].val])
                      ELSE FileStore

LEMMA HolderImage ==
  IInv /\ RInv => HolderView
<1> SUFFICES ASSUME IInv, RInv, NEW t \in Thread, stage[t] = "locked"
             PROVE  /\ FileStore = IF pc[t] = "del_rename" THEN Tuples(Temp) ELSE Tuples(Data)
                    /\ StoreImage = IF Reinserts(t)
                         THEN AtomicStore!Bind(FileStore, req[t].key, Printed[req[t].val])
                         ELSE FileStore
  BY DEF HolderView
<1>1. \A u \in Thread : u # t => pc[u] = "idle" /\ ~Reinserts(u)
  <2>1. \A u \in Thread : u # t => pc[u] = "idle" /\ stage[u] # "locked"
    BY OthersIdle
  <2>2. \A u \in Thread : u # t => req[u].op = "none"
    BY <2>1 DEF RInv, RequestOK, NoRequest
  <2> QED BY <2>1, <2>2 DEF Reinserts
<1>2. Renaming <=> pc[t] = "del_rename"
  BY <1>1 DEF Renaming, At
<1>3. pc[t] = "del_rename" => ~Exists(Data)
  BY DEF RInv, CopyOK
<1>4. FileStore = IF pc[t] = "del_rename" THEN Tuples(Temp) ELSE Tuples(Data)
  BY <1>2, <1>3 DEF FileStore
<1>5. CASE Reinserts(t)
  <2>1. (CHOOSE u \in Thread : Reinserts(u)) = t
    BY <1>1, <1>5
  <2> QED
    BY <1>4, <1>5, <2>1 DEF StoreImage, AtomicStore!Bind
<1>6. CASE ~Reinserts(t)
  BY <1>1, <1>4, <1>6 DEF StoreImage
<1> QED
  BY <1>4, <1>5, <1>6

LEMMA HolderImageNext ==
  IInv' /\ RInv' => HolderView'
BY HolderImage, PTL

\* With m free, data.txt is the store.
FreeView ==
  (\A t \in Thread : stage[t] # "locked") => StoreImage = Tuples(Data)

LEMMA FreeImage ==
  IInv /\ RInv => FreeView
<1> SUFFICES ASSUME IInv, RInv, \A t \in Thread : stage[t] # "locked"
             PROVE  StoreImage = Tuples(Data)
  BY DEF FreeView
<1>1. \A u \in Thread : pc[u] = "idle" /\ req[u].op = "none"
  BY DEF RInv, RequestOK, NoRequest
<1>2. ~Renaming /\ \A u \in Thread : ~Reinserts(u)
  BY <1>1 DEF Renaming, Reinserts, At
<1> QED
  BY <1>2 DEF StoreImage, FileStore

LEMMA FreeImageNext ==
  IInv' /\ RInv' => FreeView'
BY FreeImage, PTL

\* The holder's step and the image of the store.
LEMMA HolderStore ==
  ASSUME IInv, RInv, IInv', RInv', NEW t \in Thread, stage[t] = "locked",
         stage' = stage, req' = req, NEW l, NEW f, NEW x, Control(t, l, f, x)
  PROVE  /\ StoreImage =
              LET s == IF pc[t] = "del_rename" THEN Tuples(Temp) ELSE Tuples(Data)
              IN IF req[t].op = "modify_value" /\ pc[t] # "done" /\ Final(req[t], pc[t], fn[t])
                   THEN AtomicStore!Bind(s, req[t].key, Printed[req[t].val]) ELSE s
         /\ StoreImage' =
              LET s == IF l = "del_rename" THEN Tuples(Temp)' ELSE Tuples(Data)'
              IN IF req[t].op = "modify_value" /\ l # "done" /\ Final(req[t], l, f)
                   THEN AtomicStore!Bind(s, req[t].key, Printed[req[t].val]) ELSE s
<1>1. HolderView /\ HolderView'
  BY HolderImage, HolderImageNext
<1>2. pc'[t] = l /\ fn'[t] = f
  BY DEF IInv, TypeOK, ClavesTypeOK, Control
<1>3. /\ Reinserts(t) <=> /\ req[t].op = "modify_value" /\ pc[t] # "done"
                          /\ Final(req[t], pc[t], fn[t])
      /\ Reinserts(t)' <=> req[t].op = "modify_value" /\ l # "done" /\ Final(req[t], l, f)
  BY <1>2 DEF Reinserts, Final, At
<1>4. /\ FileStore = IF pc[t] = "del_rename" THEN Tuples(Temp) ELSE Tuples(Data)
      /\ StoreImage = IF Reinserts(t)
                      THEN AtomicStore!Bind(FileStore, req[t].key, Printed[req[t].val])
                      ELSE FileStore
  BY <1>1 DEF HolderView
<1>5. /\ FileStore' = IF l = "del_rename" THEN Tuples(Temp)' ELSE Tuples(Data)'
      /\ StoreImage' = IF Reinserts(t)'
                      THEN AtomicStore!Bind(FileStore', req[t].key, Printed[req[t].val])
                      ELSE FileStore'
  BY <1>1, <1>2 DEF HolderView, AtomicStore!Bind
<1> QED
  BY <1>3, <1>4, <1>5

-----------------------------------------------------------------------------
(* The image of the calls.                                                 *)

LEMMA HolderCall ==
  ASSUME IInv, RInv, NEW t \in Thread, stage[t] = "locked", UNCHANGED rpcVars,
         req' = req, NEW l, NEW f, NEW x, Control(t, l, f, x)
  PROVE  /\ CallImage[t] =
              IF Final(req[t], pc[t], fn[t])
                THEN Done(arg[t], IF pc[t] = "done" THEN ret[t] ELSE Result(0))
                ELSE Pending(arg[t])
         /\ CallImage' = [CallImage EXCEPT ![t] =
              IF Final(req[t], l, f)
                THEN Done(arg[t], IF l = "done" THEN x ELSE Result(0))
                ELSE Pending(arg[t])]
<1>1. /\ stage' = stage /\ arg' = arg
      /\ pc'[t] = l /\ fn'[t] = f /\ ret'[t] = x
      /\ \A u \in Thread \ {t} : ret'[u] = ret[u]
  BY DEF IInv, TypeOK, ClavesTypeOK, Control, rpcVars
<1>2. /\ Performed(t) <=> Final(req[t], pc[t], fn[t])
      /\ Performed(t)' <=> Final(req[t], l, f)
  BY <1>1 DEF Performed, Reinserts, Final, At
<1>3. CallImage[t] =
        IF Final(req[t], pc[t], fn[t])
          THEN Done(arg[t], IF pc[t] = "done" THEN ret[t] ELSE Result(0))
          ELSE Pending(arg[t])
  BY <1>2 DEF CallImage, At
<1>4. CallImage'[t] =
        IF Final(req[t], l, f)
          THEN Done(arg[t], IF l = "done" THEN x ELSE Result(0))
          ELSE Pending(arg[t])
  BY <1>1, <1>2 DEF CallImage, At
<1>5. ASSUME NEW u \in Thread \ {t}
      PROVE  CallImage'[u] = CallImage[u]
  <2>1. stage[u] # "locked" /\ stage'[u] = stage[u] /\ arg'[u] = arg[u] /\ ret'[u] = ret[u]
    BY <1>1, OthersIdle
  <2>2. Performed(u)' <=> Performed(u)
    BY <2>1 DEF Performed
  <2> QED
    BY <2>1, <2>2 DEF CallImage
<1>6. DOMAIN CallImage = Thread /\ DOMAIN CallImage' = Thread
      /\ CallImage = [u \in Thread |-> CallImage[u]]
      /\ CallImage' = [u \in Thread |-> CallImage'[u]]
  BY DEF CallImage
<1> QED
  BY <1>3, <1>4, <1>5, <1>6

\* A step that does not cross the instant of its call, and leaves the image
\* of the store as it was, is a stutter.
LEMMA Quiet ==
  ASSUME IInv, RInv, NEW t \in Thread, stage[t] = "locked", UNCHANGED rpcVars,
         req' = req, NEW l, NEW f, NEW x, Control(t, l, f, x), pc[t] # "done",
         Final(req[t], l, f) <=> Final(req[t], pc[t], fn[t]),
         Final(req[t], l, f) /\ l = "done" => x = Result(0),
         StoreImage' = StoreImage
  PROVE  Refines
<1>1. CallImage' = [CallImage EXCEPT ![t] = CallImage[t]]
  BY HolderCall
<1>2. [CallImage EXCEPT ![t] = CallImage[t]] = CallImage
  BY DEF CallImage
<1> QED
  BY <1>1, <1>2 DEF Refines

\* A step that crosses it with the effect of the call performs the call.
LEMMA TakesEffect ==
  ASSUME IInv, RInv, NEW t \in Thread, stage[t] = "locked", UNCHANGED rpcVars,
         req' = req, NEW l, NEW f, NEW x, Control(t, l, f, x),
         ~Final(req[t], pc[t], fn[t]), Final(req[t], l, f),
         NEW y \in Reply, y = IF l = "done" THEN x ELSE Result(0),
         \/ AtomicStore!Destroyed(req[t], y) \/ AtomicStore!Inserted(req[t], y)
         \/ AtomicStore!Modified(req[t], y) \/ AtomicStore!Deleted(req[t], y)
         \/ AtomicStore!Obtained(req[t], y) \/ AtomicStore!Found(req[t], y)
  PROVE  Refines
<1>1. req[t] = arg[t]
  BY DEF RInv, RequestOK
<1>2. CallImage[t] = Pending(req[t]) /\ CallImage' = [CallImage EXCEPT ![t] = Done(req[t], y)]
  BY <1>1, HolderCall
<1>3. CallImage[t].st = "pending" /\ CallImage[t].req = req[t]
  BY <1>2 DEF Pending
<1>4. y \in AtomicStore!Reply /\ Done(req[t], y) = AtomicStore!Done(req[t], y)
  BY DEF AtomicStore!Reply, Reply, Done, AtomicStore!Done
<1>5. AtomicStore!Perform(t)
  BY <1>2, <1>3, <1>4 DEF AtomicStore!Perform
<1> QED
  BY <1>5 DEF Refines, AtomicStore!StoreNext

\* A step inside the call that leaves data.txt alone.
LEMMA StaysQuiet ==
  ASSUME IInv, RInv, IInv', RInv', NEW t \in Thread, stage[t] = "locked",
         UNCHANGED rpcVars, req' = req, NEW l, NEW f, NEW x, Control(t, l, f, x),
         pc[t] \notin {"done", "del_rename"}, l \notin {"done", "del_rename"},
         req[t].op = "modify_value" => (f = "set_value" <=> fn[t] = "set_value"),
         Tuples(Data)' = Tuples(Data)
  PROVE  Refines
<1>1. Final(req[t], l, f) <=> Final(req[t], pc[t], fn[t])
  BY DEF Final
<1>2. StoreImage' = StoreImage
  BY <1>1, HolderStore DEF rpcVars
<1> QED
  BY <1>1, <1>2, Quiet

\* A step that ends the call from outside modify_value's set_value: data.txt
\* is the store before it and after it.
LEMMA EndsImage ==
  ASSUME IInv, RInv, IInv', RInv', NEW t \in Thread, stage[t] = "locked",
         UNCHANGED rpcVars, req' = req, NEW f, NEW x, Control(t, "done", f, x),
         pc[t] \notin {"done", "del_rename"},
         req[t].op = "modify_value" => fn[t] # "set_value"
  PROVE  /\ ~Final(req[t], pc[t], fn[t]) /\ Final(req[t], "done", f)
         /\ StoreImage = Tuples(Data) /\ StoreImage' = Tuples(Data)'
<1>1. ~Final(req[t], pc[t], fn[t]) /\ Final(req[t], "done", f)
  BY DEF Final
<1> QED
  BY <1>1, HolderStore DEF rpcVars

\* An empty file, or none, stands for the empty store.
LEMMA NoTuples ==
  KeysOf(<<>>) = {} /\ TuplesOf(<<>>) = [k \in {} |-> NoValue]
<1>1. KeysOf(<<>>) = {}
  <2>1. DOMAIN <<>> = {}
    OBVIOUS
  <2> QED BY <2>1 DEF KeysOf
<1> QED
  BY <1>1 DEF TuplesOf

LEMMA DataDomain ==
  DOMAIN Tuples(Data) = IF Exists(Data) THEN KeysOf(content[dir[Data]]) ELSE {}
<1>1. CASE Exists(Data)
  BY <1>1 DEF Tuples, TuplesOf
<1>2. CASE ~Exists(Data)
  <2>1. Tuples(Data) = [k \in {} |-> NoValue]
    BY <1>2, NoTuples DEF Tuples
  <2> QED BY <1>2, <2>1
<1> QED
  BY <1>1, <1>2

-----------------------------------------------------------------------------
(* One lemma per step of claves.c: it preserves RInv, and refines.         *)

\* exist returns.  Every failure of set_value, modify_value, delete_key and
\* get_value for want of (or because of) the key takes effect here.
LEMMA ExistReturnsRefines ==
  ASSUME IInv, RInv, IInv', NEW t \in Thread, stage[t] = "locked", UNCHANGED rpcVars,
         pc[t] \in {"exist_open", "exist_scan"},
         dir' = dir, content' = content, req' = req,
         NEW found \in BOOLEAN, ExistReturns(t, found),
         found <=> Exists(Data) /\ req[t].key \in KeysOf(content[dir[Data]])
  PROVE  RInv' /\ Refines
<1>1. TypeOK /\ FunctionOK(t) /\ CopyOK(t)
  BY DEF IInv, RInv
<1>2. Tuples(Data)' = Tuples(Data) /\ (Exists(Data)' <=> Exists(Data))
  BY DEF Tuples, Exists
<1>3. found <=> req[t].key \in DOMAIN Tuples(Data)
  BY DataDomain
<1>4. \A i \in Inode : AsPrinted(content'[i])
  BY DEF RInv
<1>5. /\ {"done", "exist_open", "get_open", "set_open", "del_open"} \subseteq Label \ {"idle"}
      /\ \A n \in {-1, 0, 1} : Result(n) \in Reply
  BY DEF Label, Result, Reply
\* The call ends with result x and the store stays as it is.
<1>6. ASSUME NEW x \in Reply, Control(t, "done", fn[t], x),
             req[t].op = "modify_value" => fn[t] \notin {"delete_key", "set_value"},
             StoreImage' = StoreImage /\ DOMAIN StoreImage = DOMAIN Tuples(Data) =>
               \/ AtomicStore!Inserted(req[t], x) \/ AtomicStore!Modified(req[t], x)
               \/ AtomicStore!Deleted(req[t], x) \/ AtomicStore!Obtained(req[t], x)
               \/ AtomicStore!Found(req[t], x)
      PROVE  RInv' /\ Refines
  <2>1. pc'[t] = "done" /\ fn'[t] = fn[t]
    BY <1>1, <1>6 DEF TypeOK, ClavesTypeOK, Control
  <2>2. FunctionOK(t)' /\ CopyOK(t)'
    BY <1>1, <2>1 DEF FunctionOK, CopyOK, Inner, Deleting
  <2>3. RInv'
    BY <1>4, <1>5, <1>6, <2>2, HolderR
  <2>4. /\ ~Final(req[t], pc[t], fn[t]) /\ Final(req[t], "done", fn[t])
        /\ StoreImage = Tuples(Data) /\ StoreImage' = Tuples(Data)'
    BY <1>6, <2>3, EndsImage
  <2>5. Refines
    BY <1>2, <1>6, <2>4, TakesEffect
  <2> QED BY <2>3, <2>5
\* The call goes on at label l in function f.
<1>7. ASSUME NEW l \in {"exist_open", "get_open", "set_open", "del_open"}, NEW f,
             Control(t, l, f, ret[t]),
             req[t].op = "modify_value" => (f = "set_value" <=> fn[t] = "set_value"),
             \/ f = req[t].op
             \/ req[t].op = "modify_value" /\ f \in {"delete_key", "set_value"},
             l = "get_open" => f = "get_value",
             l = "del_open" => f = "delete_key" /\ found,
             l = "exist_open" => f = "delete_key" /\ found
      PROVE  RInv' /\ Refines
  <2>1. pc'[t] = l /\ fn'[t] = f
    BY <1>1, <1>7 DEF TypeOK, ClavesTypeOK, Control
  <2>2. FunctionOK(t)'
    BY <1>7, <2>1 DEF FunctionOK, Deleting
  <2>3. CopyOK(t)'
    BY <1>2, <1>7, <2>1 DEF CopyOK, Inner, Deleting
  <2>4. RInv'
    BY <1>4, <1>5, <1>7, <2>2, <2>3, HolderR
  <2>5. Refines
    BY <1>2, <1>7, <2>4, StaysQuiet
  <2> QED BY <2>4, <2>5
<1>8. CASE fn[t] = "exist"
  <2>1. Control(t, "done", fn[t], Result(IF found THEN 1 ELSE 0)) /\ req[t].op = "exist"
    BY <1>1, <1>8, ReturnsOuter DEF ExistReturns, FunctionOK
  <2>2. StoreImage' = StoreImage /\ DOMAIN StoreImage = DOMAIN Tuples(Data) =>
          AtomicStore!Found(req[t], Result(IF found THEN 1 ELSE 0))
    BY <1>3, <2>1 DEF AtomicStore!Found, AtomicStore!Result, Result
  <2> QED BY <1>5, <1>6, <2>1, <2>2
<1>9. CASE fn[t] = "get_value"
  <2>1. req[t].op = "get_value"
    BY <1>1, <1>9 DEF FunctionOK
  <2>2. CASE found
    <3>1. Control(t, "get_open", "get_value", ret[t])
      BY <1>1, <1>9, <2>2, GotoIs DEF ExistReturns
    <3> QED BY <1>7, <1>9, <2>1, <3>1
  <2>3. CASE ~found
    <3>1. Control(t, "done", fn[t], Result(-1))
      BY <1>1, <1>9, <2>1, <2>3, ReturnsOuter DEF ExistReturns
    <3>2. StoreImage' = StoreImage /\ DOMAIN StoreImage = DOMAIN Tuples(Data) =>
            AtomicStore!Obtained(req[t], Result(-1))
      BY <1>3, <2>1, <2>3 DEF AtomicStore!Obtained, AtomicStore!Result, Result
    <3> QED BY <1>5, <1>6, <2>1, <3>1, <3>2
  <2> QED BY <2>2, <2>3
<1>10. CASE fn[t] = "set_value" /\ req[t].op = "set_value"
  <2>1. CASE found
    <3>1. Control(t, "done", fn[t], Result(-1))
      BY <1>1, <1>10, <2>1, ReturnsOuter DEF ExistReturns
    <3>2. StoreImage' = StoreImage /\ DOMAIN StoreImage = DOMAIN Tuples(Data) =>
            AtomicStore!Inserted(req[t], Result(-1))
      BY <1>3, <1>10, <2>1 DEF AtomicStore!Inserted, AtomicStore!Result, Result
    <3> QED BY <1>5, <1>6, <1>10, <3>1, <3>2
  <2>2. CASE ~found
    <3>1. Control(t, "set_open", "set_value", ret[t])
      BY <1>1, <1>10, <2>2, GotoIs DEF ExistReturns
    <3> QED BY <1>7, <1>10, <3>1
  <2> QED BY <2>1, <2>2
<1>11. CASE fn[t] = "set_value" /\ req[t].op = "modify_value"
  <2>1. ~found
    BY <1>1, <1>11 DEF CopyOK, Inner
  <2>2. Control(t, "set_open", "set_value", ret[t])
    BY <1>1, <1>11, <2>1, GotoIs DEF ExistReturns
  <2> QED BY <1>7, <1>11, <2>2
<1>12. CASE fn[t] = "delete_key" /\ found
  <2>1. Control(t, "del_open", "delete_key", ret[t])
    BY <1>1, <1>12, GotoIs DEF ExistReturns
  <2>2. req[t].op \in {"delete_key", "modify_value"}
    BY <1>1, <1>12 DEF FunctionOK
  <2> QED BY <1>7, <1>12, <2>1, <2>2
<1>13. CASE fn[t] = "delete_key" /\ ~found
  <2>1. req[t].op = "delete_key"
    BY <1>1, <1>13 DEF FunctionOK, CopyOK, Inner
  <2>2. Control(t, "done", fn[t], Result(-1))
    BY <1>1, <1>13, <2>1, ReturnsOuter DEF ExistReturns
  <2>3. StoreImage' = StoreImage /\ DOMAIN StoreImage = DOMAIN Tuples(Data) =>
          AtomicStore!Deleted(req[t], Result(-1))
    BY <1>3, <1>13, <2>1 DEF AtomicStore!Deleted, AtomicStore!Result, Result
  <2> QED BY <1>5, <1>6, <2>1, <2>2, <2>3
<1>14. CASE fn[t] = "modify_value"
  <2>1. req[t].op = "modify_value"
    BY <1>1, <1>14 DEF FunctionOK
  <2>2. CASE found
    <3>1. Control(t, "exist_open", "delete_key", ret[t])
      BY <1>1, <1>14, <2>2 DEF ExistReturns, Control, TypeOK, ClavesTypeOK
    <3> QED BY <1>7, <1>14, <2>1, <2>2, <3>1
  <2>3. CASE ~found
    <3>1. Control(t, "done", fn[t], Result(-1))
      BY <1>1, <1>14, <2>1, <2>3, ReturnsOuter DEF ExistReturns
    <3>2. StoreImage' = StoreImage /\ DOMAIN StoreImage = DOMAIN Tuples(Data) =>
            AtomicStore!Modified(req[t], Result(-1))
      BY <1>3, <2>1, <2>3 DEF AtomicStore!Modified, AtomicStore!Result, Result
    <3> QED BY <1>5, <1>6, <1>14, <2>1, <3>1, <3>2
  <2> QED BY <2>2, <2>3
<1> QED
  BY <1>1, <1>8, <1>9, <1>10, <1>11, <1>12, <1>13, <1>14 DEF ExistReturns, FunctionOK

LEMMA ExistOpenRefines ==
  ASSUME Faults = FALSE, IInv, RInv, NEW t \in Thread, stage[t] = "locked",
         UNCHANGED rpcVars, ExistOpen(t)
  PROVE  RInv' /\ Refines
<1>1. IInv'
  BY ExistOpenStep
<1>2. TypeOK /\ FunctionOK(t) /\ CopyOK(t)
  BY DEF IInv, RInv
<1>3. pc[t] = "exist_open" /\ dir' = dir /\ content' = content /\ req' = req
  BY DEF ExistOpen, At
<1>4. CASE Exists(Data) /\ Goto(t, "exist_scan")
  <2>1. Control(t, "exist_scan", fn[t], ret[t])
    BY <1>2, <1>4, GotoIs
  <2>2. pc'[t] = "exist_scan" /\ fn'[t] = fn[t]
    BY <1>2, <2>1 DEF TypeOK, ClavesTypeOK, Control
  <2>3. FunctionOK(t)' /\ CopyOK(t)'
    BY <1>2, <1>3, <2>2 DEF FunctionOK, CopyOK, Inner, Deleting, Exists
  <2>4. RInv'
    BY <1>3, <2>1, <2>3, HolderR DEF RInv, Label
  <2>5. Tuples(Data)' = Tuples(Data)
    BY <1>3 DEF Tuples, Exists
  <2>6. Refines
    BY <1>1, <1>3, <2>1, <2>4, <2>5, StaysQuiet
  <2> QED BY <2>4, <2>6
<1>5. CASE ~Exists(Data) /\ ExistReturns(t, FALSE)
  BY <1>1, <1>3, <1>5, ExistReturnsRefines
<1> QED
  BY <1>4, <1>5 DEF ExistOpen

LEMMA ExistScanRefines ==
  ASSUME IInv, RInv, NEW t \in Thread, stage[t] = "locked",
         UNCHANGED rpcVars, ExistScan(t)
  PROVE  RInv' /\ Refines
<1> DEFINE found == req[t].key \in KeysOf(content[dir[Data]])
<1>1. IInv'
  BY ExistScanStep
<1>2. pc[t] = "exist_scan" /\ dir' = dir /\ content' = content /\ req' = req
  BY DEF ExistScan, At
<1>3. rd[t] = dir[Data] /\ Exists(Data)
  BY <1>2 DEF IInv, FrameOK, Reading
<1>4. ExistReturns(t, found) /\ found \in BOOLEAN
  BY <1>3 DEF ExistScan
<1>5. found <=> Exists(Data) /\ req[t].key \in KeysOf(content[dir[Data]])
  BY <1>3
<1> HIDE DEF found
<1> QED
  BY <1>1, <1>2, <1>4, <1>5, ExistReturnsRefines

\* get_value after its exist; without data.txt it takes effect here.
LEMMA GetOpenRefines ==
  ASSUME Faults = FALSE, IInv, RInv, NEW t \in Thread, stage[t] = "locked",
         UNCHANGED rpcVars, GetOpen(t)
  PROVE  RInv' /\ Refines
<1>1. IInv'
  BY GetOpenStep
<1>2. TypeOK /\ FunctionOK(t) /\ CopyOK(t)
  BY DEF IInv, RInv
<1>3. pc[t] = "get_open" /\ dir' = dir /\ content' = content /\ req' = req
  BY DEF GetOpen, At
<1>4. fn[t] = "get_value" /\ req[t].op = "get_value"
  BY <1>2, <1>3 DEF FunctionOK
<1>5. Tuples(Data)' = Tuples(Data)
  BY <1>3 DEF Tuples, Exists
<1>6. \A l \in {"get_scan", "done"} : \A x : Control(t, l, fn[t], x) => RInv'
  <2> SUFFICES ASSUME NEW l \in {"get_scan", "done"}, NEW x, Control(t, l, fn[t], x)
               PROVE  RInv'
    OBVIOUS
  <2>1. pc'[t] = l /\ fn'[t] = fn[t]
    BY <1>2 DEF TypeOK, ClavesTypeOK, Control
  <2>2. FunctionOK(t)' /\ CopyOK(t)'
    BY <1>2, <1>3, <1>4, <2>1 DEF FunctionOK, CopyOK, Inner, Deleting
  <2> QED
    BY <1>3, <2>2, HolderR DEF RInv, Label
<1>7. CASE Goto(t, "get_scan")
  <2>1. Control(t, "get_scan", fn[t], ret[t])
    BY <1>2, <1>7, GotoIs
  <2> QED
    BY <1>1, <1>3, <1>4, <1>5, <1>6, <2>1, StaysQuiet
<1>8. CASE ~Exists(Data) /\ Returns(t, Result(-1))
  <2>1. Control(t, "done", fn[t], Result(-1)) /\ Result(-1) \in Reply
    BY <1>2, <1>4, <1>8, ReturnsOuter DEF Result, Reply
  <2>2. RInv'
    BY <1>6, <2>1
  <2>3. /\ ~Final(req[t], pc[t], fn[t]) /\ Final(req[t], "done", fn[t])
        /\ StoreImage = Tuples(Data) /\ StoreImage' = Tuples(Data)'
    BY <1>1, <1>3, <1>4, <2>1, <2>2, EndsImage
  <2>4. req[t].key \notin DOMAIN StoreImage
    BY <1>8, <2>3, DataDomain
  <2>5. AtomicStore!Obtained(req[t], Result(-1))
    BY <1>4, <1>5, <2>3, <2>4 DEF AtomicStore!Obtained, AtomicStore!Result, Result
  <2> QED
    BY <1>3, <2>1, <2>2, <2>3, <2>5, TakesEffect
<1> QED
  BY <1>7, <1>8 DEF GetOpen

\* The scan of get_value is its instant.
LEMMA GetScanRefines ==
  ASSUME IInv, RInv, NEW t \in Thread, stage[t] = "locked",
         UNCHANGED rpcVars, GetScan(t)
  PROVE  RInv' /\ Refines
<1> DEFINE k == req[t].key
           s == content[dir[Data]]
           x == IF k \in KeysOf(s) THEN [res |-> 0, val |-> Lookup(s, k)]
                                   ELSE Result(-1)
<1>1. IInv'
  BY GetScanStep
<1>2. TypeOK /\ FunctionOK(t) /\ CopyOK(t)
  BY DEF IInv, RInv
<1>3. pc[t] = "get_scan" /\ dir' = dir /\ content' = content /\ req' = req
  BY DEF GetScan, At
<1>4. fn[t] = "get_value" /\ req[t].op = "get_value"
  BY <1>2, <1>3 DEF FunctionOK
<1>5. rd[t] = dir[Data] /\ Exists(Data)
  BY <1>3 DEF IInv, FrameOK, Reading
<1>6. Returns(t, x)
  BY <1>5 DEF GetScan
<1> HIDE DEF x, s
<1>7. Control(t, "done", fn[t], x)
  BY <1>2, <1>4, <1>6, ReturnsOuter
<1>8. pc'[t] = "done" /\ fn'[t] = fn[t] /\ ret'[t] = x
  BY <1>2, <1>7 DEF TypeOK, ClavesTypeOK, Control
<1>9. FunctionOK(t)' /\ CopyOK(t)'
  BY <1>2, <1>3, <1>4, <1>8 DEF FunctionOK, CopyOK, Inner, Deleting
<1>10. RInv'
  BY <1>3, <1>7, <1>9, HolderR DEF RInv, Label
<1>11. /\ ~Final(req[t], pc[t], fn[t]) /\ Final(req[t], "done", fn[t])
       /\ StoreImage = Tuples(Data) /\ StoreImage' = Tuples(Data)'
  BY <1>1, <1>3, <1>4, <1>7, <1>10, EndsImage
<1>12. x \in Reply
  BY <1>1, <1>8 DEF IInv, TypeOK, ClavesTypeOK
<1>13. Tuples(Data)' = Tuples(Data) /\ Tuples(Data) = TuplesOf(s)
  BY <1>3, <1>5 DEF Tuples, Exists, s
<1>14. AtomicStore!Obtained(req[t], x)
  <2>1. DOMAIN TuplesOf(s) = KeysOf(s) /\ (k \in KeysOf(s) => TuplesOf(s)[k] = Lookup(s, k))
    BY DEF TuplesOf
  <2> QED
    BY <1>4, <1>11, <1>13, <2>1 DEF AtomicStore!Obtained, AtomicStore!Result, Result, x
<1> QED
  BY <1>3, <1>7, <1>10, <1>11, <1>12, <1>14, TakesEffect

-----------------------------------------------------------------------------
(* The steps that write.                                                   *)

LEMMA DestroyRefines ==
  ASSUME Faults = FALSE, IInv, RInv, NEW t \in Thread, stage[t] = "locked",
         UNCHANGED rpcVars, Destroy(t)
  PROVE  RInv' /\ Refines
<1>1. IInv'
  BY DestroyStep
<1>2. TypeOK /\ ClavesTypeOK /\ FunctionOK(t) /\ CopyOK(t) /\ TwoFiles
  BY DEF IInv, RInv, TypeOK
<1>3. pc[t] = "destroy" /\ req' = req /\ Returns(t, Result(0))
  BY DEF Destroy, At
<1>4. fn[t] = "destroy" /\ req[t].op = "destroy"
  BY <1>2, <1>3 DEF FunctionOK
<1>5. PICK i \in Inode : Truncates(Data, i)
  BY DEF Destroy
<1>6. dir'[Data] = i /\ i # NoInode /\ content' = [content EXCEPT ![i] = <<>>]
  BY <1>2, <1>5, TruncatesEffect DEF FileName, Truncates
<1>7. Control(t, "done", fn[t], Result(0))
  BY <1>2, <1>3, <1>4, ReturnsOuter
<1>8. pc'[t] = "done" /\ fn'[t] = fn[t]
  BY <1>2, <1>7 DEF ClavesTypeOK, Control
<1>9. FunctionOK(t)' /\ CopyOK(t)'
  BY <1>2, <1>3, <1>4, <1>8 DEF FunctionOK, CopyOK, Inner, Deleting
<1>10. \A j \in Inode : AsPrinted(content'[j])
  BY <1>2, <1>6 DEF ClavesTypeOK, RInv, AsPrinted
<1>11. RInv'
  BY <1>3, <1>7, <1>9, <1>10, HolderR DEF Label
<1>12. Tuples(Data)' = [k \in {} |-> NoValue]
  <2>1. content'[i] = <<>>
    BY <1>2, <1>6 DEF ClavesTypeOK
  <2> QED
    BY <1>6, <2>1, NoTuples DEF Tuples, Exists
<1>13. /\ ~Final(req[t], pc[t], fn[t]) /\ Final(req[t], "done", fn[t])
       /\ StoreImage' = Tuples(Data)'
  BY <1>1, <1>3, <1>4, <1>7, <1>11, EndsImage
<1>14. AtomicStore!Destroyed(req[t], Result(0))
  BY <1>4, <1>12, <1>13 DEF AtomicStore!Destroyed, AtomicStore!Result, Result
<1>15. Result(0) \in Reply
  BY DEF Result, Reply
<1> QED
  BY <1>3, <1>7, <1>11, <1>13, <1>14, <1>15, TakesEffect

\* Opening data.txt to append may create it, empty: the same store.
LEMMA SetOpenRefines ==
  ASSUME Faults = FALSE, IInv, RInv, NEW t \in Thread, stage[t] = "locked",
         UNCHANGED rpcVars, SetOpen(t)
  PROVE  RInv' /\ Refines
<1>1. IInv'
  BY SetOpenStep
<1>2. TypeOK /\ ClavesTypeOK /\ CallOK(t) /\ FunctionOK(t) /\ CopyOK(t)
  BY DEF IInv, RInv, TypeOK
<1>3. pc[t] = "set_open" /\ req' = req /\ Goto(t, "set_flush")
  BY DEF SetOpen, At
<1>4. PICK i \in Inode : Appends(Data, i)
  BY DEF SetOpen
<1>5. /\ dir' = [dir EXCEPT ![Data] = i] /\ i \in Opened(Data)
      /\ content' = [content EXCEPT ![i] = IF Exists(Data) THEN @ ELSE <<>>]
  BY <1>4 DEF Appends
<1>6. i # NoInode /\ dir'[Data] = i
  BY <1>2, <1>5, ClavesAssumption DEF ClavesTypeOK, FileName
<1>7. Tuples(Data)' = Tuples(Data) /\ \A j \in Inode : AsPrinted(content'[j])
  <2>1. CASE Exists(Data)
    <3>1. i = dir[Data] /\ content' = content
      BY <1>2, <1>5, <2>1 DEF Opened, ClavesTypeOK
    <3> QED
      BY <1>6, <2>1, <3>1 DEF Tuples, Exists, RInv
  <2>2. CASE ~Exists(Data)
    <3>1. content'[i] = <<>> /\ \A j \in Inode \ {i} : content'[j] = content[j]
      BY <1>2, <1>5, <2>2 DEF ClavesTypeOK
    <3>2. Tuples(Data)' = Tuples(Data)
      BY <1>6, <2>2, <3>1 DEF Tuples, Exists
    <3> QED
      BY <3>1, <3>2 DEF RInv, AsPrinted
  <2> QED BY <2>1, <2>2
<1>8. Control(t, "set_flush", fn[t], ret[t])
  BY <1>2, <1>3, GotoIs
<1>9. pc'[t] = "set_flush" /\ fn'[t] = fn[t]
  BY <1>2, <1>8 DEF ClavesTypeOK, Control
<1>10. FunctionOK(t)' /\ CopyOK(t)'
  BY <1>2, <1>3, <1>9 DEF FunctionOK, CopyOK, Inner, Deleting
<1>11. RInv'
  BY <1>3, <1>7, <1>8, <1>10, HolderR DEF Label
<1>12. Refines
  BY <1>1, <1>3, <1>7, <1>8, <1>11, StaysQuiet
<1> QED
  BY <1>11, <1>12

\* set_value adds one tuple to what data.txt stands for and changes no other.
LEMMA AppendTuples ==
  ASSUME NEW s \in Seq(Line), NEW l \in Line, Unique(s), l.key \notin KeysOf(s)
  PROVE  LET u == TuplesOf(Append(s, l))
         IN /\ DOMAIN u = KeysOf(s) \cup {l.key}
            /\ u[l.key] = l.val
            /\ \A k \in KeysOf(s) : u[k] = TuplesOf(s)[k]
<1> DEFINE a == Append(s, l)
<1>1. /\ a \in Seq(Line) /\ Len(s) \in Nat
      /\ DOMAIN s = 1..Len(s) /\ DOMAIN a = 1..(Len(s) + 1)
      /\ \A n \in 1..Len(s) : a[n] = s[n]
      /\ a[Len(s) + 1] = l
  OBVIOUS
<1>2. KeysOf(a) = KeysOf(s) \cup {l.key} /\ Unique(a)
  BY AppendLine
<1> HIDE DEF a
<1>3. Lookup(a, l.key) = l.val
  <2>1. Len(s) + 1 \in DOMAIN a
    BY <1>1
  <2> QED BY <1>1, <1>2, <2>1, LookupUnique
<1>4. ASSUME NEW k \in KeysOf(s)
      PROVE  Lookup(a, k) = Lookup(s, k)
  <2>1. PICK n \in DOMAIN s : s[n].key = k
    BY DEF KeysOf
  <2>2. n \in DOMAIN a /\ a[n] = s[n]
    BY <1>1
  <2>3. Lookup(s, k) = s[n].val /\ Lookup(a, k) = a[n].val
    BY <1>1, <1>2, <2>1, <2>2, LookupUnique
  <2> QED BY <2>2, <2>3
<1>5. /\ DOMAIN TuplesOf(a) = KeysOf(s) \cup {l.key}
      /\ TuplesOf(a)[l.key] = l.val
      /\ \A k \in KeysOf(s) : TuplesOf(a)[k] = TuplesOf(s)[k]
  BY <1>2, <1>3, <1>4 DEF TuplesOf
<1> QED
  BY <1>5 DEF a

\* The append of set_value is its instant; of modify_value, the moment the
\* file catches up with the store.
LEMMA SetFlushRefines ==
  ASSUME Faults = FALSE, IInv, RInv, NEW t \in Thread, stage[t] = "locked",
         UNCHANGED rpcVars, SetFlush(t)
  PROVE  RInv' /\ Refines
<1> DEFINE k == req[t].key
           v == Printed[req[t].val]
           l == [key |-> k, val |-> v]
           d == dir[Data]
<1>1. IInv'
  BY SetFlushStep
<1>2. /\ TypeOK /\ ClavesTypeOK /\ CallOK(t) /\ FrameOK(t) /\ NoDuplicateKeys
      /\ FunctionOK(t) /\ CopyOK(t)
  BY DEF IInv, RInv, TypeOK
<1>3. pc[t] = "set_flush" /\ dir' = dir /\ req' = req /\ Returns(t, Result(0))
  BY DEF SetFlush, At
<1>4. wr[t] = d /\ Exists(Data) /\ k \notin KeysOf(content[d]) /\ fn[t] = "set_value"
  BY <1>2, <1>3 DEF FrameOK, CallOK
<1>5. d \in Inode /\ content[d] \in Seq(Line) /\ Unique(content[d])
  BY <1>2, <1>4 DEF ClavesTypeOK, FileName, NoDuplicateKeys, Exists
<1>6. req[t].op \in WriteOp
  BY <1>2, <1>4 DEF CallOK
<1>7. l \in Line /\ req[t].val \in Value
  BY <1>2, <1>6, InsertedLine
<1>8. content' = [content EXCEPT ![d] = Append(content[d], l)]
  BY <1>4 DEF SetFlush, Writes
<1>9. content'[d] = Append(content[d], l) /\ \A j \in Inode \ {d} : content'[j] = content[j]
  BY <1>2, <1>5, <1>8 DEF ClavesTypeOK
<1>10. Tuples(Data)' = AtomicStore!Bind(Tuples(Data), k, v)
  <2>1. l.key = k /\ l.val = v
    OBVIOUS
  <2>2. Tuples(Data) = TuplesOf(content[d]) /\ Tuples(Data)' = TuplesOf(Append(content[d], l))
    BY <1>3, <1>4, <1>9 DEF Tuples, Exists
  <2> HIDE DEF k, v, l, d
  <2>3. l.key \notin KeysOf(content[d])
    BY <1>4, <2>1
  <2> DEFINE s == content[d]
             u == TuplesOf(Append(s, l))
  <2>4. /\ DOMAIN u = KeysOf(s) \cup {l.key}
        /\ u[l.key] = l.val
        /\ \A x \in KeysOf(s) : u[x] = TuplesOf(s)[x]
    <3>1. s \in Seq(Line) /\ Unique(s) /\ l \in Line /\ l.key \notin KeysOf(s)
      BY <1>5, <1>7, <2>3
    <3> HIDE DEF s
    <3>2. DOMAIN u = KeysOf(s) \cup {l.key}
      BY <3>1, AppendTuples
    <3>3. u[l.key] = l.val
      BY <3>1, AppendTuples
    <3>4. \A x \in KeysOf(s) : u[x] = TuplesOf(s)[x]
      BY <3>1, AppendTuples
    <3> QED BY <3>2, <3>3, <3>4
  <2>5. DOMAIN TuplesOf(s) = KeysOf(s) /\ u = [x \in DOMAIN u |-> u[x]]
    BY DEF TuplesOf
  <2> HIDE DEF u, s
  <2>6. u = AtomicStore!Bind(TuplesOf(s), k, v)
    BY <2>1, <2>4, <2>5 DEF AtomicStore!Bind
  <2> QED
    BY <2>2, <2>6 DEF u, s
<1>11. \A j \in Inode : AsPrinted(content'[j])
  <2>1. AsPrinted(content[d]) /\ Printed[v] = v
    BY <1>5, <1>7, ValueAssumption DEF RInv
  <2>2. AsPrinted(Append(content[d], l))
    BY <1>5, <1>7, <2>1 DEF AsPrinted
  <2> QED
    BY <1>9, <2>2 DEF RInv
<1>12. Control(t, "done", fn[t], Result(0))
  BY <1>2, <1>3, <1>4, ReturnsOuter, ReturnsSet
<1>13. pc'[t] = "done" /\ fn'[t] = fn[t]
  BY <1>2, <1>12 DEF ClavesTypeOK, Control
<1>14. FunctionOK(t)' /\ CopyOK(t)'
  BY <1>2, <1>3, <1>13 DEF FunctionOK, CopyOK, Inner, Deleting
<1>15. RInv'
  BY <1>3, <1>11, <1>12, <1>14, HolderR DEF Label
<1>16. CASE req[t].op = "set_value"
  <2>1. /\ ~Final(req[t], pc[t], fn[t]) /\ Final(req[t], "done", fn[t])
        /\ StoreImage = Tuples(Data) /\ StoreImage' = Tuples(Data)'
    BY <1>1, <1>3, <1>12, <1>15, <1>16, EndsImage
  <2>2. k \notin DOMAIN StoreImage
    BY <1>4, <2>1, DataDomain
  <2>3. AtomicStore!Inserted(req[t], Result(0))
    BY <1>10, <1>16, <2>1, <2>2 DEF AtomicStore!Inserted, AtomicStore!Result, Result
  <2>4. Result(0) \in Reply
    BY DEF Result, Reply
  <2> QED
    BY <1>3, <1>12, <1>15, <2>1, <2>3, <2>4, TakesEffect
<1>17. CASE req[t].op = "modify_value"
  <2>1. Final(req[t], pc[t], fn[t]) /\ Final(req[t], "done", fn[t])
    BY <1>4, <1>17 DEF Final
  <2>2. StoreImage = AtomicStore!Bind(Tuples(Data), k, v) /\ StoreImage' = Tuples(Data)'
    BY <1>1, <1>3, <1>12, <1>15, <1>17, <2>1, HolderStore DEF rpcVars
  <2>3. Refines
    BY <1>3, <1>10, <1>12, <2>1, <2>2, Quiet
  <2> QED BY <1>15, <2>3
<1> QED
  BY <1>6, <1>16, <1>17 DEF WriteOp

LEMMA DelOpenRefines ==
  ASSUME Faults = FALSE, IInv, RInv, NEW t \in Thread, stage[t] = "locked",
         UNCHANGED rpcVars, DelOpen(t)
  PROVE  RInv' /\ Refines
<1>1. IInv'
  BY DelOpenStep
<1>2. TypeOK /\ ClavesTypeOK /\ FunctionOK(t) /\ CopyOK(t)
  BY DEF IInv, RInv, TypeOK
<1>3. pc[t] = "del_open" /\ dir' = dir /\ content' = content /\ req' = req
  BY DEF DelOpen, At
<1>4. Exists(Data)
  BY <1>2, <1>3 DEF CopyOK, Deleting
<1>5. Control(t, "del_temp", fn[t], ret[t])
  BY <1>2, <1>4, GotoIs DEF DelOpen
<1>6. pc'[t] = "del_temp" /\ fn'[t] = fn[t]
  BY <1>2, <1>5 DEF ClavesTypeOK, Control
<1>7. FunctionOK(t)' /\ CopyOK(t)'
  BY <1>2, <1>3, <1>6 DEF FunctionOK, CopyOK, Inner, Deleting, Exists
<1>8. RInv'
  BY <1>3, <1>5, <1>7, HolderR DEF RInv, Label
<1>9. Tuples(Data)' = Tuples(Data)
  BY <1>3 DEF Tuples, Exists
<1>10. Refines
  BY <1>1, <1>3, <1>5, <1>8, <1>9, StaysQuiet
<1> QED
  BY <1>8, <1>10

LEMMA DelTempRefines ==
  ASSUME Faults = FALSE, IInv, RInv, NEW t \in Thread, stage[t] = "locked",
         UNCHANGED rpcVars, DelTemp(t)
  PROVE  RInv' /\ Refines
<1>1. IInv'
  BY DelTempStep
<1>2. TypeOK /\ ClavesTypeOK /\ FunctionOK(t) /\ CopyOK(t) /\ TwoFiles
  BY DEF IInv, RInv, TypeOK
<1>3. pc[t] = "del_temp" /\ req' = req /\ Goto(t, "del_scan")
  BY DEF DelTemp, At
<1>4. PICK i \in Inode : Truncates(Temp, i)
  BY DEF DelTemp
<1>5. Exists(Data) /\ req[t].key \in KeysOf(content[dir[Data]])
  BY <1>2, <1>3 DEF CopyOK, Deleting
<1>6. /\ dir'[Data] = dir[Data] /\ content'[dir[Data]] = content[dir[Data]]
      /\ content' = [content EXCEPT ![i] = <<>>]
  BY <1>2, <1>4, <1>5, TruncatesEffect DEF FileName, Data, Temp, Truncates, Exists
<1>7. Control(t, "del_scan", fn[t], ret[t])
  BY <1>2, <1>3, GotoIs
<1>8. pc'[t] = "del_scan" /\ fn'[t] = fn[t]
  BY <1>2, <1>7 DEF ClavesTypeOK, Control
<1>9. FunctionOK(t)'
  BY <1>2, <1>3, <1>8 DEF FunctionOK, Deleting
<1>10. CopyOK(t)'
  BY <1>3, <1>5, <1>6, <1>8 DEF CopyOK, Inner, Deleting, Exists
<1>11. \A j \in Inode : AsPrinted(content'[j])
  BY <1>2, <1>6 DEF ClavesTypeOK, RInv, AsPrinted
<1>12. RInv'
  BY <1>3, <1>7, <1>9, <1>10, <1>11, HolderR DEF Label
<1>13. Tuples(Data)' = Tuples(Data)
  BY <1>6 DEF Tuples, Exists
<1>14. Refines
  BY <1>1, <1>3, <1>7, <1>12, <1>13, StaysQuiet
<1> QED
  BY <1>12, <1>14

\* Lines that were read back once do not change when they are printed again.
LEMMA ReprintedAgain ==
  ASSUME NEW s \in Seq(Line), AsPrinted(s)
  PROVE  Reprinted(s) = s
<1>1. \A n \in DOMAIN s : s[n] \in Line
  OBVIOUS
<1>2. \A n \in DOMAIN s : [key |-> s[n].key, val |-> Printed[s[n].val]] = s[n]
  BY <1>1 DEF AsPrinted, Line
<1>3. Reprinted(s) = [n \in DOMAIN s |-> s[n]]
  BY <1>2 DEF Reprinted
<1> QED
  BY <1>3

LEMMA DelScanRefines ==
  ASSUME IInv, RInv, NEW t \in Thread, stage[t] = "locked",
         UNCHANGED rpcVars, DelScan(t)
  PROVE  RInv' /\ Refines
<1> DEFINE s == content[dir[Data]]
           w == Without(s, req[t].key)
<1>1. IInv'
  BY DelScanStep
<1>2. TypeOK /\ ClavesTypeOK /\ FunctionOK(t) /\ CopyOK(t) /\ NoDuplicateKeys
  BY DEF IInv, RInv, TypeOK
<1>3. pc[t] = "del_scan" /\ dir' = dir /\ content' = content /\ req' = req
      /\ Goto(t, "del_flush")
  BY DEF DelScan, At
<1>4. rd[t] = dir[Data] /\ Exists(Data)
  BY <1>3 DEF IInv, FrameOK, Reading
<1>5. s \in Seq(Line) /\ AsPrinted(s) /\ req[t].key \in KeysOf(s)
  BY <1>2, <1>3, <1>4 DEF ClavesTypeOK, Exists, FileName, RInv, CopyOK, Deleting
<1>6. buf' = [buf EXCEPT ![t] = Reprinted(w)]
  BY <1>4 DEF DelScan
<1>7. w \in Seq(Line) /\ \A n \in DOMAIN w : \E j \in DOMAIN s : w[n] = s[j]
  <2> HIDE DEF s
  <2>1. w \in Seq(Line)
    BY <1>5, WithoutLines
  <2>2. \A n \in DOMAIN w : \E j \in DOMAIN s : s[j].key # req[t].key /\ w[n] = s[j]
    BY <1>5, WithoutLines
  <2> QED BY <2>1, <2>2
<1>8. Reprinted(w) = w
  <2> HIDE DEF s, w
  <2>1. AsPrinted(w)
    BY <1>5, <1>7 DEF AsPrinted
  <2> QED BY <1>7, <2>1, ReprintedAgain
<1>9. buf'[t] = Without(content'[dir'[Data]], req'[t].key)
  BY <1>2, <1>3, <1>6, <1>8 DEF ClavesTypeOK
<1>10. Control(t, "del_flush", fn[t], ret[t])
  BY <1>2, <1>3, GotoIs
<1>11. pc'[t] = "del_flush" /\ fn'[t] = fn[t]
  BY <1>2, <1>10 DEF ClavesTypeOK, Control
<1>12. FunctionOK(t)'
  BY <1>2, <1>3, <1>11 DEF FunctionOK, Deleting
<1>13. CopyOK(t)'
  BY <1>3, <1>4, <1>5, <1>9, <1>11 DEF CopyOK, Inner, Deleting, Exists
<1>14. RInv'
  BY <1>3, <1>10, <1>12, <1>13, HolderR DEF RInv, Label
<1>15. Tuples(Data)' = Tuples(Data)
  BY <1>3 DEF Tuples, Exists
<1>16. Refines
  BY <1>1, <1>3, <1>10, <1>14, <1>15, StaysQuiet
<1> QED
  BY <1>14, <1>16

LEMMA DelFlushRefines ==
  ASSUME Faults = FALSE, IInv, RInv, NEW t \in Thread, stage[t] = "locked",
         UNCHANGED rpcVars, DelFlush(t)
  PROVE  RInv' /\ Refines
<1> DEFINE i == dir[Temp]
           s == content[dir[Data]]
           w == Without(s, req[t].key)
<1>1. IInv'
  BY DelFlushStep
<1>2. /\ TypeOK /\ ClavesTypeOK /\ FrameOK(t) /\ FunctionOK(t) /\ CopyOK(t) /\ TwoFiles
  BY DEF IInv, RInv, TypeOK
<1>3. pc[t] = "del_flush" /\ dir' = dir /\ req' = req /\ Goto(t, "del_remove")
  BY DEF DelFlush, At
<1>4. wr[t] = i /\ Exists(Temp) /\ content[i] = <<>>
  BY <1>2, <1>3 DEF FrameOK, Copying
<1>5. Exists(Data) /\ req[t].key \in KeysOf(s) /\ buf[t] = w
  BY <1>2, <1>3 DEF CopyOK, Deleting
<1>6. i \in Inode /\ s \in Seq(Line) /\ AsPrinted(s) /\ dir[Data] # i /\ dir[Data] \in Inode
  BY <1>2, <1>4, <1>5 DEF ClavesTypeOK, Exists, FileName, TwoFiles, RInv
<1>7. w \in Seq(Line) /\ AsPrinted(w)
  <2> HIDE DEF s
  <2>1. w \in Seq(Line)
    BY <1>6, WithoutLines
  <2>2. \A n \in DOMAIN w : \E j \in DOMAIN s : s[j].key # req[t].key /\ w[n] = s[j]
    BY <1>6, WithoutLines
  <2> QED BY <1>6, <2>1, <2>2 DEF AsPrinted
<1>8. Overlay(content[i], buf[t]) = w
  <2> HIDE DEF w
  <2>1. SubSeq(<<>>, Len(w) + 1, Len(<<>>)) = <<>>
    BY <1>7
  <2>2. w \o <<>> = w
    BY <1>7
  <2> QED BY <1>4, <1>5, <2>1, <2>2 DEF Overlay
<1>9. content' = [content EXCEPT ![i] = w]
  BY <1>4, <1>8 DEF DelFlush, Writes
<1> HIDE DEF w
<1>10. /\ content'[i] = w /\ content'[dir[Data]] = s
       /\ \A j \in Inode : AsPrinted(content'[j])
  BY <1>2, <1>6, <1>7, <1>9 DEF ClavesTypeOK, RInv
<1>11. Control(t, "del_remove", fn[t], ret[t])
  BY <1>2, <1>3, GotoIs
<1>12. pc'[t] = "del_remove" /\ fn'[t] = fn[t]
  BY <1>2, <1>11 DEF ClavesTypeOK, Control
<1>13. FunctionOK(t)'
  BY <1>2, <1>3, <1>12 DEF FunctionOK, Deleting
<1>14. CopyOK(t)'
  BY <1>3, <1>5, <1>10, <1>12 DEF CopyOK, Inner, Deleting, Exists, w
<1>15. RInv'
  BY <1>3, <1>10, <1>11, <1>13, <1>14, HolderR DEF Label
<1>16. Tuples(Data)' = Tuples(Data)
  BY <1>3, <1>10 DEF Tuples, Exists
<1>17. Refines
  BY <1>1, <1>3, <1>11, <1>15, <1>16, StaysQuiet
<1> QED
  BY <1>15, <1>17

\* remove("data.txt") is the instant of delete_key, and of modify_value:
\* from here on temp.txt is the store, without the key.
LEMMA DelRemoveRefines ==
  ASSUME IInv, RInv, NEW t \in Thread, stage[t] = "locked",
         UNCHANGED rpcVars, DelRemove(t)
  PROVE  RInv' /\ Refines
<1> DEFINE k == req[t].key
           v == Printed[req[t].val]
           s == content[dir[Data]]
<1>1. IInv'
  BY DelRemoveStep
<1>2. /\ TypeOK /\ ClavesTypeOK /\ FrameOK(t) /\ FunctionOK(t) /\ CopyOK(t)
      /\ NoDuplicateKeys
  BY DEF IInv, RInv, TypeOK
<1>3. /\ pc[t] = "del_remove" /\ content' = content /\ req' = req
      /\ dir' = [dir EXCEPT ![Data] = NoInode] /\ Goto(t, "del_rename")
  BY DEF DelRemove, At
<1>4. /\ Exists(Data) /\ Exists(Temp) /\ k \in KeysOf(s)
      /\ content[dir[Temp]] = Without(s, k)
  BY <1>2, <1>3 DEF FrameOK, Replacing, Copying, CopyOK, Deleting
<1>5. dir'[Data] = NoInode /\ dir'[Temp] = dir[Temp]
  BY <1>2, <1>3 DEF ClavesTypeOK, FileName, Data, Temp
<1>6. s \in Seq(Line) /\ Unique(s)
  BY <1>2, <1>4 DEF ClavesTypeOK, Exists, FileName, NoDuplicateKeys
<1>7. /\ KeysOf(Without(s, k)) = KeysOf(s) \ {k}
      /\ TuplesOf(Without(s, k)) = [x \in KeysOf(s) \ {k} |-> TuplesOf(s)[x]]
  <2> HIDE DEF s, k
  <2> QED BY <1>6, WithoutTuples
<1>8. Control(t, "del_rename", fn[t], ret[t])
  BY <1>2, <1>3, GotoIs
<1>9. pc'[t] = "del_rename" /\ fn'[t] = fn[t]
  BY <1>2, <1>8 DEF ClavesTypeOK, Control
<1>10. fn[t] = "delete_key" /\ FunctionOK(t)'
  BY <1>2, <1>3, <1>9 DEF FunctionOK, Deleting
<1>11. CopyOK(t)'
  BY <1>3, <1>4, <1>5, <1>7, <1>9 DEF CopyOK, Inner, Deleting, Exists
<1>12. RInv'
  BY <1>3, <1>8, <1>10, <1>11, HolderR DEF RInv, Label
<1>13. /\ Tuples(Data) = TuplesOf(s) /\ DOMAIN Tuples(Data) = KeysOf(s)
       /\ Tuples(Temp)' = [x \in KeysOf(s) \ {k} |-> TuplesOf(s)[x]]
  BY <1>3, <1>4, <1>5, <1>7 DEF Tuples, Exists, TuplesOf
<1> HIDE DEF s, k, v
<1>14. ~Final(req[t], pc[t], fn[t]) /\ Final(req[t], "del_rename", fn[t])
  BY <1>3, <1>10 DEF Final
<1>15. /\ StoreImage = Tuples(Data)
       /\ StoreImage' = IF req[t].op = "modify_value"
                           THEN AtomicStore!Bind(Tuples(Temp)', k, v) ELSE Tuples(Temp)'
  BY <1>1, <1>3, <1>8, <1>12, <1>14, HolderStore DEF rpcVars, k, v
<1>16. k \in DOMAIN StoreImage
  BY <1>4, <1>13, <1>15
<1>17. Result(0) \in Reply
  BY DEF Result, Reply
<1>18. CASE req[t].op = "delete_key"
  <2>1. StoreImage' = AtomicStore!Unbind(StoreImage, k)
    BY <1>13, <1>15, <1>18 DEF AtomicStore!Unbind
  <2>2. AtomicStore!Deleted(req[t], Result(0))
    BY <1>16, <1>18, <2>1 DEF AtomicStore!Deleted, AtomicStore!Result, Result, k
  <2> QED
    BY <1>3, <1>8, <1>12, <1>14, <1>17, <2>2, TakesEffect
<1>19. CASE req[t].op = "modify_value"
  <2>1. StoreImage' = AtomicStore!Bind(StoreImage, k, v)
    <3>1. DOMAIN Tuples(Temp)' \cup {k} = DOMAIN StoreImage \cup {k}
      BY <1>13, <1>15
    <3>2. \A x \in DOMAIN StoreImage \cup {k} : x # k => Tuples(Temp)'[x] = StoreImage[x]
      BY <1>13, <1>15
    <3> QED
      BY <1>15, <1>19, <3>1, <3>2 DEF AtomicStore!Bind
  <2>2. AtomicStore!Modified(req[t], Result(0))
    BY <1>16, <1>19, <2>1 DEF AtomicStore!Modified, AtomicStore!Result, Result, k, v
  <2> QED
    BY <1>3, <1>8, <1>12, <1>14, <1>17, <2>2, TakesEffect
<1> QED
  BY <1>2, <1>10, <1>18, <1>19 DEF FunctionOK

\* rename gives the store its name back.
LEMMA DelRenameRefines ==
  ASSUME IInv, RInv, NEW t \in Thread, stage[t] = "locked",
         UNCHANGED rpcVars, DelRename(t)
  PROVE  RInv' /\ Refines
<1>1. IInv'
  BY DelRenameStep
<1>2. TypeOK /\ ClavesTypeOK /\ FrameOK(t) /\ FunctionOK(t) /\ CopyOK(t)
  BY DEF IInv, RInv, TypeOK
<1>3. pc[t] = "del_rename" /\ content' = content /\ req' = req /\ Returns(t, Result(0))
  BY DEF DelRename, At
<1>4. Exists(Temp) /\ req[t].key \notin KeysOf(content[dir[Temp]])
  BY <1>2, <1>3 DEF FrameOK, Replacing, CopyOK
<1>5. dir'[Data] = dir[Temp]
  BY <1>2, <1>4 DEF DelRename, FileName
<1>6. fn[t] = "delete_key"
  BY <1>2, <1>3 DEF FunctionOK
<1>7. Tuples(Data)' = Tuples(Temp)
  BY <1>3, <1>4, <1>5 DEF Tuples, Exists
<1>8. \A j \in Inode : AsPrinted(content'[j])
  BY <1>3 DEF RInv
<1>9. CASE req[t].op = "modify_value"
  <2>1. Control(t, "exist_open", "set_value", ret[t])
    BY <1>2, <1>3, <1>6, <1>9, ReturnsDelete
  <2>2. pc'[t] = "exist_open" /\ fn'[t] = "set_value"
    BY <1>2, <2>1 DEF ClavesTypeOK, Control
  <2>3. FunctionOK(t)'
    BY <1>3, <1>9, <2>2 DEF FunctionOK, Deleting
  <2>4. CopyOK(t)'
    BY <1>3, <1>4, <1>5, <2>2 DEF CopyOK, Inner, Deleting
  <2>5. RInv'
    BY <1>3, <1>8, <2>1, <2>3, <2>4, HolderR DEF Label
  <2>6. Final(req[t], pc[t], fn[t]) /\ Final(req[t], "exist_open", "set_value")
    BY <1>3, <1>9 DEF Final
  <2>7. StoreImage' = StoreImage
    BY <1>1, <1>3, <1>7, <1>9, <2>1, <2>5, <2>6, HolderStore DEF rpcVars
  <2>8. Refines
    BY <1>3, <2>1, <2>6, <2>7, Quiet
  <2> QED BY <2>5, <2>8
<1>10. CASE req[t].op # "modify_value"
  <2>1. Control(t, "done", fn[t], Result(0))
    BY <1>2, <1>3, <1>10, ReturnsOuter
  <2>2. pc'[t] = "done" /\ fn'[t] = fn[t]
    BY <1>2, <2>1 DEF ClavesTypeOK, Control
  <2>3. FunctionOK(t)' /\ CopyOK(t)'
    BY <1>2, <1>3, <1>10, <2>2 DEF FunctionOK, CopyOK, Inner, Deleting
  <2>4. RInv'
    BY <1>3, <1>8, <2>1, <2>3, HolderR DEF Label
  <2>5. Final(req[t], pc[t], fn[t]) /\ Final(req[t], "done", fn[t])
    BY <1>3 DEF Final
  <2>6. StoreImage' = StoreImage
    BY <1>1, <1>3, <1>7, <1>10, <2>1, <2>4, HolderStore DEF rpcVars
  <2>7. Refines
    BY <1>3, <2>1, <2>5, <2>6, Quiet
  <2> QED BY <2>4, <2>7
<1> QED
  BY <1>9, <1>10

LEMMA HandleRefines ==
  ASSUME Faults = FALSE, IInv, RInv, NEW t \in Thread, Handle(t)
  PROVE  RInv' /\ Refines
<1>1. stage[t] = "locked" /\ UNCHANGED rpcVars /\ ClavesStep(t)
  BY DEF Handle
<1> QED
  BY <1>1, ExistOpenRefines, ExistScanRefines, GetOpenRefines, GetScanRefines,
     DestroyRefines, SetOpenRefines, SetFlushRefines, DelOpenRefines,
     DelTempRefines, DelScanRefines, DelFlushRefines, DelRemoveRefines,
     DelRenameRefines DEF ClavesStep

-----------------------------------------------------------------------------
(* The steps around claves.c.                                              *)

\* They leave the store alone.
FilesKept == /\ dir' = dir /\ content' = content /\ pc' = pc /\ req' = req
             /\ fn' = fn /\ buf' = buf

LEMMA SameStore ==
  ASSUME FilesKept
  PROVE  StoreImage' = StoreImage
BY DEF FilesKept, StoreImage, FileStore, Tuples, Renaming, Reinserts, Exists, At

\* A step that only moves the call on connection t, outside of claves.c.
LEMMA OutsideR ==
  ASSUME IInv, RInv, FilesKept, NEW t \in Thread,
         stage[t] # "locked", stage'[t] # "locked",
         stage'[t] \notin {"free", "broken"} => arg'[t] \in Request,
         \A u \in Thread \ {t} : stage'[u] = stage[u] /\ arg'[u] = arg[u]
  PROVE  RInv'
<1>1. \A u \in Thread : RequestOK(u)'
  BY DEF FilesKept, RInv, RequestOK
<1>2. \A u \in Thread : FunctionOK(u)' /\ CopyOK(u)'
  BY DEF FilesKept, RInv, FunctionOK, CopyOK, Inner, Deleting, Exists
<1> QED
  BY <1>1, <1>2 DEF FilesKept, RInv

LEMMA OutsideCall ==
  ASSUME IInv, FilesKept, NEW t \in Thread,
         stage[t] # "locked", stage'[t] # "locked",
         \A u \in Thread \ {t} : stage'[u] = stage[u] /\ arg'[u] = arg[u] /\ ret'[u] = ret[u]
  PROVE  /\ CallImage[t] = IF stage[t] \in {"free", "broken"} THEN Idle
                           ELSE IF stage[t] \in {"unlocked", "answered"}
                             THEN Done(arg[t], ret[t]) ELSE Pending(arg[t])
         /\ CallImage' = [CallImage EXCEPT ![t] =
                           IF stage'[t] \in {"free", "broken"} THEN Idle
                           ELSE IF stage'[t] \in {"unlocked", "answered"}
                             THEN Done(arg'[t], ret'[t]) ELSE Pending(arg'[t])]
<1>1. /\ Performed(t) <=> stage[t] \in {"unlocked", "answered"}
      /\ Performed(t)' <=> stage'[t] \in {"unlocked", "answered"}
  BY DEF Performed
<1>2. \A u \in Thread \ {t} : Performed(u)' <=> Performed(u)
  BY DEF Performed, Reinserts, FilesKept, At
<1>3. CallImage[t] = IF stage[t] \in {"free", "broken"} THEN Idle
                     ELSE IF stage[t] \in {"unlocked", "answered"}
                       THEN Done(arg[t], ret[t]) ELSE Pending(arg[t])
  BY <1>1 DEF CallImage
<1>4. CallImage'[t] = IF stage'[t] \in {"free", "broken"} THEN Idle
                      ELSE IF stage'[t] \in {"unlocked", "answered"}
                        THEN Done(arg'[t], ret'[t]) ELSE Pending(arg'[t])
  BY <1>1 DEF CallImage
<1>5. ASSUME NEW u \in Thread \ {t}
      PROVE  CallImage'[u] = CallImage[u]
  BY <1>2 DEF CallImage, FilesKept, At
<1>6. /\ DOMAIN CallImage = Thread /\ DOMAIN CallImage' = Thread
      /\ CallImage = [u \in Thread |-> CallImage[u]]
      /\ CallImage' = [u \in Thread |-> CallImage'[u]]
  BY DEF CallImage
<1> QED
  BY <1>3, <1>4, <1>5, <1>6

\* The client or svc_sendreply drops the connection of an answered call.
LEMMA ReturnRefines ==
  ASSUME IInv, RInv, FilesKept, NEW t \in Thread, Forgets(t),
         stage[t] \in {"unlocked", "answered"}
  PROVE  RInv' /\ Refines
<1>1. /\ stage'[t] = "free"
      /\ \A u \in Thread \ {t} : stage'[u] = stage[u] /\ arg'[u] = arg[u] /\ ret'[u] = ret[u]
  BY DEF Forgets, IInv, TypeOK, ClavesTypeOK
<1>2. CallImage[t].st = "done" /\ CallImage' = [CallImage EXCEPT ![t] = Idle]
  <2>1. CallImage[t] = Done(arg[t], ret[t]) /\ CallImage' = [CallImage EXCEPT ![t] = Idle]
    BY <1>1, OutsideCall
  <2> QED BY <2>1 DEF Done
<1>3. Idle = AtomicStore!Idle
  BY DEF Idle, AtomicStore!Idle, Result, AtomicStore!Result, NoRequest, AtomicStore!NoRequest
<1>4. AtomicStore!Return(t)
  BY <1>2, <1>3, SameStore DEF AtomicStore!Return
<1> QED
  BY <1>1, <1>4, OutsideR DEF Refines, AtomicStore!StoreNext

LEMMA ClientCallRefines ==
  ASSUME IInv, RInv, NEW c \in Client, NEW t \in Thread, NEW r \in Request,
         ClientCall(c, t, r)
  PROVE  RInv' /\ Refines
<1>1. FilesKept /\ stage[t] = "free"
  BY DEF ClientCall, FilesKept
<1>2. /\ stage'[t] = "sent" /\ arg'[t] = r
      /\ \A u \in Thread \ {t} : stage'[u] = stage[u] /\ arg'[u] = arg[u] /\ ret'[u] = ret[u]
  BY DEF ClientCall, IInv, TypeOK
<1>3. CallImage[t] = Idle /\ CallImage' = [CallImage EXCEPT ![t] = Pending(r)]
  BY <1>1, <1>2, OutsideCall
<1>4. /\ Idle = AtomicStore!Idle /\ Pending(r) = AtomicStore!Pending(r)
      /\ r \in AtomicStore!Request
  BY DEF Idle, AtomicStore!Idle, Pending, AtomicStore!Pending, Result,
         AtomicStore!Result, NoRequest, AtomicStore!NoRequest, Request,
         AtomicStore!Request, KeyedOp, AtomicStore!KeyedOp, WriteOp, AtomicStore!WriteOp
<1>5. AtomicStore!Invoke(t)
  BY <1>1, <1>3, <1>4, SameStore DEF AtomicStore!Invoke
<1> QED
  BY <1>1, <1>2, <1>5, OutsideR DEF Refines, AtomicStore!StoreNext

\* A client that gives up changes nothing but its own wait, unless the reply
\* or the end of the connection is there.
LEMMA ClientErrorRefines ==
  ASSUME IInv, RInv, NEW c \in Client, NEW t \in Thread, ClientError(c, t)
  PROVE  RInv' /\ Refines
<1>1. FilesKept
  BY DEF ClientError, FilesKept
<1>2. CASE stage[t] = "answered"
  BY <1>1, <1>2, ReturnRefines DEF ClientError
<1>3. CASE stage[t] = "broken"
  <2>1. /\ stage'[t] = "free"
        /\ \A u \in Thread \ {t} : stage'[u] = stage[u] /\ arg'[u] = arg[u] /\ ret'[u] = ret[u]
    BY <1>3 DEF ClientError, Forgets, IInv, TypeOK, ClavesTypeOK
  <2>2. CallImage[t] = Idle /\ CallImage' = [CallImage EXCEPT ![t] = Idle]
    BY <1>1, <1>3, <2>1, OutsideCall
  <2>3. CallImage' = CallImage
    BY <2>2 DEF CallImage
  <2> QED
    BY <1>1, <1>3, <2>1, <2>3, SameStore, OutsideR DEF Refines
<1>4. CASE stage[t] \notin {"answered", "broken"}
  <2>1. UNCHANGED <<stage, arg, ret>>
    BY <1>4 DEF ClientError
  <2>2. RInv'
    BY <1>1, <2>1 DEF FilesKept, RInv, RequestOK, FunctionOK, CopyOK, Inner, Exists
  <2>3. CallImage' = CallImage
    BY <1>1, <2>1 DEF FilesKept, CallImage, Performed, Reinserts, At
  <2> QED
    BY <1>1, <2>2, <2>3, SameStore DEF Refines
<1> QED
  BY <1>2, <1>3, <1>4

\* Dispatch, and svc_sendreply to a client that waits.
LEMMA ForwardRefines ==
  ASSUME IInv, RInv, FilesKept, NEW t \in Thread, NEW s, UNCHANGED <<arg, ret>>,
         stage' = [stage EXCEPT ![t] = s],
         \/ stage[t] = "sent" /\ s = "handler"
         \/ stage[t] = "unlocked" /\ s = "answered"
  PROVE  RInv' /\ Refines
<1>1. /\ stage'[t] = s
      /\ \A u \in Thread \ {t} : stage'[u] = stage[u] /\ arg'[u] = arg[u] /\ ret'[u] = ret[u]
  BY DEF IInv, TypeOK
<1>2. CallImage' = [CallImage EXCEPT ![t] = CallImage[t]]
  BY <1>1, OutsideCall
<1>3. CallImage' = CallImage
  BY <1>2 DEF CallImage
<1>4. RInv'
  BY <1>1, OutsideR DEF RInv, RequestOK
<1> QED
  BY <1>3, <1>4, SameStore DEF Refines

LEMMA DispatchRefines ==
  ASSUME IInv, RInv, NEW t \in Thread, Dispatch(t)
  PROVE  RInv' /\ Refines
BY ForwardRefines DEF Dispatch, FilesKept

LEMMA SendReplyRefines ==
  ASSUME IInv, RInv, NEW t \in Thread, SendReply(t)
  PROVE  RInv' /\ Refines
<1>1. FilesKept /\ stage[t] = "unlocked"
  BY DEF SendReply, FilesKept
<1>2. CASE Awaited(t)
  BY <1>1, <1>2, ForwardRefines DEF SendReply
<1>3. CASE ~Awaited(t)
  BY <1>1, <1>3, ReturnRefines DEF SendReply
<1> QED
  BY <1>2, <1>3

\* The handler enters claves.c: nothing has happened to the store yet.
LEMMA LockRefines ==
  ASSUME IInv, RInv, NEW t \in Thread, Lock(t)
  PROVE  RInv' /\ Refines
<1>1. IInv'
  BY LockStep
<1>2. TypeOK /\ ClavesTypeOK /\ MutexInv
  BY DEF IInv, TypeOK
<1>3. /\ m = NoThread /\ stage[t] = "handler" /\ dir' = dir /\ content' = content
      /\ arg' = arg /\ ret' = ret /\ buf' = buf
  BY DEF Lock, Begin
<1>4. /\ stage'[t] = "locked" /\ req'[t] = arg[t] /\ fn'[t] = arg[t].op
      /\ pc'[t] = Entry(arg[t].op)
      /\ \A u \in Thread \ {t} : /\ stage'[u] = stage[u] /\ req'[u] = req[u]
                                 /\ pc'[u] = pc[u] /\ fn'[u] = fn[u]
  BY <1>2 DEF Lock, Begin, TypeOK, ClavesTypeOK
<1>5. \A u \in Thread : stage[u] # "locked"
  BY <1>2, <1>3, ServidorRpcAssumption DEF MutexInv
<1>6. \A u \in Thread : pc[u] = "idle" /\ req[u] = NoRequest
  BY <1>5 DEF RInv, RequestOK
<1>7. arg[t] \in Request
  BY <1>3 DEF RInv, RequestOK
<1>8. /\ pc'[t] \in {"destroy", "get_open", "exist_open"}
      /\ pc'[t] = "destroy" => fn'[t] = "destroy"
      /\ pc'[t] = "get_open" => fn'[t] = "get_value"
  BY <1>4 DEF Entry
<1>9. \A u \in Thread : RequestOK(u)'
  BY <1>3, <1>4, <1>5, <1>7, <1>8 DEF RInv, RequestOK
<1>10. FunctionOK(t)' /\ CopyOK(t)'
  BY <1>4, <1>8 DEF FunctionOK, CopyOK, Inner, Deleting
<1>11. \A u \in Thread \ {t} : FunctionOK(u)' /\ CopyOK(u)'
  BY <1>4, <1>6 DEF RInv, FunctionOK, CopyOK, Inner, Deleting
<1>12. RInv'
  BY <1>3, <1>9, <1>10, <1>11 DEF RInv
<1>13. StoreImage = Tuples(Data)
  BY <1>5, FreeImage DEF FreeView
<1>14. ~Reinserts(t)' /\ ~Performed(t)'
  BY <1>4, <1>8 DEF Performed, Reinserts, At
<1>15. StoreImage' = Tuples(Data)'
  <2>1. HolderView'
    BY <1>1, <1>12, HolderImageNext
  <2> QED
    BY <1>4, <1>8, <1>14, <2>1 DEF HolderView
<1>16. Tuples(Data)' = Tuples(Data)
  BY <1>3 DEF Tuples, Exists
<1>17. CallImage' = CallImage
  <2>1. ~Performed(t)
    BY <1>3 DEF Performed
  <2>2. CallImage'[t] = CallImage[t]
    BY <1>3, <1>4, <1>14, <2>1 DEF CallImage
  <2>3. ASSUME NEW u \in Thread \ {t}
        PROVE  CallImage'[u] = CallImage[u]
    <3>1. Performed(u)' <=> Performed(u)
      BY <1>4, <1>5 DEF Performed
    <3> QED
      BY <1>3, <1>4, <1>5, <3>1 DEF CallImage
  <2>4. DOMAIN CallImage = Thread /\ DOMAIN CallImage' = Thread
        /\ CallImage = [u \in Thread |-> CallImage[u]]
        /\ CallImage' = [u \in Thread |-> CallImage'[u]]
    BY DEF CallImage
  <2> QED BY <2>2, <2>3, <2>4
<1> QED
  BY <1>12, <1>13, <1>15, <1>16, <1>17 DEF Refines

\* The call that is unlocked has been performed.
LEMMA UnlockRefines ==
  ASSUME IInv, RInv, NEW t \in Thread, Unlock(t)
  PROVE  RInv' /\ Refines
<1>1. IInv'
  BY UnlockStep
<1>2. TypeOK /\ ClavesTypeOK
  BY DEF IInv, TypeOK
<1>3. /\ stage[t] = "locked" /\ pc[t] = "done" /\ dir' = dir /\ content' = content
      /\ arg' = arg /\ ret' = ret /\ buf' = buf
  BY DEF Unlock, End, At
<1>4. /\ stage'[t] = "unlocked" /\ req'[t] = NoRequest /\ fn'[t] = "none"
      /\ pc'[t] = "idle"
      /\ \A u \in Thread \ {t} : /\ stage'[u] = stage[u] /\ req'[u] = req[u]
                                 /\ pc'[u] = pc[u] /\ fn'[u] = fn[u]
  BY <1>2 DEF Unlock, End, TypeOK, ClavesTypeOK
<1>5. \A u \in Thread \ {t} : stage[u] # "locked" /\ pc[u] = "idle"
  BY <1>3, OthersIdle
<1>6. \A u \in Thread : RequestOK(u)'
  BY <1>3, <1>4 DEF RInv, RequestOK
<1>7. \A u \in Thread : FunctionOK(u)' /\ CopyOK(u)'
  BY <1>4, <1>5 DEF RInv, FunctionOK, CopyOK, Inner, Deleting, NoRequest
<1>8. RInv'
  BY <1>3, <1>6, <1>7 DEF RInv
<1>9. StoreImage = Tuples(Data)
  <2>1. HolderView
    BY HolderImage
  <2>2. ~Reinserts(t)
    BY <1>3 DEF Reinserts, At
  <2> QED
    BY <1>3, <2>1, <2>2 DEF HolderView
<1>10. StoreImage' = Tuples(Data)'
  <2>1. \A u \in Thread : stage'[u] # "locked"
    BY <1>4, <1>5
  <2> QED
    BY <1>1, <1>8, <2>1, FreeImageNext DEF FreeView
<1>11. Tuples(Data)' = Tuples(Data)
  BY <1>3 DEF Tuples, Exists
<1>12. CallImage' = CallImage
  <2>1. CallImage'[t] = CallImage[t]
    <3>1. Performed(t) /\ Performed(t)'
      BY <1>3, <1>4 DEF Performed, At
    <3> QED
      BY <1>3, <1>4, <3>1 DEF CallImage, At
  <2>2. ASSUME NEW u \in Thread \ {t}
        PROVE  CallImage'[u] = CallImage[u]
    <3>1. Performed(u)' <=> Performed(u)
      BY <1>4, <1>5 DEF Performed
    <3> QED
      BY <1>3, <1>4, <1>5, <3>1 DEF CallImage
  <2>3. DOMAIN CallImage = Thread /\ DOMAIN CallImage' = Thread
        /\ CallImage = [u \in Thread |-> CallImage[u]]
        /\ CallImage' = [u \in Thread |-> CallImage'[u]]
    BY DEF CallImage
  <2> QED BY <2>1, <2>2, <2>3
<1> QED
  BY <1>8, <1>9, <1>10, <1>11, <1>12 DEF Refines

\* A crash: the calls with a reply on its way are kept, and of the store what
\* data.txt holds.  That is all of it, all but the tuple that modify_value
\* was about to insert again, or nothing, between remove and rename.
LEMMA CrashRefines ==
  ASSUME IInv, RInv, Crash
  PROVE  RInv' /\ Refines
<1>1. IInv'
  BY CrashStep
<1>2. /\ dir' = dir /\ content' = content
      /\ \A u \in Thread : /\ pc'[u] = "idle" /\ fn'[u] = "none" /\ req'[u] = NoRequest
                           /\ stage'[u] # "locked"
  BY DEF Crash
<1>3. \A u \in Thread : stage'[u] \notin {"free", "broken"} =>
        stage'[u] = "answered" /\ stage[u] = "answered" /\ arg'[u] = arg[u] /\ ret'[u] = ret[u]
  BY DEF Crash
<1>4. RInv'
  <2>1. \A u \in Thread : RequestOK(u)'
    BY <1>2, <1>3 DEF RInv, RequestOK
  <2>2. \A u \in Thread : FunctionOK(u)' /\ CopyOK(u)'
    BY <1>2 DEF FunctionOK, CopyOK, Inner, Deleting, NoRequest
  <2> QED
    BY <1>2, <2>1, <2>2 DEF RInv
<1>5. StoreImage' = Tuples(Data)
  <2>1. StoreImage' = Tuples(Data)'
    BY <1>1, <1>2, <1>4, FreeImageNext DEF FreeView
  <2> QED
    BY <1>2, <2>1 DEF Tuples, Exists
<1> DEFINE kept == {u \in Thread : stage'[u] = "answered"}
<1>6. /\ kept \in SUBSET {u \in Thread : CallImage[u].st = "done"}
      /\ CallImage' = [u \in Thread |-> IF u \in kept THEN CallImage[u] ELSE AtomicStore!Idle]
  <2>1. AtomicStore!Idle = Idle
    BY DEF Idle, AtomicStore!Idle, Result, AtomicStore!Result, NoRequest, AtomicStore!NoRequest
  <2>2. ASSUME NEW u \in kept
        PROVE  CallImage[u].st = "done" /\ CallImage'[u] = CallImage[u]
    <3>1. stage[u] = "answered" /\ stage'[u] = "answered" /\ arg'[u] = arg[u] /\ ret'[u] = ret[u]
      BY <1>3
    <3>2. Performed(u) /\ Performed(u)'
      BY <3>1 DEF Performed
    <3>3. CallImage[u] = Done(arg[u], ret[u]) /\ CallImage'[u] = Done(arg[u], ret[u])
      BY <3>1, <3>2 DEF CallImage
    <3> QED
      BY <3>3 DEF Done
  <2>3. ASSUME NEW u \in Thread \ kept
        PROVE  CallImage'[u] = Idle
    BY <1>3 DEF CallImage
  <2>4. CallImage' = [u \in Thread |-> CallImage'[u]]
    BY DEF CallImage
  <2> QED
    BY <2>1, <2>2, <2>3, <2>4
<1> HIDE DEF kept
<1>7. \E K \in AtomicStore!Survivors : StoreImage' = [k \in K |-> StoreImage[k]]
  <2>1. Tuples(Data) = [k \in DOMAIN Tuples(Data) |-> Tuples(Data)[k]]
    <3>1. ASSUME NEW s
          PROVE  TuplesOf(s) = [k \in DOMAIN TuplesOf(s) |-> TuplesOf(s)[k]]
      BY DEF TuplesOf
    <3> QED BY <3>1 DEF Tuples
  <2>2. CASE StoreImage = Tuples(Data)
    <3>1. DOMAIN StoreImage \in AtomicStore!Survivors
      BY DEF AtomicStore!Survivors
    <3> QED
      BY <1>5, <2>1, <2>2, <3>1
  <2>3. CASE StoreImage # Tuples(Data)
    <3>1. PICK t \in Thread : stage[t] = "locked"
      BY <2>3, FreeImage DEF FreeView
    <3>2. TypeOK /\ FrameOK(t) /\ RequestOK(t) /\ FunctionOK(t) /\ CopyOK(t) /\ CallOK(t)
      BY DEF IInv, RInv
    <3>3. /\ FileStore = IF pc[t] = "del_rename" THEN Tuples(Temp) ELSE Tuples(Data)
          /\ StoreImage = IF Reinserts(t)
                 THEN AtomicStore!Bind(FileStore, req[t].key, Printed[req[t].val])
                 ELSE FileStore
      BY <3>1, HolderImage DEF HolderView
    <3>4. req[t] = arg[t]
      BY <3>1, <3>2 DEF RequestOK
    <3>5. CallImage[t].req = req[t]
      BY <3>1, <3>4 DEF CallImage, Done, Pending
    <3>6. CASE pc[t] = "del_rename"
      <4>1. ~Exists(Data) /\ fn[t] = "delete_key"
        BY <3>2, <3>6 DEF CopyOK, FunctionOK
      <4>2. DOMAIN Tuples(Data) = {}
        BY <4>1, DataDomain
      <4>3. req[t].op \in {"delete_key", "modify_value"}
        BY <3>2, <4>1 DEF FunctionOK
      <4>4. {} \in AtomicStore!Survivors
        BY <3>5, <4>3 DEF AtomicStore!Survivors, AtomicStore!InProgress
      <4>5. [k \in {} |-> StoreImage[k]] = [k \in {} |-> Tuples(Data)[k]]
        OBVIOUS
      <4> QED
        BY <1>5, <2>1, <4>2, <4>4, <4>5
    <3>7. CASE pc[t] # "del_rename"
      <4>1. Reinserts(t) /\ FileStore = Tuples(Data)
        BY <2>3, <3>3, <3>7
      <4>2. /\ req[t].op = "modify_value" /\ fn[t] = "set_value"
            /\ pc[t] \notin {"done", "del_rename"}
        BY <3>7, <4>1 DEF Reinserts, At
      <4>3. pc[t] \in {"exist_open", "exist_scan", "set_open", "set_flush"}
        <5>1. pc[t] \in Label \ {"idle"}
          BY <3>1, <3>2 DEF TypeOK, ClavesTypeOK, RequestOK
        <5> QED
          BY <3>2, <4>2, <5>1 DEF Label, FunctionOK, Deleting
      <4>4. req[t].key \notin DOMAIN Tuples(Data)
        BY <3>2, <4>2, <4>3, DataDomain DEF CopyOK, Inner, FrameOK
      <4>5. StoreImage = AtomicStore!Bind(Tuples(Data), req[t].key, Printed[req[t].val])
        BY <3>3, <4>1
      <4>6. /\ DOMAIN StoreImage \ {req[t].key} = DOMAIN Tuples(Data)
            /\ \A k \in DOMAIN Tuples(Data) : StoreImage[k] = Tuples(Data)[k]
        BY <4>4, <4>5 DEF AtomicStore!Bind
      <4>7. DOMAIN Tuples(Data) \in AtomicStore!Survivors
        BY <3>5, <4>2, <4>6 DEF AtomicStore!Survivors, AtomicStore!InProgress
      <4>8. Tuples(Data) = [k \in DOMAIN Tuples(Data) |-> StoreImage[k]]
        BY <2>1, <4>6
      <4> QED
        BY <1>5, <4>7, <4>8
    <3> QED BY <3>6, <3>7
  <2> QED BY <2>2, <2>3
<1>8. AtomicStore!Crash
  BY <1>6, <1>7 DEF AtomicStore!Crash
<1> QED
  BY <1>4, <1>8 DEF Refines, AtomicStore!StoreNext

-----------------------------------------------------------------------------
LEMMA InitRefines ==
  Init => RInv /\ AtomicStore!StoreInit
<1> SUFFICES ASSUME Init PROVE RInv /\ AtomicStore!StoreInit
  OBVIOUS
<1>1. IInv
  BY InitInvariant
<1>2. \A t \in Thread : RequestOK(t) /\ FunctionOK(t) /\ CopyOK(t)
  BY DEF Init, ClavesInit, RequestOK, FunctionOK, CopyOK, Inner, Deleting, NoRequest
<1>3. RInv
  BY <1>2 DEF Init, ClavesInit, RInv, AsPrinted
<1>4. StoreImage = [k \in {} |-> NoValue]
  <2>1. StoreImage = Tuples(Data)
    BY <1>1, <1>3, FreeImage DEF FreeView, Init
  <2>2. ~Exists(Data)
    BY DEF Init, ClavesInit, Exists, FileName
  <2> QED
    BY <2>1, <2>2, NoTuples DEF Tuples
<1>5. CallImage = [t \in Thread |-> AtomicStore!Idle]
  BY DEF Init, CallImage, Idle, AtomicStore!Idle, Result, AtomicStore!Result,
         NoRequest, AtomicStore!NoRequest
<1> QED
  BY <1>3, <1>4, <1>5 DEF AtomicStore!StoreInit

LEMMA NextRefines ==
  ASSUME Faults = FALSE, IInv, RInv, [Next]_vars
  PROVE  RInv' /\ Refines
<1>1. CASE ClientNext
  <2>1. ASSUME NEW c \in Client, NEW t \in Thread, ClientReceive(c, t)
        PROVE  RInv' /\ Refines
    BY <2>1, ReturnRefines DEF ClientReceive, FilesKept
  <2> QED
    BY <1>1, <2>1, ClientCallRefines, ClientErrorRefines DEF ClientNext
<1>2. CASE \E t \in Thread :
             Dispatch(t) \/ Lock(t) \/ Handle(t) \/ Unlock(t) \/ SendReply(t)
  BY <1>2, DispatchRefines, LockRefines, HandleRefines, UnlockRefines, SendReplyRefines
<1>3. CASE Restart \/ UNCHANGED vars
  <2>1. FilesKept /\ UNCHANGED <<stage, arg, ret>>
    BY <1>3 DEF Restart, vars, FilesKept
  <2>2. RInv'
    BY <2>1 DEF FilesKept, RInv, RequestOK, FunctionOK, CopyOK, Inner, Exists
  <2>3. CallImage' = CallImage
    BY <2>1 DEF FilesKept, CallImage, Performed, Reinserts, At
  <2> QED
    BY <2>1, <2>2, <2>3, SameStore DEF Refines
<1> QED
  BY <1>1, <1>2, <1>3, CrashRefines DEF Next, ServerNext

\* What the copying loop of delete_key and the two inner calls of modify_value
\* rely on holds in every state, however calls overlap, time out and die.
THEOREM CopiesAreFaithful ==
  ASSUME Faults = FALSE
  PROVE  Spec => []RInv
<1>1. IInv /\ RInv /\ [Next]_vars => RInv'
  BY NextRefines
<1>2. Init => RInv
  BY InitRefines
<1> QED
  BY <1>1, <1>2, InvariantHolds, PTL DEF Spec

\* The promise of claves.h, kept by mutex m although claves.c works in several
\* steps: every call, the timed-out ones included, takes effect at most once
\* and at one instant, with the result of that instant; a crash loses no more
\* than TupleStore lets it.
THEOREM ImplementsClavesInterface ==
  ASSUME Faults = FALSE
  PROVE  Spec => ImplementsTupleStore
<1>1. IInv /\ RInv /\ [Next]_vars => [AtomicStore!StoreNext]_<<StoreImage, CallImage>>
  BY NextRefines DEF Refines
<1>2. Init => AtomicStore!StoreInit
  BY InitRefines
<1> QED
  BY <1>1, <1>2, InvariantHolds, CopiesAreFaithful, PTL
     DEF Spec, ImplementsTupleStore, AtomicStore!StoreSpec, AtomicStore!storeVars
=============================================================================
