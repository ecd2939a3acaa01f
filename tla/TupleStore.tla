----------------------------- MODULE TupleStore -----------------------------
(***************************************************************************)
(* What claves.h promises its callers, whatever server is behind it: a     *)
(* store of tuples <key, value1, value2, value3> on which every call takes *)
(* effect at one instant between the call and its return.  The three       *)
(* servers of the repository implement this interface over data.txt.       *)
(*                                                                         *)
(* A call is made on a Caller slot.  Invoke, Perform and Return are the    *)
(* three moments of a call.  claves.h says nothing of a server that dies;  *)
(* Crash is the most that claves.c lets it do to the store.                *)
(***************************************************************************)
EXTENDS ClavesInterface

CONSTANT Caller     \* the slots on which calls are made

VARIABLES store,    \* the tuples: a function from a subset of Key to Value
          call      \* call[c]: the call in progress on slot c

storeVars == <<store, call>>

Stores == UNION {[K -> Value] : K \in SUBSET Key}

\* f with key k bound to v, and f without key k.
Bind(f, k, v) == [x \in DOMAIN f \cup {k} |-> IF x = k THEN v ELSE f[x]]
Unbind(f, k) == [x \in DOMAIN f \ {k} |-> f[x]]

-----------------------------------------------------------------------------
StoreTypeOK ==
  /\ store \in Stores
  /\ call \in [Caller -> CallState]

StoreInit ==
  /\ store = [x \in {} |-> NoValue]
  /\ call = [c \in Caller |-> Idle]

Invoke(c) ==
  /\ call[c] = Idle
  /\ \E r \in Request : call' = [call EXCEPT ![c] = Pending(r)]
  /\ UNCHANGED store

\* The effect of each call on the store, and its result.
Destroyed(r, x) ==
  r.op = "destroy" /\ store' = [k \in {} |-> NoValue] /\ x = Result(0)

Inserted(r, x) ==
  /\ r.op = "set_value"
  /\ IF r.key \in DOMAIN store
       THEN UNCHANGED store /\ x = Result(-1)
       ELSE store' = Bind(store, r.key, Printed[r.val]) /\ x = Result(0)

Modified(r, x) ==
  /\ r.op = "modify_value"
  /\ IF r.key \in DOMAIN store
       THEN store' = Bind(store, r.key, Printed[r.val]) /\ x = Result(0)
       ELSE UNCHANGED store /\ x = Result(-1)

Deleted(r, x) ==
  /\ r.op = "delete_key"
  /\ IF r.key \in DOMAIN store
       THEN store' = Unbind(store, r.key) /\ x = Result(0)
       ELSE UNCHANGED store /\ x = Result(-1)

Obtained(r, x) ==
  /\ r.op = "get_value"
  /\ IF r.key \in DOMAIN store
       THEN x = [res |-> 0, val |-> store[r.key]]
       ELSE x = Result(-1)
  /\ UNCHANGED store

Found(r, x) ==
  /\ r.op = "exist"
  /\ x = Result(IF r.key \in DOMAIN store THEN 1 ELSE 0)
  /\ UNCHANGED store

Perform(c) ==
  /\ call[c].st = "pending"
  /\ \E x \in Reply :
       LET r == call[c].req
       IN /\ call' = [call EXCEPT ![c] = Done(r, x)]
          /\ \/ Destroyed(r, x) \/ Inserted(r, x) \/ Modified(r, x)
             \/ Deleted(r, x) \/ Obtained(r, x) \/ Found(r, x)

Return(c) ==
  /\ call[c].st = "done"
  /\ call' = [call EXCEPT ![c] = Idle]
  /\ UNCHANGED store

\* The server dies: the calls whose result is not on its way are abandoned.
\* Without a delete_key or a modify_value in progress no tuple is lost; with
\* one, the store may be lost as a whole, or the tuple being modified alone.
InProgress(op) == {c \in Caller : call[c].req.op = op}

Survivors ==
  {DOMAIN store}
    \cup {DOMAIN store \ {call[c].req.key} : c \in InProgress("modify_value")}
    \cup {{} : c \in InProgress("delete_key") \cup InProgress("modify_value")}

Crash ==
  /\ \E kept \in SUBSET {c \in Caller : call[c].st = "done"} :
       call' = [c \in Caller |-> IF c \in kept THEN call[c] ELSE Idle]
  /\ \E K \in Survivors : store' = [k \in K |-> store[k]]

StoreNext ==
  \/ Crash
  \/ \E c \in Caller : Invoke(c) \/ Perform(c) \/ Return(c)

StoreSpec == StoreInit /\ [][StoreNext]_storeVars
=============================================================================
