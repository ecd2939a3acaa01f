--------------------------- MODULE ClavesInterface ---------------------------
(***************************************************************************)
(* The interface of the tuple service, claves.h: its six functions, the    *)
(* arguments and results they take, and what a value becomes when it is    *)
(* printed on data.txt and read back.                                      *)
(***************************************************************************)
EXTENDS Integers

CONSTANTS Key,      \* the keys the clients use
          Value,    \* <value1, N_value2, V_value2, value3> in the valid ranges
          NoKey,    \* stands in the key field of destroy
          NoValue,  \* no value; in a reply, whatever an output argument that
                    \* was never assigned happens to hold
          Printed   \* the value read back from a line written with value v:
                    \* "%lf" keeps six decimals of each number of V_value2

ASSUME ValueAssumption ==
  /\ NoKey \notin Key
  /\ NoValue \notin Value
  /\ Printed \in [Value -> Value]
  /\ \A v \in Value : Printed[Printed[v]] = Printed[v]

KeyedOp == {"get_value", "delete_key", "exist"}
WriteOp == {"set_value", "modify_value"}
Op == {"destroy"} \cup KeyedOp \cup WriteOp

\* A call: the function and its arguments (struct message of mensaje.h,
\* struct args_struct of claves-rpc.x).
Request ==
  [op : {"destroy"}, key : {NoKey}, val : {NoValue}]
    \cup [op : KeyedOp, key : Key, val : {NoValue}]
    \cup [op : WriteOp, key : Key, val : Value]

NoRequest == [op |-> "none", key |-> NoKey, val |-> NoValue]

\* A result, and what get_value leaves in its output arguments.
Reply == [res : {-1, 0, 1}, val : Value \cup {NoValue}]
Result(n) == [res |-> n, val |-> NoValue]

\* A call seen from outside: none, under way, or with its result.
Idle == [st |-> "idle", req |-> NoRequest, rep |-> Result(0)]
Pending(r) == [st |-> "pending", req |-> r, rep |-> Result(0)]
Done(r, x) == [st |-> "done", req |-> r, rep |-> x]

CallState ==
  {Idle} \cup {Pending(r) : r \in Request}
         \cup {Done(r, x) : r \in Request, x \in Reply}
=============================================================================
