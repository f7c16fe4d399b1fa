------------------------------ MODULE Requests ------------------------------
(***************************************************************************)
(* The HTTP requests of a Node.js server, as the modules of the case desk  *)
(* share them: each handler awaits its next repository call with its local *)
(* variables, and between two awaits any other handler may run.            *)
(***************************************************************************)
CONSTANTS
  Handlers,   \* requests that may be served at the same time
  MayFail     \* whether handlers may die between two awaits

ASSUME RequestsAssumption == MayFail \in BOOLEAN

VARIABLES pc,   \* the next repository call of a handler
          ctx   \* its local variables, and the operation it serves

NoContext == [op |-> "none"]

RequestsInit ==
  /\ pc = [h \in Handlers |-> "idle"]
  /\ ctx = [h \in Handlers |-> NoContext]

Idle(h)       == pc[h] = "idle"
Goto(h, call) == pc' = [pc EXCEPT ![h] = call]
Keep(h, c)    == ctx' = [ctx EXCEPT ![h] = c]
Leave(h)      == Goto(h, "idle") /\ Keep(h, NoContext)

\* A request that has read what it needs and goes on at a call.
Begin(h, call, c) == Idle(h) /\ Goto(h, call) /\ Keep(h, c)

Serving(op) == {h \in Handlers : ctx[h].op = op}
=============================================================================
