-------------------------------- MODULE Rpc --------------------------------
(***************************************************************************)
(* What a service promises: a server executes only calls that were made, a *)
(* client receives only the answer of a server that executed that very     *)
(* call, and each at most once per server.  Nothing need ever happen.      *)
(***************************************************************************)
CONSTANTS Calls, Servers

VARIABLES called,    \* the calls made
          executed,  \* <<server, call>>: the executions
          answered   \* <<server, call>>: the answers received for a call

rpcVars == <<called, executed, answered>>

RpcInit == called = {} /\ executed = {} /\ answered = {}

Call(k) ==
  /\ k \notin called
  /\ called' = called \cup {k}
  /\ UNCHANGED <<executed, answered>>

Execute(s, k) ==
  /\ k \in called
  /\ <<s, k>> \notin executed
  /\ executed' = executed \cup {<<s, k>>}
  /\ UNCHANGED <<called, answered>>

Answer(s, k) ==
  /\ <<s, k>> \in executed \ answered
  /\ answered' = answered \cup {<<s, k>>}
  /\ UNCHANGED <<called, executed>>

RpcNext == \E k \in Calls : Call(k) \/ \E s \in Servers : Execute(s, k) \/ Answer(s, k)

RpcSpec == RpcInit /\ [][RpcNext]_rpcVars
=============================================================================
