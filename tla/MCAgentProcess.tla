--------------------------- MODULE MCAgentProcess ---------------------------
(***************************************************************************)
(* What keeps an agent process answering: its RPC calls and the processes  *)
(* it starts.  The two share no state; a behaviour is one of the component *)
(* that the variable "part" names.                                         *)
(***************************************************************************)
EXTENDS RpcCall, Supervisor

VARIABLE part

MCInit == part \in {"rpc", "supervisor"} /\ Init /\ SupInit

MCNext ==
    \/ part = "rpc" /\ Next /\ UNCHANGED <<part, supVars>>
    \/ part = "supervisor" /\ SupNext /\ UNCHANGED <<part, vars>>

\* The fairness of a component applies where it runs.
MCSpec ==
    /\ MCInit /\ [][MCNext]_<<part, vars, supVars>>
    /\ part = "rpc" => RpcFairness
    /\ part = "supervisor" => SupFairness
=============================================================================
