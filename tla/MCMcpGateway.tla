---------------------------- MODULE MCMcpGateway ----------------------------
(* A tool that is registered anew with the opposite of each setting, so that *)
(* an approval or a limit may be of a spec that is no longer registered.     *)
EXTENDS McpGateway

CONSTANTS worker, planner

Free    == [roles |-> {worker, planner}, requires_approval |-> FALSE, rate_limit |-> 2]
Guarded == [roles |-> {worker}, requires_approval |-> TRUE, rate_limit |-> 1]
MCSpecs == {Free, Guarded}

\* One that holds for a while, and a refusal of the other spec.
MCApprovals ==
    {[subject |-> Guarded, decision |-> "APPROVED", expires |-> 1],
     [subject |-> Free, decision |-> "REJECTED", expires |-> None]}
=============================================================================
