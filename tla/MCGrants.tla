------------------------------ MODULE MCGrants ------------------------------
(* What a policy decision grants (PolicyGrants): path rules, by which the    *)
(* changes are judged, and tools, which invoke_mcp_tool calls.  The two      *)
(* share no state, so that interleaving their steps shows nothing that       *)
(* neither shows alone: a behaviour is about one of the two.                 *)
EXTENDS MCScopeGate, MCMcpGateway

VARIABLE used  \* the grants this behaviour is about

GrantsInit ==
    /\ used \in {"path_rules", "mcp_tools"}
    /\ GateInit
    /\ (used = "mcp_tools" => contract = Closed /\ ceiling = Open)
    /\ Init /\ (used = "path_rules" => catalog = None)

GrantsNext ==
    /\ \/ used = "path_rules" /\ GateNext /\ UNCHANGED vars
       \/ used = "mcp_tools" /\ Next /\ UNCHANGED gateVars
    /\ UNCHANGED used

GrantsSpec == GrantsInit /\ [][GrantsNext]_<<used, vars, gateVars>>
=============================================================================
