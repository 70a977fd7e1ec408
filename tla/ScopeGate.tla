----------------------------- MODULE ScopeGate -----------------------------
(***************************************************************************)
(* The way a scope travels: a contract's scope is cut down to the ceiling  *)
(* by the policy gate, and a rework contract carries an effective scope    *)
(* that is compared with the contract's and goes through the gate again.   *)
(* What is granted is what find_scope_violations is later run against.     *)
(***************************************************************************)
EXTENDS Scope

CONSTANTS Contracts,  \* bound: the scopes a contract, and a rework of it, may ask for
          Ceilings    \* bound: the ceilings an admin may set

ASSUME GateAssumption ==
    Contracts \subseteq ScopeRules /\ Ceilings \subseteq ScopeRules

VARIABLES contract,   \* TaskContract.scope
          ceiling,    \* PolicyCeiling.workspace_scope
          effective,  \* the scope the last policy evaluation was asked for
          granted     \* PolicyDecision.grants.path_rules

gateVars == <<contract, ceiling, effective, granted>>

GateInit ==
    /\ contract \in Contracts
    /\ ceiling \in Ceilings
    /\ effective = contract
    /\ granted = intersect_scope(contract, ceiling)

\* build_rework_contract refuses a scope that assert_rework_scope_is_subset
\* does not accept; the policy gate is then asked for the new scope.
build_rework_contract(scope) ==
    /\ is_scope_subset(scope, contract)
    /\ effective' = scope
    /\ granted' = intersect_scope(scope, ceiling)
    /\ UNCHANGED <<contract, ceiling>>

GateNext == \E scope \in Contracts : build_rework_contract(scope)

GateSpec == GateInit /\ [][GateNext]_gateVars

-----------------------------------------------------------------------------
(* Properties.                                                             *)

\* Every change the grants permit was permitted by the request and by the
\* ceiling: meeting the two rule by rule never lets a change through that one
\* of them refuses, not even through the exemption of generated paths.
GrantNeverWider ==
    \A diff \in Diff :
        Permits(granted, diff) => Permits(effective, diff) /\ Permits(ceiling, diff)

\* "True if child cannot reach anything parent would deny" (is_scope_subset): a
\* rework touches no path its contract refused; and unless it declares more
\* paths generated, which is not compared, it is granted no change at all that
\* the contract refused, new files and numbers of files included.
ReworkNeverWider ==
    /\ \A path \in Path : InScope(path, granted) => InScope(path, contract)
    /\ effective.generated \subseteq contract.generated =>
          \A diff \in Diff : Permits(granted, diff) => Permits(contract, diff)
=============================================================================
