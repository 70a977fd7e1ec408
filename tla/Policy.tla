------------------------------- MODULE Policy -------------------------------
(***************************************************************************)
(* The deterministic policy engine: evaluate_policy turns requested        *)
(* capabilities and a requested scope into a decision under the admin      *)
(* ceiling, and rework requests are merged into the active ones.  The      *)
(* requestable commands, domains, tools, systems, databases, the raw shell *)
(* and package installation are items of one set, told apart only by how   *)
(* the engine treats them.  Reason codes and digests are left out.         *)
(***************************************************************************)
EXTENDS Scope

CONSTANTS Item,        \* everything RequestedCapabilities can name
          Gated,       \* items whose grant needs a human approval: all but commands
          HardDenied,  \* metadata endpoints: refused whatever the ceiling says
          Ungrantable, \* raw shell and database targets: PolicyGrants has no field
          Ceiling      \* items the admin's PolicyCeiling allows

ASSUME PolicyAssumption ==
    /\ Gated \subseteq Item
    /\ HardDenied \subseteq Gated
    /\ Ungrantable \subseteq Gated
    /\ Ceiling \subseteq Item

\* Workspace access levels NONE, READ, READ_WRITE by _ACCESS_RANK.
Access == 0..2

RequestedCapabilities == [items : SUBSET Item, access : Access]

MutantMergeAddsAccess(base, additional) ==
    [items |-> base.items \union additional.items,
     access |-> base.access + additional.access]

merge_requested_capabilities(base, additional) ==
    [items |-> base.items \union additional.items,
     access |-> IF base.access >= additional.access
                THEN base.access ELSE additional.access]

denials(requested) ==
    (requested.items \intersect HardDenied)
        \union ((requested.items \ HardDenied) \ Ceiling)

approval_requirements(requested) == requested.items \intersect Gated

Outcome(requested) ==
    IF denials(requested) # {} THEN "DENY"
    ELSE IF approval_requirements(requested) # {} THEN "REQUIRE_APPROVAL"
    ELSE "ALLOW"

\* Only what is requested and allowed is granted; the access level is granted
\* as requested.  Grants are computed whatever the outcome.
Grants(requested, scope, ceiling_scope) ==
    [items |-> ((requested.items \ HardDenied) \intersect Ceiling) \ Ungrantable,
     access |-> requested.access,
     path_rules |-> intersect_scope(scope, ceiling_scope)]

evaluate_policy(requested, scope, ceiling_scope) ==
    [outcome |-> Outcome(requested),
     grants |-> Grants(requested, scope, ceiling_scope),
     approval_requirements |->
         IF denials(requested) = {} THEN approval_requirements(requested) ELSE {}]
=============================================================================
