--------------------------- MODULE ScopeGateProofs ---------------------------
(***************************************************************************)
(* For every set of paths, patterns and scopes: what is granted is never   *)
(* wider than the request or the ceiling, and a rework reaches no path,    *)
(* nor, unless it declares more paths generated, any change, its contract  *)
(* refused.                                                                *)
(***************************************************************************)
EXTENDS ScopeGate, FiniteSetTheorems, TLAPS

-----------------------------------------------------------------------------
(* Comparing two scopes rule by rule.                                       *)

\* What the scope rules are compared by: every rule that permits shrinks, every
\* rule that forbids grows.
Narrower(child, parent) ==
    /\ is_scope_subset(child, parent)
    /\ child.generated \subseteq parent.generated

\* The rules that decide about single paths: what is in the scope of the child
\* is in that of the parent (find_scope_violations, its first loop).
LEMMA PathsShrink ==
  ASSUME NEW child \in ScopeRules, NEW parent \in ScopeRules,
         is_scope_subset(child, parent),
         NEW path, InScope(path, child)
  PROVE  InScope(path, parent)
<1>1. Matched(child.allowed) \subseteq Matched(parent.allowed)
  BY DEF is_scope_subset, Matched
<1>2. Matched(parent.forbidden) \subseteq Matched(child.forbidden)
  BY DEF is_scope_subset, Matched
<1> QED  BY <1>1, <1>2 DEF InScope

\* The budgets: with fewer exempt paths, a smaller limit is exceeded earlier.
LEMMA BudgetsShrink ==
  ASSUME NEW child \in ScopeRules, NEW parent \in ScopeRules,
         ceiling_not_raised(child.max_files, parent.max_files),
         NEW few, NEW many, IsFiniteSet(many), few \subseteq many,
         Exceeds(Cardinality(few), parent.max_files)
  PROVE  Exceeds(Cardinality(many), child.max_files)
<1>1. /\ Cardinality(few) \in Nat /\ Cardinality(many) \in Nat
      /\ Cardinality(few) <= Cardinality(many)
  BY FS_Subset, FS_CardinalityType
<1>2. parent.max_files # NoLimit /\ Cardinality(few) > parent.max_files
  BY DEF Exceeds
<1>3. child.max_files # NoLimit /\ child.max_files <= parent.max_files
  BY <1>2 DEF ceiling_not_raised
<1>4. child.max_files \in Nat /\ parent.max_files \in Nat
  BY <1>2, <1>3 DEF ScopeRules
<1>5. Cardinality(many) > child.max_files
  BY <1>1, <1>2, <1>3, <1>4
<1> QED  BY <1>3, <1>5 DEF Exceeds

\* A change has no violation exactly when each of the three rules accepts it.
LEMMA PermitsIff ==
  ASSUME NEW scope \in ScopeRules, NEW diff \in Diff
  PROVE  Permits(scope, diff) <=>
           /\ \A p \in Changed(diff) : InScope(p, scope)
           /\ scope.new_files \/ diff.added \ Matched(scope.generated) = {}
           /\ ~Exceeds(Cardinality(Changed(diff) \ Matched(scope.generated)),
                       scope.max_files)
  BY DEF Permits, find_scope_violations

\* A narrower scope permits no change that the wider one refuses.
LEMMA NarrowerPermits ==
  ASSUME NEW child \in ScopeRules, NEW parent \in ScopeRules,
         Narrower(child, parent), NEW diff \in Diff, Permits(child, diff)
  PROVE  Permits(parent, diff)
<1>1. Matched(child.generated) \subseteq Matched(parent.generated)
  BY DEF Narrower, Matched
<1>2. \A p \in Changed(diff) : InScope(p, parent)
  BY PermitsIff, PathsShrink DEF Narrower
<1>3. parent.new_files \/ diff.added \ Matched(parent.generated) = {}
  <2>1. child.new_files \/ diff.added \ Matched(child.generated) = {}
    BY PermitsIff
  <2> QED  BY <1>1, <2>1 DEF Narrower, is_scope_subset, ScopeRules
<1>4. ~Exceeds(Cardinality(Changed(diff) \ Matched(parent.generated)), parent.max_files)
  <2> DEFINE few == Changed(diff) \ Matched(parent.generated)
             many == Changed(diff) \ Matched(child.generated)
  <2>1. few \subseteq many
    BY <1>1
  <2>2. IsFiniteSet(many)
    <3>1. many \subseteq Path
      BY DEF Changed, Diff
    <3> QED  BY <3>1, FS_Subset, ScopeAssumption
  <2>3. ~Exceeds(Cardinality(many), child.max_files)
    BY PermitsIff
  <2> HIDE DEF few, many
  <2>4. ~Exceeds(Cardinality(few), parent.max_files)
    BY <2>1, <2>2, <2>3, BudgetsShrink DEF Narrower, is_scope_subset
  <2> QED  BY <2>4 DEF few
<1> QED  BY <1>2, <1>3, <1>4, PermitsIff

\* intersect_scope is narrower than both its arguments.
LEMMA MeetIsNarrower ==
  ASSUME NEW requested \in ScopeRules, NEW top \in ScopeRules
  PROVE  /\ intersect_scope(requested, top) \in ScopeRules
         /\ Narrower(intersect_scope(requested, top), requested)
         /\ Narrower(intersect_scope(requested, top), top)
<1> DEFINE a == requested.max_files
           b == top.max_files
           least == min_optional(a, b)
<1>1. a \in Nat \union {NoLimit} /\ b \in Nat \union {NoLimit} /\ NoLimit \notin Nat
  BY ScopeAssumption DEF ScopeRules
<1> HIDE DEF a, b
<1>2. /\ least \in Nat \union {NoLimit}
      /\ ceiling_not_raised(least, a) /\ ceiling_not_raised(least, b)
  <2>1. CASE a = NoLimit
    BY <1>1, <2>1 DEF min_optional, ceiling_not_raised
  <2>2. CASE b = NoLimit
    BY <1>1, <2>2 DEF min_optional, ceiling_not_raised
  <2>3. CASE a # NoLimit /\ b # NoLimit
    BY <1>1, <2>3 DEF min_optional, ceiling_not_raised
  <2> QED  BY <2>1, <2>2, <2>3
<1>3. intersect_scope(requested, top).max_files = least
  BY DEF intersect_scope, a, b
<1> HIDE DEF least
<1>4. intersect_scope(requested, top) \in ScopeRules
  BY <1>2, <1>3 DEF intersect_scope, ScopeRules
<1>5. Narrower(intersect_scope(requested, top), requested)
  BY <1>2, <1>3 DEF intersect_scope, Narrower, is_scope_subset, ScopeRules, a
<1>6. Narrower(intersect_scope(requested, top), top)
  BY <1>2, <1>3 DEF intersect_scope, Narrower, is_scope_subset, ScopeRules, b
<1> QED  BY <1>4, <1>5, <1>6

-----------------------------------------------------------------------------
(* The inductive invariant: what is granted was met with the ceiling anew,  *)
(* and what was asked for is the contract's scope or a subset of it.        *)

IInv ==
    /\ contract \in ScopeRules /\ ceiling \in ScopeRules /\ effective \in ScopeRules
    /\ granted = intersect_scope(effective, ceiling)
    /\ is_scope_subset(effective, contract)

LEMMA InitIInv == GateInit => IInv
<1> SUFFICES ASSUME GateInit PROVE IInv
  OBVIOUS
<1>1. contract \in ScopeRules /\ ceiling \in ScopeRules /\ effective \in ScopeRules
  BY GateAssumption DEF GateInit
<1>2. is_scope_subset(effective, contract)
  <2>1. contract.max_files \in Nat \union {NoLimit}
    BY <1>1 DEF ScopeRules
  <2>2. ceiling_not_raised(contract.max_files, contract.max_files)
    BY <2>1 DEF ceiling_not_raised
  <2> QED  BY <2>2 DEF GateInit, is_scope_subset
<1> QED  BY <1>1, <1>2 DEF GateInit, IInv

LEMMA NextIInv == IInv /\ [GateNext]_gateVars => IInv'
<1> SUFFICES ASSUME IInv, [GateNext]_gateVars PROVE IInv'
  OBVIOUS
<1>1. CASE UNCHANGED gateVars
  BY <1>1 DEF gateVars, IInv
<1>2. ASSUME NEW scope \in Contracts, build_rework_contract(scope) PROVE IInv'
  BY <1>2, GateAssumption DEF IInv, build_rework_contract
<1> QED  BY <1>1, <1>2 DEF GateNext

\* IInv holds in every state.
THEOREM Invariant == GateSpec => []IInv
  BY InitIInv, NextIInv, PTL DEF GateSpec

\* The policy gate (evaluate_policy's intersect_scope) never grants a change
\* that the request or the admin's ceiling refuses, however their patterns
\* overlap and whatever is declared as generated.
THEOREM GrantsNeverWider == GateSpec => []GrantNeverWider
<1>1. IInv => GrantNeverWider
  BY MeetIsNarrower, NarrowerPermits DEF IInv, GrantNeverWider
<1> QED  BY <1>1, Invariant, PTL

\* A rework that assert_rework_scope_is_subset accepts is granted no path its
\* parent contract did not allow, and no change it refused unless the rework
\* declares paths generated that the contract did not.
THEOREM ReworksNeverWider == GateSpec => []ReworkNeverWider
<1>1. ASSUME IInv, NEW path \in Path, InScope(path, granted)
      PROVE  InScope(path, contract)
  <2>1. /\ granted \in ScopeRules
        /\ is_scope_subset(granted, effective)
    BY <1>1, MeetIsNarrower DEF IInv, Narrower
  <2>2. InScope(path, effective)
    BY <1>1, <2>1, PathsShrink DEF IInv
  <2> QED  BY <1>1, <2>2, PathsShrink DEF IInv
<1>2. ASSUME IInv, effective.generated \subseteq contract.generated,
             NEW diff \in Diff, Permits(granted, diff)
      PROVE  Permits(contract, diff)
  <2>1. granted \in ScopeRules /\ Narrower(granted, effective)
    BY <1>2, MeetIsNarrower DEF IInv
  <2>2. Narrower(effective, contract)
    BY <1>2 DEF IInv, Narrower
  <2>3. Permits(effective, diff)
    BY <1>2, <2>1, NarrowerPermits DEF IInv
  <2> QED  BY <1>2, <2>2, <2>3, NarrowerPermits DEF IInv
<1>3. IInv => ReworkNeverWider
  BY <1>1, <1>2 DEF ReworkNeverWider
<1> QED  BY <1>3, Invariant, PTL
=============================================================================
