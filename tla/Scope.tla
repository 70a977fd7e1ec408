------------------------------- MODULE Scope -------------------------------
(***************************************************************************)
(* Scope rules: which changes to a worktree a contract permits             *)
(* (find_scope_violations), how a request is cut down to the admin ceiling *)
(* (intersect_scope) and how a rework's scope is compared with its         *)
(* parent's (is_scope_subset).  A glob pattern is modelled by the set of   *)
(* paths it matches; max_changed_bytes, the same ceiling weighted by file  *)
(* size, is left out.                                                      *)
(***************************************************************************)
EXTENDS Naturals, FiniteSets

CONSTANTS Path,      \* relative paths of the worktree
          Pattern,   \* glob patterns
          Matches,   \* Matches[p]: the paths pattern p matches
          NoLimit    \* max_changed_files = None

ASSUME ScopeAssumption ==
    /\ IsFiniteSet(Path)
    /\ Matches \in [Pattern -> SUBSET Path]
    /\ NoLimit \notin Nat

ScopeRules ==
    [allowed : SUBSET Pattern, forbidden : SUBSET Pattern,
     generated : SUBSET Pattern, new_files : BOOLEAN,
     max_files : Nat \union {NoLimit}]

\* A ManifestDiff; unchanged paths are the others.
Diff == {d \in [added : SUBSET Path, modified : SUBSET Path, deleted : SUBSET Path] :
            /\ d.added \intersect d.modified = {}
            /\ d.added \intersect d.deleted = {}
            /\ d.modified \intersect d.deleted = {}}

Changed(diff) == diff.added \union diff.modified \union diff.deleted

Matched(rules) == {path \in Path : \E p \in rules : path \in Matches[p]}

Exceeds(count, limit) == limit # NoLimit /\ count > limit

InScope(path, scope) ==
    path \notin Matched(scope.forbidden) /\ path \in Matched(scope.allowed)

\* Paths outside the rules, and the two budgets a declared generated path is
\* exempt from.
find_scope_violations(diff, scope) ==
    LET counted == Changed(diff) \ Matched(scope.generated)
        added == diff.added \ Matched(scope.generated)
    IN  {<<"path", path>> : path \in
            {p \in Changed(diff) : ~InScope(p, scope)}}
        \union (IF ~scope.new_files /\ added # {} THEN {<<"new_files">>} ELSE {})
        \union (IF Exceeds(Cardinality(counted), scope.max_files)
                THEN {<<"max_files">>} ELSE {})

Permits(scope, diff) == find_scope_violations(diff, scope) = {}

min_optional(a, b) ==
    IF a = NoLimit THEN b
    ELSE IF b = NoLimit THEN a
    ELSE IF a < b THEN a ELSE b

MutantIntersectUnionsGenerated(requested, ceiling) ==
    [allowed |-> requested.allowed \intersect ceiling.allowed,
     forbidden |-> requested.forbidden \union ceiling.forbidden,
     generated |-> requested.generated \union ceiling.generated,
     new_files |-> requested.new_files /\ ceiling.new_files,
     max_files |-> min_optional(requested.max_files, ceiling.max_files)]

intersect_scope(requested, ceiling) ==
    [allowed |-> requested.allowed \intersect ceiling.allowed,
     forbidden |-> requested.forbidden \union ceiling.forbidden,
     generated |-> requested.generated \intersect ceiling.generated,
     new_files |-> requested.new_files /\ ceiling.new_files,
     max_files |-> min_optional(requested.max_files, ceiling.max_files)]

MutantCeilingNotRaised(child, parent) ==
    parent # NoLimit /\ child # NoLimit => child <= parent

\* NoLimit is None; a child may not drop a limit either.
ceiling_not_raised(child, parent) ==
    parent # NoLimit => child # NoLimit /\ child <= parent

is_scope_subset(child, parent) ==
    /\ child.allowed \subseteq parent.allowed
    /\ parent.forbidden \subseteq child.forbidden
    /\ child.new_files => parent.new_files
    /\ ceiling_not_raised(child.max_files, parent.max_files)
=============================================================================
