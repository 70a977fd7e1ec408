---------------------------- MODULE MCScopeGate ----------------------------
(* Two paths and two patterns, one of which matches both: every way two    *)
(* scopes can overlap on a path.                                           *)
EXTENDS ScopeGate

CONSTANTS src, lock, all, lockfile

MCPath == {src, lock}
MCPattern == {all, lockfile}
MCMatches == [p \in MCPattern |-> IF p = all THEN {src, lock} ELSE {lock}]
MCContracts ==
    [allowed : SUBSET MCPattern, forbidden : SUBSET MCPattern,
     generated : SUBSET MCPattern, new_files : BOOLEAN, max_files : {1, NoLimit}]
MCCeilings ==
    [allowed : {{all}, {lockfile}}, forbidden : {{}},
     generated : SUBSET MCPattern, new_files : {TRUE}, max_files : {1, NoLimit}]

\* One of each.
Closed == [allowed |-> {}, forbidden |-> {}, generated |-> {}, new_files |-> FALSE,
           max_files |-> 1]
Open == [allowed |-> {all}, forbidden |-> {}, generated |-> {}, new_files |-> TRUE,
         max_files |-> NoLimit]
=============================================================================
