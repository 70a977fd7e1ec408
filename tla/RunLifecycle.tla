---------------------------- MODULE RunLifecycle ----------------------------
(***************************************************************************)
(* What the persistence layer promises everyone who uses it, with none of  *)
(* the machinery: a Run is inserted once, in CREATED, and from then on it  *)
(* only moves along the transition table, one version at a time, leaving   *)
(* exactly one failure record when it fails.  SqliteStore and System       *)
(* are both shown to implement this specification.                         *)
(***************************************************************************)
EXTENDS Lifecycle

CONSTANT Run

VARIABLES runs,      \* the committed row of each Run
          failures   \* how many failure records each Run has

vars == <<runs, failures>>

Init ==
    /\ runs = [r \in Run |-> NoRow]
    /\ failures = [r \in Run |-> 0]

Insert(r) ==
    /\ runs[r] = NoRow
    /\ runs' = [runs EXCEPT ![r] = NewRow]
    /\ UNCHANGED failures

Transition(r, target) ==
    /\ runs[r] # NoRow
    /\ validate_transition(runs[r].state, target)
    /\ runs' = [runs EXCEPT ![r] = TransitionedRow(@, target)]
    /\ failures' = [failures EXCEPT ![r] = IF target = "FAILED" THEN @ + 1 ELSE @]

Next ==
    \E r \in Run :
        \/ Insert(r)
        \/ \E target \in LifecycleState : Transition(r, target)

Spec == Init /\ [][Next]_vars
-----------------------------------------------------------------------------
\* What became of a Run can be told from its records: the disposition names
\* its terminal state, and it has one failure record exactly when it FAILED.
Accountable ==
    \A r \in Run :
        /\ failures[r] = IF runs[r].state = "FAILED" THEN 1 ELSE 0
        /\ runs[r].disposition = IF runs[r].state \in TERMINAL_LIFECYCLE_STATES
                                 THEN runs[r].state ELSE "NONE"

\* And it is final: nothing of a Run that is over changes any more.
OverIsOver ==
    \A r \in Run :
        runs[r].state \in TERMINAL_LIFECYCLE_STATES =>
            runs'[r] = runs[r] /\ failures'[r] = failures[r]

Final == [][OverIsOver]_vars
=============================================================================
