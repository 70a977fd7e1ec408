------------------------------ MODULE RunTable ------------------------------
(***************************************************************************)
(* The runs table as the components above the persistence layer see it:    *)
(* apply_transition is one atomic step (SqliteStore shows that it is) that *)
(* either moves the row its caller decided from or raises.  Also kept is   *)
(* what the scan and the humans look at: who moved a Run last, and whether *)
(* it was touched within the scan's stale_after window; and, beside the    *)
(* tables, the worktrees on disk, which pipelines make and the CLI removes.*)
(***************************************************************************)
EXTENDS Lifecycle

CONSTANTS None,         \* Python's None
          Run,          \* run ids
          MaxVersion    \* bound: no Run moves from this version on

ASSUME TableAssumption ==
    /\ MaxVersion \in Nat
    /\ None \notin Run \union LifecycleState \union Nat

VARIABLES runs,      \* the committed row of each Run
          failures,  \* how many failure records each Run has
          mover,     \* actor_id of its last journal entry
          fresh,     \* updated_at is within stale_after of now
          worktree   \* the Run's worktree on disk

tableVars == <<runs, failures, mover, fresh>>

Actor == {"orchestrator", "cli", "recovery-coordinator"}

TableInit ==
    /\ runs = [r \in Run |-> NoRow]
    /\ failures = [r \in Run |-> 0]
    /\ mover = [r \in Run |-> "nobody"]
    /\ fresh = [r \in Run |-> FALSE]
    /\ worktree = [r \in Run |-> None]

InsertRow(r) ==
    /\ runs[r] = NoRow
    /\ runs' = [runs EXCEPT ![r] = NewRow]
    /\ fresh' = [fresh EXCEPT ![r] = TRUE]
    /\ UNCHANGED <<failures, mover>>

\* apply_transition commits: held is the row its caller decided from.  Every
\* caller passes the FailureRecord and PendingAction the target asks for.
MutantApplicable(r, held, target) == validate_transition(runs[r].state, target)

MutantApplicableSkipsKernel(r, held, target) == runs[r].version = held.version

Applicable(r, held, target) ==
    /\ runs[r].version = held.version
    /\ validate_transition(runs[r].state, target)

Move(r, target, actor) ==
    /\ runs[r].version < MaxVersion
    /\ runs' = [runs EXCEPT ![r] = TransitionedRow(@, target)]
    /\ failures' = [failures EXCEPT ![r] = IF target = "FAILED" THEN @ + 1 ELSE @]
    /\ mover' = [mover EXCEPT ![r] = actor]
    /\ fresh' = [fresh EXCEPT ![r] = TRUE]

\* stale_after passes without anyone touching the Run.
Age(r) ==
    /\ fresh[r]
    /\ fresh' = [fresh EXCEPT ![r] = FALSE]
    /\ UNCHANGED <<runs, failures, mover, worktree>>

TableTypeOK ==
    /\ runs \in [Run -> Row \union {NoRow}]
    /\ failures \in [Run -> Nat]
    /\ mover \in [Run -> Actor \union {"nobody"}]
    /\ fresh \in [Run -> BOOLEAN]
=============================================================================
