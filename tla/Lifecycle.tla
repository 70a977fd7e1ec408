----------------------------- MODULE Lifecycle -----------------------------
(***************************************************************************)
(* The state machine kernel: the lifecycle states of a Run, the table of   *)
(* allowed transitions and the rules transition_run enforces.  Pure data   *)
(* and pure operators, shared by every module that moves a Run.            *)
(***************************************************************************)
EXTENDS Naturals

LifecycleState ==
    {"CREATED", "PLANNING", "CONTRACT_VALIDATING", "AWAITING_APPROVAL",
     "PREPARING_WORKSPACE", "EXECUTING", "FREEZING_RESULT", "HOST_VALIDATING",
     "VERIFYING", "REWORK_CONTRACTING", "AWAITING_MANUAL_REVIEW",
     "AWAITING_FINAL_APPROVAL", "RECOVERY_REQUIRED",
     "READY_FOR_MERGE", "FAILED", "CANCELLED"}

TERMINAL_LIFECYCLE_STATES == {"READY_FOR_MERGE", "FAILED", "CANCELLED"}

\* What a Run may be resumed into: everything but EXECUTING, the terminal
\* states and RECOVERY_REQUIRED itself.
RECOVERY_RESTART_TARGETS ==
    {"CREATED", "PLANNING", "CONTRACT_VALIDATING", "AWAITING_APPROVAL",
     "AWAITING_MANUAL_REVIEW", "AWAITING_FINAL_APPROVAL",
     "PREPARING_WORKSPACE", "FREEZING_RESULT", "HOST_VALIDATING",
     "VERIFYING", "REWORK_CONTRACTING"}

Stop == {"FAILED", "CANCELLED"}

TRANSITIONS ==
    [s \in LifecycleState |->
        CASE s = "CREATED" -> {"PLANNING", "CANCELLED"}
          [] s = "PLANNING" -> {"CONTRACT_VALIDATING"} \union Stop
          [] s = "CONTRACT_VALIDATING" ->
               {"AWAITING_APPROVAL", "PREPARING_WORKSPACE", "PLANNING"} \union Stop
          [] s = "AWAITING_APPROVAL" ->
               {"PREPARING_WORKSPACE", "PLANNING"} \union Stop
          [] s = "PREPARING_WORKSPACE" ->
               {"EXECUTING", "RECOVERY_REQUIRED"} \union Stop
          [] s = "EXECUTING" ->
               {"FREEZING_RESULT", "AWAITING_APPROVAL", "RECOVERY_REQUIRED"} \union Stop
          [] s = "FREEZING_RESULT" ->
               {"HOST_VALIDATING", "RECOVERY_REQUIRED"} \union Stop
          [] s = "HOST_VALIDATING" ->
               {"VERIFYING", "RECOVERY_REQUIRED"} \union Stop
          [] s = "VERIFYING" ->
               {"REWORK_CONTRACTING", "AWAITING_MANUAL_REVIEW",
                "AWAITING_FINAL_APPROVAL"} \union Stop
          [] s = "REWORK_CONTRACTING" -> {"CONTRACT_VALIDATING"} \union Stop
          [] s = "AWAITING_MANUAL_REVIEW" ->
               {"REWORK_CONTRACTING", "AWAITING_FINAL_APPROVAL"} \union Stop
          [] s = "AWAITING_FINAL_APPROVAL" ->
               {"READY_FOR_MERGE", "REWORK_CONTRACTING"} \union Stop
          [] s = "RECOVERY_REQUIRED" -> RECOVERY_RESTART_TARGETS \union Stop
          [] OTHER -> {}]

\* Entering one of these requires a PendingAction; entering any other state
\* with one is refused.
PENDING_ACTION_REQUIRED_STATES ==
    {"AWAITING_APPROVAL", "AWAITING_MANUAL_REVIEW",
     "AWAITING_FINAL_APPROVAL", "RECOVERY_REQUIRED"}

can_transition(current, target) == target \in TRANSITIONS[current]

\* The first check is redundant with the table's empty rows, as in the code.
validate_transition(current, target) ==
    /\ current \notin TERMINAL_LIFECYCLE_STATES
    /\ can_transition(current, target)

\* A caller's arguments are acceptable: a FailureRecord exactly for FAILED, a
\* PendingAction exactly for the states that wait on something.
ArgumentsLegal(target, failure, pending) ==
    /\ failure <=> target = "FAILED"
    /\ pending <=> target \in PENDING_ACTION_REQUIRED_STATES

TransitionLegal(current, target, failure, pending) ==
    /\ validate_transition(current, target)
    /\ ArgumentsLegal(target, failure, pending)

\* The row transition_run returns: a new state, the next version and, on a
\* terminal transition, the disposition.
TransitionedRow(row, target) ==
    [state |-> target,
     version |-> row.version + 1,
     disposition |-> IF target \in TERMINAL_LIFECYCLE_STATES
                     THEN target ELSE row.disposition]

Row == [state : LifecycleState, version : Nat,
        disposition : TERMINAL_LIFECYCLE_STATES \union {"NONE"}]

\* A Run that was never inserted, and a freshly inserted one.
NoRow == [state |-> "ABSENT", version |-> 0, disposition |-> "NONE"]
NewRow == [state |-> "CREATED", version |-> 0, disposition |-> "NONE"]
=============================================================================
