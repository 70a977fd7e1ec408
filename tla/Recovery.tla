------------------------------ MODULE Recovery ------------------------------
(***************************************************************************)
(* run_recovery_scan: list the Runs in an active state that nobody touched *)
(* for stale_after, then move each, with the version it was listed with:   *)
(* to RECOVERY_REQUIRED where the host held resources, else to FAILED.  A  *)
(* conflict is raised out of the scan and the Runs still to do are left.   *)
(***************************************************************************)
EXTENDS RunTable

CONSTANT Scanner  \* processes that run the scan

VARIABLE listed   \* the rows a scan has still to do

RecoveryInit == listed = [s \in Scanner |-> [r \in Run |-> NoRow]]

RECOVERABLE_STATES ==
    {"PREPARING_WORKSPACE", "EXECUTING", "FREEZING_RESULT", "HOST_VALIDATING"}

MutantStaleStates == {"PLANNING", "CONTRACT_VALIDATING", "VERIFYING"}

STALE_NO_RECOVERY_PATH_STATES ==
    {"PLANNING", "CONTRACT_VALIDATING", "VERIFYING", "REWORK_CONTRACTING"}

ActiveStates == RECOVERABLE_STATES \union STALE_NO_RECOVERY_PATH_STATES

list_runs_by_states(s) ==
    /\ \A r \in Run : listed[s][r] = NoRow
    /\ listed' = [listed EXCEPT ![s] =
         [r \in Run |-> IF runs[r].state \in ActiveStates /\ ~fresh[r]
                        THEN runs[r] ELSE NoRow]]
    /\ UNCHANGED <<tableVars, worktree>>

reconcile(s, r) ==
    LET run == listed[s][r]
        target == IF run.state \in RECOVERABLE_STATES THEN "RECOVERY_REQUIRED" ELSE "FAILED"
    IN  /\ run # NoRow
        /\ IF Applicable(r, run, target)
           THEN /\ Move(r, target, "recovery-coordinator")
                /\ listed' = [listed EXCEPT ![s][r] = NoRow]
           ELSE /\ UNCHANGED tableVars
                /\ listed' = [listed EXCEPT ![s] = [x \in Run |-> NoRow]]
        /\ UNCHANGED worktree

ScanStep(s) == list_runs_by_states(s) \/ \E r \in Run : reconcile(s, r)
=============================================================================
