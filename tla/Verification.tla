---------------------------- MODULE Verification ----------------------------
(***************************************************************************)
(* What the Harness itself decides about an attempt.  freeze_and_validate  *)
(* turns the worktree before and after into a frozen result; the Verifier  *)
(* answers; accepted_decision is that answer re-checked against the frozen *)
(* result: a PASS with any violation becomes MANUAL_REVIEW.                *)
(***************************************************************************)
EXTENDS Scope

CONSTANTS Content,     \* what a path of the worktree can hold
          NoFile,      \* the path does not exist
          Criterion,   \* acceptance criteria of the contract
          Mandatory,   \* those marked mandatory
          ByCommand    \* those verified by a COMMAND, each by one of its own

ASSUME VerificationAssumption ==
    /\ NoFile \in Content
    /\ Mandatory \subseteq Criterion
    /\ ByCommand \subseteq Criterion

Manifest == [Path -> Content]

diff_manifests(baseline, result) ==
    [added |-> {p \in Path : baseline[p] = NoFile /\ result[p] # NoFile},
     deleted |-> {p \in Path : baseline[p] # NoFile /\ result[p] = NoFile},
     modified |-> {p \in Path : /\ baseline[p] # NoFile /\ result[p] # NoFile
                                /\ baseline[p] # result[p]}]

\* How the command behind a criterion ended: it did what the criterion expects,
\* exited otherwise, timed out or was killed at its output cap, or never ran.
Execution == {"expected", "other_exit", "killed", "missing"}

\* result: the worktree when the Worker was done.  post_test: after the checks.
freeze_and_validate(baseline, result, post_test, executions, scope) ==
    [result |-> result,
     post_test |-> post_test,
     scope_violations |-> find_scope_violations(diff_manifests(baseline, result), scope),
     side_effects |-> Changed(diff_manifests(result, post_test)),
     executions |-> executions]

\* A Verifier's answer.  criteria: what it says of each criterion ("ABSENT":
\* nothing); cited: criteria for which it cites evidence that exists; waived:
\* those with a waiver_approval_ref; objections: it reports a BLOCKER or HIGH
\* finding or a scope violation of its own.
VerificationResult ==
    [decision : {"PASS", "REWORK", "REJECT", "MANUAL_REVIEW"},
     criteria : [Criterion -> {"PASS", "FAIL", "NOT_VERIFIED", "NOT_APPLICABLE",
                               "WAIVED", "ABSENT"}],
     cited : SUBSET Criterion, waived : SUBSET Criterion, objections : BOOLEAN]

find_pass_invariant_violations(answer) ==
    {<<"mandatory", c>> : c \in
        {m \in Mandatory : /\ answer.criteria[m] # "PASS"
                           /\ ~(answer.criteria[m] = "WAIVED" /\ m \in answer.waived)}}
    \union {<<"not_verified", c>> : c \in
              {m \in Criterion : answer.criteria[m] = "NOT_VERIFIED"}}
    \union (IF answer.objections THEN {<<"objections">>} ELSE {})

find_missing_evidence_violations(answer) ==
    {<<"evidence", c>> : c \in
        {m \in Criterion : answer.criteria[m] = "PASS" /\ m \notin answer.cited}}

MutantCheckViolationsForgetsSideEffects(frozen) ==
    {<<"check", c>> : c \in {m \in ByCommand : frozen.executions[m] # "expected"}}

find_check_execution_violations(frozen) ==
    {<<"check", c>> : c \in {m \in ByCommand : frozen.executions[m] # "expected"}}
    \union {<<"side_effect", p>> : p \in frozen.side_effects}

Violations(answer, frozen) ==
    find_pass_invariant_violations(answer)
    \union find_missing_evidence_violations(answer)
    \union frozen.scope_violations
    \union find_check_execution_violations(frozen)

accepted_decision(answer, frozen) ==
    IF answer.decision = "PASS" /\ Violations(answer, frozen) # {}
    THEN "MANUAL_REVIEW" ELSE answer.decision

\* The criteria a REWORK is about: everything reported that is not PASS or
\* WAIVED.
failed_criteria_ids_of(answer) ==
    {c \in Criterion : answer.criteria[c] \notin {"PASS", "WAIVED", "ABSENT"}}
=============================================================================
