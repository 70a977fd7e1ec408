---------------------------- MODULE Orchestrator ----------------------------
(***************************************************************************)
(* run_task_pipeline, one process per Run: plan, validate, gate, prepare,  *)
(* then attempts of execute, freeze, check and verify until a verdict ends *)
(* them.  A step reaches from one database write or await to the next; in  *)
(* between the process may be killed, and everything it knows (its local   *)
(* variables, here orch) is lost while the tables stay.  What providers    *)
(* and humans answer is chosen freely.                                     *)
(***************************************************************************)
EXTENDS RunTable, Policy, Verification

CONSTANTS CeilingScope,   \* PolicyCeiling.workspace_scope
          MaxTurns,       \* PolicyCeiling.budget_ceiling.max_turns
          Base,           \* the manifest of the commit a worktree is created from
          Drafts,         \* bound: the contracts a Planner proposes
          Additional,     \* bound: the capabilities a Worker asks for on top
          Manifests,      \* bound: what Workers and checks leave in a worktree
          Executions,     \* bound: how the check commands end
          Answers,        \* bound: what a Verifier answers
          Turns           \* bound: the turns one invocation uses

Contract == [request : RequestedCapabilities, scope : ScopeRules, max_rework : Nat]

ASSUME OrchestratorAssumption ==
    /\ CeilingScope \in ScopeRules
    /\ MaxTurns \in Nat \ {0}
    /\ Base \in Manifest
    /\ None \notin Manifest
    /\ Drafts \subseteq Contract
    /\ Additional \subseteq RequestedCapabilities
    /\ Manifests \subseteq Manifest
    /\ Executions \subseteq [ByCommand -> Execution]
    /\ Answers \subseteq VerificationResult
    /\ Turns \subseteq Nat /\ Turns # {}

VARIABLES orch,   \* each pipeline's program counter and local variables
          audit   \* the rows its pipeline inserted, and the consent it was given

vars == <<tableVars, worktree, orch, audit>>

Unstarted ==
    [pc |-> "idle",
     held |-> NoRow,         \* run, as this process last saw it
     contract |-> None,      \* the accepted TaskContract
     subject |-> "contract", \* what is being gated: the contract or a rework
     request |-> None,       \* the capabilities being gated
     decision |-> None,      \* the PolicyDecision on them
     active |-> None,        \* active_capabilities
     grants |-> None,        \* active_grants
     baseline |-> None,      \* baseline_manifest
     frozen |-> None,        \* frozen_result
     wanted |-> None,        \* worker_result.requested_additional_capabilities
     answer |-> None,        \* the Verifier's VerificationResult
     previous |-> None,      \* previous_failed_ids
     attempt |-> 1,
     turns |-> 0]            \* budget_used.turns_used

NoAudit == [contracts |-> 0, decisions |-> {}, verdict |-> None, reworks |-> 0,
            consented |-> {}, invocations |-> 0]

OrchestratorInit ==
    /\ orch = [r \in Run |-> Unstarted]
    /\ audit = [r \in Run |-> NoAudit]

Stopped == {"idle", "returned", "dead"}

-----------------------------------------------------------------------------
(* Steps of the process.                                                   *)

At(r, pc) == orch[r].pc = pc

Continue(r, k) == orch' = [orch EXCEPT ![r] = k]

\* An exception leaves run_task_pipeline, or the process is killed.
Die(r) == Continue(r, [Unstarted EXCEPT !.pc = "dead"]) /\ UNCHANGED tableVars

\* _advance: apply_transition with the version of the Run this process holds,
\* then on with local variables k; any refusal is raised.
_advance(r, target, k) ==
    IF Applicable(r, orch[r].held, target)
    THEN /\ Move(r, target, "orchestrator")
         /\ Continue(r, [k EXCEPT !.held = TransitionedRow(runs[r], target)])
    ELSE Die(r)

_fail(r) == _advance(r, "FAILED", [orch[r] EXCEPT !.pc = "returned"])

\* The audit inserts: autocommitted statements of their own, not guarded by the
\* Run's version.
insert_task_contract(r) == audit' = [audit EXCEPT ![r].contracts = @ + 1]

insert_policy_decision(r, decision) ==
    audit' = [audit EXCEPT ![r].decisions = @ \union
                {[request |-> orch[r].request, outcome |-> decision.outcome]}]

insert_verification_result(r, answer) == audit' = [audit EXCEPT ![r].verdict = answer]

insert_rework_contract(r) == audit' = [audit EXCEPT ![r].reworks = @ + 1]

\* A caller inserts the Run and starts its pipeline.
start(r) ==
    /\ At(r, "idle")
    /\ InsertRow(r)
    /\ Continue(r, [Unstarted EXCEPT !.pc = "resolving", !.held = NewRow])
    /\ UNCHANGED <<worktree, audit>>

\* The base commit and fingerprint are resolved, or cannot be.
resolve_repository(r) ==
    /\ At(r, "resolving")
    /\ \/ _fail(r)
       \/ _advance(r, "PLANNING", [orch[r] EXCEPT !.pc = "planning"])
    /\ UNCHANGED <<worktree, audit>>

\* check_budget raises.
OverBudget(r) == orch[r].turns > MaxTurns

\* The Planner times out, produces nothing usable, or proposes a contract.
invoke_planner(r) ==
    /\ At(r, "planning")
    /\ \/ _fail(r)
       \/ /\ ~OverBudget(r)
          /\ \E draft \in Drafts, used \in Turns :
                _advance(r, "CONTRACT_VALIDATING",
                         [orch[r] EXCEPT !.pc = "validating", !.contract = draft,
                                         !.turns = @ + used])
    /\ UNCHANGED <<worktree, audit>>

\* The draft does not validate, or is fixed and inserted as the contract.
accept_contract(r) ==
    /\ At(r, "validating")
    /\ \/ _fail(r) /\ UNCHANGED audit
       \/ /\ insert_task_contract(r)
          /\ Continue(r, [orch[r] EXCEPT !.pc = "gating", !.subject = "contract",
                                         !.request = orch[r].contract.request])
          /\ UNCHANGED tableVars
    /\ UNCHANGED worktree

\* _gate_policy, first half: evaluate, and insert the decision whatever it is.
MutantEvaluatesWithoutInserting(r) ==
    /\ At(r, "gating")
    /\ Continue(r, [orch[r] EXCEPT !.pc = "decided",
                      !.decision = evaluate_policy(orch[r].request,
                                      orch[r].contract.scope, CeilingScope)])
    /\ UNCHANGED <<tableVars, worktree, audit>>

evaluate(r) ==
    LET decision == evaluate_policy(orch[r].request, orch[r].contract.scope, CeilingScope)
    IN  /\ At(r, "gating")
        /\ insert_policy_decision(r, decision)
        /\ Continue(r, [orch[r] EXCEPT !.pc = "decided", !.decision = decision])
        /\ UNCHANGED <<tableVars, worktree>>

MutantNextAttemptFromResult(k) ==
    [k EXCEPT !.pc = "executing", !.baseline = k.frozen.result,
              !.previous = failed_criteria_ids_of(k.answer), !.attempt = @ + 1]

\* A rework's next attempt reuses the worktree; its baseline rolls on to what
\* the last attempt left behind after the checks.
NextAttempt(k) ==
    [k EXCEPT !.pc = "executing", !.baseline = k.frozen.post_test,
              !.previous = failed_criteria_ids_of(k.answer), !.attempt = @ + 1]

\* The gate is passed: the capabilities asked for become the active ones.
Granted(k) ==
    LET g == [k EXCEPT !.active = k.request, !.grants = k.decision.grants]
    IN  IF k.subject = "contract" THEN [g EXCEPT !.pc = "creating"] ELSE NextAttempt(g)

\* _gate_policy, second half, up to the human if one is needed.
act_on_decision(r) ==
    /\ At(r, "decided")
    /\ \/ orch[r].decision.outcome = "DENY" /\ _fail(r)
       \/ /\ orch[r].decision.outcome = "REQUIRE_APPROVAL"
          /\ _advance(r, "AWAITING_APPROVAL", [orch[r] EXCEPT !.pc = "awaiting_approval"])
       \/ /\ orch[r].decision.outcome = "ALLOW"
          /\ _advance(r, "PREPARING_WORKSPACE", Granted(orch[r]))
    /\ UNCHANGED <<worktree, audit>>

\* decide_policy_approval answers.
approval_answered(r) ==
    /\ At(r, "awaiting_approval")
    /\ \/ _fail(r) /\ UNCHANGED audit
       \/ /\ audit' = [audit EXCEPT ![r].consented =
                         @ \union orch[r].decision.approval_requirements]
          /\ _advance(r, "PREPARING_WORKSPACE", Granted(orch[r]))
    /\ UNCHANGED worktree

\* The fingerprint is verified again and the worktree created and frozen.
create_worktree(r) ==
    /\ At(r, "creating")
    /\ \/ _fail(r) /\ UNCHANGED worktree
       \/ /\ worktree[r] = None
          /\ worktree' = [worktree EXCEPT ![r] = Base]
          /\ Continue(r, [orch[r] EXCEPT !.pc = "executing", !.baseline = Base])
          /\ UNCHANGED tableVars
    /\ UNCHANGED audit

enter_executing(r) ==
    /\ At(r, "executing")
    /\ _advance(r, "EXECUTING", [orch[r] EXCEPT !.pc = "budgeting"])
    /\ UNCHANGED <<worktree, audit>>

invoke_worker(r) ==
    /\ At(r, "budgeting")
    /\ IF OverBudget(r)
       THEN _fail(r) /\ UNCHANGED audit
       ELSE /\ audit' = [audit EXCEPT ![r].invocations = @ + 1]
            /\ Continue(r, [orch[r] EXCEPT !.pc = "working"])
            /\ UNCHANGED tableVars
    /\ UNCHANGED worktree

\* Whoever works in the worktree leaves it in some state, unless it is gone.
Leaves(r, left) ==
    /\ left \in IF worktree[r] = None THEN {None} ELSE Manifests
    /\ worktree' = [worktree EXCEPT ![r] = left]

\* The Worker times out or returns; its own report is only asked for more
\* capabilities.
worker_returns(r) ==
    /\ At(r, "working")
    /\ \E left \in Manifests \union {None} : Leaves(r, left)
    /\ \/ _fail(r)
       \/ \E used \in Turns, wanted \in Additional \union {None} :
            _advance(r, "FREEZING_RESULT",
                     [orch[r] EXCEPT !.pc = "freezing", !.turns = @ + used,
                                     !.wanted = wanted])
    /\ UNCHANGED audit

enter_host_validating(r) ==
    /\ At(r, "freezing")
    /\ _advance(r, "HOST_VALIDATING", [orch[r] EXCEPT !.pc = "checking"])
    /\ UNCHANGED <<worktree, audit>>

\* build_file_manifest finds nothing where there is no directory.
Walk(root) == IF root = None THEN [p \in Path |-> NoFile] ELSE root

\* Freeze, run the checks, which may themselves touch the worktree, and freeze
\* again.  No check can start in a worktree that is gone: that raises.
host_validate(r) ==
    /\ At(r, "checking")
    /\ \/ worktree[r] = None /\ Die(r) /\ UNCHANGED worktree
       \/ \E left \in Manifests \union {None}, executions \in Executions :
             /\ Leaves(r, left)
             /\ _advance(r, "VERIFYING",
                  [orch[r] EXCEPT !.pc = "verifying",
                     !.frozen = freeze_and_validate(orch[r].baseline, Walk(worktree[r]),
                                  Walk(left), executions, orch[r].grants.path_rules)])
    /\ UNCHANGED audit

\* The Verifier is over budget, fails or times out, or answers; its own answer
\* is inserted, before the Harness re-checks it.
verify(r) ==
    /\ At(r, "verifying")
    /\ \/ _fail(r) /\ UNCHANGED audit
       \/ /\ ~OverBudget(r)
          /\ \E answer \in Answers, used \in Turns :
                /\ insert_verification_result(r, answer)
                /\ Continue(r, [orch[r] EXCEPT !.pc = "verified", !.answer = answer,
                                               !.turns = @ + used])
          /\ UNCHANGED tableVars
    /\ UNCHANGED worktree

Accepted(r) == accepted_decision(orch[r].answer, orch[r].frozen)

detect_no_progress(previous, current) ==
    previous # None /\ current # {} /\ current = previous

MutantReworkBudget(r) == orch[r].attempt <= orch[r].contract.max_rework + 1

MutantReworkUnlimited(r) == TRUE

\* check_rework_budget does not raise.
ReworkBudgetLeft(r) == orch[r].attempt <= orch[r].contract.max_rework

\* An accepted REWORK: give up, or insert a ReworkContract; a REWORK naming no
\* failed criterion makes no valid ReworkContract and raises.
rework(r) ==
    LET current == failed_criteria_ids_of(orch[r].answer)
    IN  IF detect_no_progress(orch[r].previous, current) \/ ~ReworkBudgetLeft(r)
        THEN _fail(r) /\ UNCHANGED audit
        ELSE IF current = {}
        THEN Die(r) /\ UNCHANGED audit
        ELSE /\ insert_rework_contract(r)
             /\ Continue(r, [orch[r] EXCEPT !.pc = "reworking"])
             /\ UNCHANGED tableVars

conclude(r) ==
    /\ At(r, "verified")
    /\ \/ Accepted(r) = "REJECT" /\ _fail(r) /\ UNCHANGED audit
       \/ /\ Accepted(r) = "MANUAL_REVIEW"
          /\ _advance(r, "AWAITING_MANUAL_REVIEW", [orch[r] EXCEPT !.pc = "returned"])
          /\ UNCHANGED audit
       \/ /\ Accepted(r) = "PASS"
          /\ _advance(r, "AWAITING_FINAL_APPROVAL", [orch[r] EXCEPT !.pc = "awaiting_final"])
          /\ UNCHANGED audit
       \/ Accepted(r) = "REWORK" /\ rework(r)
    /\ UNCHANGED worktree

\* decide_final_approval answers.
final_answered(r) ==
    /\ At(r, "awaiting_final")
    /\ \E target \in {"READY_FOR_MERGE", "REWORK_CONTRACTING"} :
          _advance(r, target, [orch[r] EXCEPT !.pc = "returned"])
    /\ UNCHANGED <<worktree, audit>>

enter_rework_contracting(r) ==
    /\ At(r, "reworking")
    /\ _advance(r, "REWORK_CONTRACTING", [orch[r] EXCEPT !.pc = "revalidating"])
    /\ UNCHANGED <<worktree, audit>>

MutantReworkSkipsGate(r) ==
    /\ At(r, "revalidating")
    /\ _advance(r, "CONTRACT_VALIDATING",
          IF orch[r].wanted = None
          THEN [orch[r] EXCEPT !.pc = "repreparing"]
          ELSE [orch[r] EXCEPT !.pc = "repreparing", !.subject = "rework",
                  !.active = merge_requested_capabilities(@, orch[r].wanted),
                  !.grants = Grants(merge_requested_capabilities(orch[r].active, orch[r].wanted),
                                    orch[r].contract.scope, CeilingScope)])
    /\ UNCHANGED <<worktree, audit>>

\* More capabilities were asked for: the merged request is gated anew.
reenter_contract_validating(r) ==
    /\ At(r, "revalidating")
    /\ _advance(r, "CONTRACT_VALIDATING",
          IF orch[r].wanted = None
          THEN [orch[r] EXCEPT !.pc = "repreparing"]
          ELSE [orch[r] EXCEPT !.pc = "gating", !.subject = "rework",
                  !.request = merge_requested_capabilities(orch[r].active, orch[r].wanted)])
    /\ UNCHANGED <<worktree, audit>>

reenter_preparing(r) ==
    /\ At(r, "repreparing")
    /\ _advance(r, "PREPARING_WORKSPACE", NextAttempt(orch[r]))
    /\ UNCHANGED <<worktree, audit>>

\* The process is killed, a database statement or a provider raises, or a
\* Verifier's answer does not validate.
crash(r) ==
    /\ orch[r].pc \notin Stopped
    /\ Die(r)
    /\ UNCHANGED <<worktree, audit>>

-----------------------------------------------------------------------------

\* Steps the process takes by itself.  Provider calls return because wait_for
\* bounds them, if the SDK answers the cancel that follows (ProviderInvocation).
Step(r) ==
    \/ resolve_repository(r) \/ invoke_planner(r) \/ accept_contract(r)
    \/ evaluate(r) \/ act_on_decision(r) \/ create_worktree(r)
    \/ enter_executing(r) \/ invoke_worker(r) \/ worker_returns(r)
    \/ enter_host_validating(r) \/ host_validate(r) \/ verify(r) \/ conclude(r)
    \/ enter_rework_contracting(r) \/ reenter_contract_validating(r)
    \/ reenter_preparing(r)

\* Steps that wait for a human, for however long.
HumanAnswers(r) == approval_answered(r) \/ final_answered(r)

Init == TableInit /\ OrchestratorInit

Next == \E r \in Run : start(r) \/ Step(r) \/ HumanAnswers(r)

\* One pipeline per Run, nobody else and no crash.
Spec == Init /\ [][Next]_vars
FairSpec == Spec /\ \A r \in Run : WF_vars(Step(r))

-----------------------------------------------------------------------------
(* Properties.                                                             *)

TypeOK ==
    /\ TableTypeOK
    /\ worktree \in [Run -> Manifest \union {None}]
    /\ \A r \in Run :
          /\ orch[r].held \in Row \union {NoRow}
          /\ orch[r].contract \in Contract \union {None}
          /\ orch[r].baseline \in Manifest \union {None}
          /\ orch[r].active # None => orch[r].active \in RequestedCapabilities
          /\ orch[r].attempt \in Nat \ {0}
          /\ audit[r].reworks \in Nat

\* Whatever a Worker runs with was granted by a decision that was not a denial,
\* and every gated capability in it was consented to by a human who was asked
\* about it: no rework inherits a consent for more than was asked then.
GrantsAuthorised ==
    \A r \in Run :
        At(r, "working") =>
            /\ denials(orch[r].active) = {}
            /\ approval_requirements(orch[r].active) \subseteq audit[r].consented
            /\ orch[r].grants.items \subseteq orch[r].active.items \intersect Ceiling

\* Before a Worker starts, the tables hold what it works under: the contract,
\* the decision on exactly its capabilities, and one rework contract for every
\* attempt after the first.  A crash after any insert leaves the trail whole.
AuditedBeforeWork ==
    \A r \in Run :
        At(r, "working") =>
            /\ audit[r].contracts = 1
            /\ \E d \in audit[r].decisions :
                  d.request = orch[r].active /\ d.outcome # "DENY"
            /\ audit[r].reworks = orch[r].attempt - 1

\* Workers are invoked at most once more than the contract's rework budget.
ReworkBounded ==
    \A r \in Run :
        orch[r].contract # None =>
            audit[r].invocations <= orch[r].contract.max_rework + 1

\* The turn ceiling is overshot by the invocation that crosses it at most: none
\* is started beyond it, whichever role it is for.
TurnsBounded ==
    \A r \in Run : \E used \in Turns : orch[r].turns <= MaxTurns + used

\* Neither budget of a pipeline is exceeded by more than its check allows.
BudgetsHold == ReworkBounded /\ TurnsBounded

\* What a pipeline offers for final approval, and what a human then declares
\* ready, is the very worktree its checks ran on; they ended as expected, it
\* changed nothing outside the granted scope since the attempt's baseline, and
\* the Verifier's stored PASS covers every mandatory criterion.
OfferedResultIsVerified ==
    \A r \in Run :
        /\ mover[r] = "orchestrator"
        /\ runs[r].state \in {"AWAITING_FINAL_APPROVAL", "READY_FOR_MERGE"}
        /\ orch[r].pc # "dead"
        => /\ worktree[r] = orch[r].frozen.result
           /\ \A c \in ByCommand : orch[r].frozen.executions[c] = "expected"
           /\ \A p \in Path : worktree[r][p] # orch[r].baseline[p] =>
                                  InScope(p, orch[r].grants.path_rules)
           /\ audit[r].verdict.decision = "PASS"
           /\ \A c \in Mandatory : \/ audit[r].verdict.criteria[c] = "PASS"
                                    \/ c \in audit[r].verdict.waived

\* A Worker starts on exactly its baseline, so that whatever the frozen result
\* is blamed for was done in this attempt and by this Worker, never by the
\* checks or the Worker of an earlier one.
BaselineIsCurrent ==
    \A r \in Run :
        orch[r].pc \in {"budgeting", "working"} /\ worktree[r] # None =>
            orch[r].baseline = worktree[r]

\* A pipeline never runs on for ever: it stops, or it waits for a human.
Terminates ==
    \A r \in Run :
        ~At(r, "idle") ~>
            orch[r].pc \in Stopped \union {"awaiting_approval", "awaiting_final"}

-----------------------------------------------------------------------------
(* What the code's own documentation says, and the code does not do.       *)

\* "Changes outside them will be rejected regardless of what you report": a
\* worktree ready for merge differs from the base commit only within scope.
ReadyOnlyWithinScope ==
    \A r \in Run :
        runs[r].state = "READY_FOR_MERGE" =>
            \A p \in Path : worktree[r][p] # Base[p] =>
                               InScope(p, orch[r].contract.scope)
=============================================================================
