---------------------------- MODULE SystemProofs ----------------------------
(***************************************************************************)
(* Proofs about System and the Orchestrator in it, for any number of Runs, *)
(* pipelines that crash, humans and scans.  First what they do to each     *)
(* other's Runs: comparing versions is enough, and together they move Runs *)
(* only as the persistence layer promises; what a pipeline knows beside    *)
(* the row it holds does not matter for that.  Then what a pipeline, its   *)
(* audit rows and its worktree have to do with each other, and, for        *)
(* pipelines nobody interferes with, what they offer.                      *)
(***************************************************************************)
EXTENDS System, TLAPS

Fields == {"pc", "held", "contract", "subject", "request", "decision", "active", "grants",
           "baseline", "frozen", "wanted", "answer", "previous", "attempt", "turns"}

\* A record of a pipeline's local variables, whatever their values.
IsPipeline(k) == DOMAIN k = Fields /\ k = [f \in Fields |-> k[f]]

Pipeline(o) == DOMAIN o = Run /\ o = [r \in Run |-> o[r]] /\ \A r \in Run : IsPipeline(o[r])

\* What a step of a pipeline means to everyone else.
PipelineStep(r) ==
    /\ Pipeline(orch')
    /\ \A x \in Run \ {r} : orch'[x] = orch[x]
    /\ \/ UNCHANGED tableVars /\ orch[r].pc \notin Stopped /\ orch'[r].held = orch[r].held
       \/ UNCHANGED tableVars /\ orch'[r].held = NoRow /\ orch'[r].pc \in Stopped
       \/ InsertRow(r) /\ orch'[r].held = NewRow
       \/ /\ orch[r].pc \notin Stopped
          /\ \E target \in LifecycleState :
                /\ Applicable(r, orch[r].held, target)
                /\ Move(r, target, "orchestrator")
                /\ orch'[r].held = TransitionedRow(runs[r], target)

LEMMA Continues ==
  ASSUME Pipeline(orch), NEW r \in Run, NEW k, IsPipeline(k), Continue(r, k)
  PROVE  /\ Pipeline(orch') /\ orch'[r] = k
         /\ \A x \in Run \ {r} : orch'[x] = orch[x]
  BY DEF Pipeline, Continue

LEMMA DieStep ==
  ASSUME Pipeline(orch), NEW r \in Run, Die(r)
  PROVE  PipelineStep(r)
<1> DEFINE k == [Unstarted EXCEPT !.pc = "dead"]
<1>1. IsPipeline(k) /\ k.held = NoRow /\ k.pc \in Stopped
  BY DEF IsPipeline, Fields, Unstarted, Stopped
<1>2. Continue(r, k) /\ UNCHANGED tableVars
  BY DEF Die
<1> HIDE DEF k
<1> QED  BY <1>1, <1>2, Continues DEF PipelineStep

LEMMA GoesOn ==
  ASSUME Pipeline(orch), NEW r \in Run, orch[r].pc \notin Stopped, NEW k, IsPipeline(k),
         k.held = orch[r].held, Continue(r, k), UNCHANGED tableVars
  PROVE  PipelineStep(r)
  BY Continues DEF PipelineStep

LEMMA Advances ==
  ASSUME Pipeline(orch), NEW r \in Run, orch[r].pc \notin Stopped, NEW k, IsPipeline(k),
         NEW target \in LifecycleState, _advance(r, target, k)
  PROVE  PipelineStep(r)
<1>1. CASE Die(r)
  BY <1>1, DieStep
<1>2. CASE /\ Applicable(r, orch[r].held, target) /\ Move(r, target, "orchestrator")
           /\ Continue(r, [k EXCEPT !.held = TransitionedRow(runs[r], target)])
  <2> DEFINE m == [k EXCEPT !.held = TransitionedRow(runs[r], target)]
  <2>1. IsPipeline(m) /\ m.held = TransitionedRow(runs[r], target)
    BY DEF IsPipeline, Fields
  <2>2. Continue(r, m)
    BY <1>2
  <2> HIDE DEF m
  <2> QED  BY <1>2, <2>1, <2>2, Continues DEF PipelineStep
<1> QED  BY <1>1, <1>2 DEF _advance

LEMMA Fails ==
  ASSUME Pipeline(orch), NEW r \in Run, orch[r].pc \notin Stopped, _fail(r)
  PROVE  PipelineStep(r)
<1> DEFINE k == [orch[r] EXCEPT !.pc = "returned"]
<1>1. IsPipeline(k)
  BY DEF Pipeline, IsPipeline, Fields
<1>2. _advance(r, "FAILED", k)
  BY DEF _fail
<1> HIDE DEF k
<1> QED  BY <1>1, <1>2, Advances DEF LifecycleState


-----------------------------------------------------------------------------
\* Every step of a pipeline is one of these.
LEMMA StartSteps ==
  ASSUME Pipeline(orch), NEW r \in Run, start(r)
  PROVE  PipelineStep(r)
<1> DEFINE k == [Unstarted EXCEPT !.pc = "resolving", !.held = NewRow]
<1>1. IsPipeline(k) /\ k.held = NewRow
  BY DEF IsPipeline, Fields, Unstarted
<1>2. Continue(r, k) /\ InsertRow(r)
  BY DEF start
<1> HIDE DEF k
<1> QED  BY <1>1, <1>2, Continues DEF PipelineStep

LEMMA PlanSteps ==
  ASSUME Pipeline(orch), NEW r \in Run,
         resolve_repository(r) \/ invoke_planner(r) \/ accept_contract(r) \/ evaluate(r)
  PROVE  PipelineStep(r)
<1>1. IsPipeline(orch[r]) /\ orch[r].pc \notin Stopped
  BY DEF Pipeline, At, resolve_repository, invoke_planner, accept_contract, evaluate, Stopped
<1>2. CASE _fail(r)
  BY <1>1, <1>2, Fails
<1>3. CASE _advance(r, "PLANNING", [orch[r] EXCEPT !.pc = "planning"])
  <2> DEFINE k == [orch[r] EXCEPT !.pc = "planning"]
  <2>1. IsPipeline(k)
    BY <1>1 DEF IsPipeline, Fields
  <2> HIDE DEF k
  <2>2. _advance(r, "PLANNING", k)
    BY <1>3 DEF k
  <2> QED  BY <1>1, <2>1, <2>2, Advances DEF LifecycleState
<1>4. ASSUME NEW draft \in Drafts, NEW used \in Turns,
             _advance(r, "CONTRACT_VALIDATING",
                      [orch[r] EXCEPT !.pc = "validating", !.contract = draft,
                                      !.turns = @ + used])
      PROVE  PipelineStep(r)
  <2> DEFINE k == [orch[r] EXCEPT !.pc = "validating", !.contract = draft, !.turns = @ + used]
  <2>1. IsPipeline(k)
    BY <1>1 DEF IsPipeline, Fields
  <2> HIDE DEF k
  <2>2. _advance(r, "CONTRACT_VALIDATING", k)
    BY <1>4 DEF k
  <2> QED  BY <1>1, <2>1, <2>2, Advances DEF LifecycleState
<1>5. CASE /\ Continue(r, [orch[r] EXCEPT !.pc = "gating", !.subject = "contract",
                                          !.request = orch[r].contract.request])
           /\ UNCHANGED tableVars
  <2> DEFINE k == [orch[r] EXCEPT !.pc = "gating", !.subject = "contract",
                                  !.request = orch[r].contract.request]
  <2>1. IsPipeline(k) /\ k.held = orch[r].held
    BY <1>1 DEF IsPipeline, Fields
  <2> HIDE DEF k
  <2>2. Continue(r, k) /\ UNCHANGED tableVars
    BY <1>5 DEF k
  <2> QED  BY <1>1, <2>1, <2>2, GoesOn
<1>6. CASE evaluate(r)
  <2> DEFINE decision == evaluate_policy(orch[r].request, orch[r].contract.scope, CeilingScope)
             k == [orch[r] EXCEPT !.pc = "decided", !.decision = decision]
  <2>1. Continue(r, k) /\ UNCHANGED tableVars
    BY <1>6 DEF evaluate
  <2> HIDE DEF decision
  <2>2. IsPipeline(k) /\ k.held = orch[r].held
    BY <1>1 DEF IsPipeline, Fields
  <2> HIDE DEF k
  <2> QED  BY <1>1, <2>1, <2>2, GoesOn
<1> QED
  BY <1>2, <1>3, <1>4, <1>5, <1>6 DEF resolve_repository, invoke_planner, accept_contract

LEMMA NextAttemptShape ==
  ASSUME NEW k, IsPipeline(k)
  PROVE  IsPipeline(NextAttempt(k))
<1> DEFINE failed == failed_criteria_ids_of(k.answer)
<1>1. NextAttempt(k) = [k EXCEPT !.pc = "executing", !.baseline = k.frozen.post_test,
                                 !.previous = failed, !.attempt = @ + 1]
  BY Zenon DEF NextAttempt
<1> HIDE DEF failed
<1> QED  BY <1>1 DEF IsPipeline, Fields

LEMMA GrantedShape ==
  ASSUME NEW k, IsPipeline(k)
  PROVE  IsPipeline(Granted(k))
<1> DEFINE g == [k EXCEPT !.active = k.request, !.grants = k.decision.grants]
<1>1. IsPipeline(g) /\ IsPipeline([g EXCEPT !.pc = "creating"])
  BY DEF IsPipeline, Fields
<1>2. Granted(k) = IF k.subject = "contract" THEN [g EXCEPT !.pc = "creating"] ELSE NextAttempt(g)
  BY DEF Granted
<1> HIDE DEF g
<1> QED  BY <1>1, <1>2, NextAttemptShape

LEMMA GateSteps ==
  ASSUME Pipeline(orch), NEW r \in Run,
         act_on_decision(r) \/ approval_answered(r) \/ create_worktree(r)
  PROVE  PipelineStep(r)
<1>1. IsPipeline(orch[r]) /\ orch[r].pc \notin Stopped
  BY DEF Pipeline, At, act_on_decision, approval_answered, create_worktree, Stopped
<1>2. CASE _fail(r)
  BY <1>1, <1>2, Fails
<1>3. CASE _advance(r, "AWAITING_APPROVAL", [orch[r] EXCEPT !.pc = "awaiting_approval"])
  <2> DEFINE k == [orch[r] EXCEPT !.pc = "awaiting_approval"]
  <2>1. IsPipeline(k)
    BY <1>1 DEF IsPipeline, Fields
  <2> HIDE DEF k
  <2>2. _advance(r, "AWAITING_APPROVAL", k)
    BY <1>3 DEF k
  <2> QED  BY <1>1, <2>1, <2>2, Advances DEF LifecycleState
<1>4. CASE _advance(r, "PREPARING_WORKSPACE", Granted(orch[r]))
  <2>1. "PREPARING_WORKSPACE" \in LifecycleState
    BY DEF LifecycleState
  <2> QED  BY <1>1, <1>4, <2>1, GrantedShape, Advances
<1>5. CASE /\ Continue(r, [orch[r] EXCEPT !.pc = "executing", !.baseline = Base])
           /\ UNCHANGED tableVars
  <2> DEFINE k == [orch[r] EXCEPT !.pc = "executing", !.baseline = Base]
  <2>1. IsPipeline(k) /\ k.held = orch[r].held
    BY <1>1 DEF IsPipeline, Fields
  <2> HIDE DEF k
  <2>2. Continue(r, k) /\ UNCHANGED tableVars
    BY <1>5 DEF k
  <2> QED  BY <1>1, <2>1, <2>2, GoesOn
<1> QED
  BY <1>2, <1>3, <1>4, <1>5 DEF act_on_decision, approval_answered, create_worktree

LEMMA WorkSteps ==
  ASSUME Pipeline(orch), NEW r \in Run,
         enter_executing(r) \/ invoke_worker(r) \/ worker_returns(r) \/ enter_host_validating(r)
  PROVE  PipelineStep(r)
<1>1. IsPipeline(orch[r]) /\ orch[r].pc \notin Stopped
  BY DEF Pipeline, At, enter_executing, invoke_worker, worker_returns,
         enter_host_validating, Stopped
<1>2. CASE _fail(r)
  BY <1>1, <1>2, Fails
<1>3. CASE _advance(r, "EXECUTING", [orch[r] EXCEPT !.pc = "budgeting"])
  <2> DEFINE k == [orch[r] EXCEPT !.pc = "budgeting"]
  <2>1. IsPipeline(k)
    BY <1>1 DEF IsPipeline, Fields
  <2> HIDE DEF k
  <2>2. _advance(r, "EXECUTING", k)
    BY <1>3 DEF k
  <2> QED  BY <1>1, <2>1, <2>2, Advances DEF LifecycleState
<1>4. CASE Continue(r, [orch[r] EXCEPT !.pc = "working"]) /\ UNCHANGED tableVars
  <2> DEFINE k == [orch[r] EXCEPT !.pc = "working"]
  <2>1. IsPipeline(k) /\ k.held = orch[r].held
    BY <1>1 DEF IsPipeline, Fields
  <2> HIDE DEF k
  <2>2. Continue(r, k) /\ UNCHANGED tableVars
    BY <1>4 DEF k
  <2> QED  BY <1>1, <2>1, <2>2, GoesOn
<1>5. ASSUME NEW used \in Turns, NEW wanted \in Additional \union {None},
             _advance(r, "FREEZING_RESULT",
                      [orch[r] EXCEPT !.pc = "freezing", !.turns = @ + used,
                                      !.wanted = wanted])
      PROVE  PipelineStep(r)
  <2> DEFINE k == [orch[r] EXCEPT !.pc = "freezing", !.turns = @ + used, !.wanted = wanted]
  <2>1. IsPipeline(k)
    BY <1>1 DEF IsPipeline, Fields
  <2> HIDE DEF k
  <2>2. _advance(r, "FREEZING_RESULT", k)
    BY <1>5 DEF k
  <2> QED  BY <1>1, <2>1, <2>2, Advances DEF LifecycleState
<1>6. CASE _advance(r, "HOST_VALIDATING", [orch[r] EXCEPT !.pc = "checking"])
  <2> DEFINE k == [orch[r] EXCEPT !.pc = "checking"]
  <2>1. IsPipeline(k)
    BY <1>1 DEF IsPipeline, Fields
  <2> HIDE DEF k
  <2>2. _advance(r, "HOST_VALIDATING", k)
    BY <1>6 DEF k
  <2> QED  BY <1>1, <2>1, <2>2, Advances DEF LifecycleState
<1> QED
  BY <1>2, <1>3, <1>4, <1>5, <1>6
     DEF enter_executing, invoke_worker, worker_returns, enter_host_validating

LEMMA CheckSteps ==
  ASSUME Pipeline(orch), NEW r \in Run, host_validate(r) \/ verify(r)
  PROVE  PipelineStep(r)
<1>1. IsPipeline(orch[r]) /\ orch[r].pc \notin Stopped
  BY DEF Pipeline, At, host_validate, verify, Stopped
<1>2. CASE _fail(r)
  BY <1>1, <1>2, Fails
<1>3. CASE Die(r)
  BY <1>3, DieStep
<1>4. ASSUME NEW f,
             _advance(r, "VERIFYING", [orch[r] EXCEPT !.pc = "verifying", !.frozen = f])
      PROVE  PipelineStep(r)
  <2> DEFINE k == [orch[r] EXCEPT !.pc = "verifying", !.frozen = f]
  <2>1. IsPipeline(k)
    BY <1>1 DEF IsPipeline, Fields
  <2> HIDE DEF k
  <2>2. _advance(r, "VERIFYING", k)
    BY <1>4 DEF k
  <2> QED  BY <1>1, <2>1, <2>2, Advances DEF LifecycleState
<1>5. ASSUME NEW answer \in Answers, NEW used \in Turns,
             Continue(r, [orch[r] EXCEPT !.pc = "verified", !.answer = answer,
                                         !.turns = @ + used]),
             UNCHANGED tableVars
      PROVE  PipelineStep(r)
  <2> DEFINE k == [orch[r] EXCEPT !.pc = "verified", !.answer = answer, !.turns = @ + used]
  <2>1. IsPipeline(k) /\ k.held = orch[r].held
    BY <1>1 DEF IsPipeline, Fields
  <2> HIDE DEF k
  <2>2. Continue(r, k) /\ UNCHANGED tableVars
    BY <1>5 DEF k
  <2> QED  BY <1>1, <2>1, <2>2, GoesOn
<1>6. CASE host_validate(r)
  <2>1. ASSUME NEW left \in Manifests \union {None}, NEW executions \in Executions,
               _advance(r, "VERIFYING",
                  [orch[r] EXCEPT !.pc = "verifying",
                     !.frozen = freeze_and_validate(orch[r].baseline, Walk(worktree[r]),
                                  Walk(left), executions, orch[r].grants.path_rules)])
        PROVE  PipelineStep(r)
    <3> DEFINE f == freeze_and_validate(orch[r].baseline, Walk(worktree[r]),
                       Walk(left), executions, orch[r].grants.path_rules)
    <3>1. _advance(r, "VERIFYING", [orch[r] EXCEPT !.pc = "verifying", !.frozen = f])
      BY <2>1
    <3> HIDE DEF f
    <3> QED  BY <3>1, <1>4
  <2> QED  BY <1>3, <1>6, <2>1 DEF host_validate
<1>7. CASE verify(r)
  BY <1>2, <1>5, <1>7 DEF verify
<1> QED  BY <1>6, <1>7

LEMMA EndSteps ==
  ASSUME Pipeline(orch), NEW r \in Run, conclude(r) \/ final_answered(r)
  PROVE  PipelineStep(r)
<1>1. IsPipeline(orch[r]) /\ orch[r].pc \notin Stopped
  BY DEF Pipeline, At, conclude, final_answered, Stopped
<1>2. CASE _fail(r)
  BY <1>1, <1>2, Fails
<1>3. CASE Die(r)
  BY <1>3, DieStep
<1>4. CASE _advance(r, "AWAITING_MANUAL_REVIEW", [orch[r] EXCEPT !.pc = "returned"])
  <2> DEFINE k == [orch[r] EXCEPT !.pc = "returned"]
  <2>1. IsPipeline(k)
    BY <1>1 DEF IsPipeline, Fields
  <2> HIDE DEF k
  <2>2. _advance(r, "AWAITING_MANUAL_REVIEW", k)
    BY <1>4 DEF k
  <2> QED  BY <1>1, <2>1, <2>2, Advances DEF LifecycleState
<1>5. CASE _advance(r, "AWAITING_FINAL_APPROVAL", [orch[r] EXCEPT !.pc = "awaiting_final"])
  <2> DEFINE k == [orch[r] EXCEPT !.pc = "awaiting_final"]
  <2>1. IsPipeline(k)
    BY <1>1 DEF IsPipeline, Fields
  <2> HIDE DEF k
  <2>2. _advance(r, "AWAITING_FINAL_APPROVAL", k)
    BY <1>5 DEF k
  <2> QED  BY <1>1, <2>1, <2>2, Advances DEF LifecycleState
<1>6. CASE Continue(r, [orch[r] EXCEPT !.pc = "reworking"]) /\ UNCHANGED tableVars
  <2> DEFINE k == [orch[r] EXCEPT !.pc = "reworking"]
  <2>1. IsPipeline(k) /\ k.held = orch[r].held
    BY <1>1 DEF IsPipeline, Fields
  <2> HIDE DEF k
  <2>2. Continue(r, k) /\ UNCHANGED tableVars
    BY <1>6 DEF k
  <2> QED  BY <1>1, <2>1, <2>2, GoesOn
<1>7. ASSUME NEW target \in {"READY_FOR_MERGE", "REWORK_CONTRACTING"},
             _advance(r, target, [orch[r] EXCEPT !.pc = "returned"])
      PROVE  PipelineStep(r)
  <2> DEFINE k == [orch[r] EXCEPT !.pc = "returned"]
  <2>1. IsPipeline(k) /\ target \in LifecycleState
    BY <1>1 DEF IsPipeline, Fields, LifecycleState
  <2> HIDE DEF k
  <2>2. _advance(r, target, k)
    BY <1>7 DEF k
  <2> QED  BY <1>1, <2>1, <2>2, Advances
<1>8. CASE rework(r)
  BY <1>2, <1>3, <1>6, <1>8 DEF rework
<1> QED
  BY <1>2, <1>4, <1>5, <1>7, <1>8 DEF conclude, final_answered

LEMMA ReworkSteps ==
  ASSUME Pipeline(orch), NEW r \in Run,
         \/ enter_rework_contracting(r) \/ reenter_contract_validating(r)
         \/ reenter_preparing(r)
  PROVE  PipelineStep(r)
<1>1. IsPipeline(orch[r]) /\ orch[r].pc \notin Stopped
  BY DEF Pipeline, At, enter_rework_contracting, reenter_contract_validating,
         reenter_preparing, Stopped
<1>2. CASE _advance(r, "REWORK_CONTRACTING", [orch[r] EXCEPT !.pc = "revalidating"])
  <2> DEFINE k == [orch[r] EXCEPT !.pc = "revalidating"]
  <2>1. IsPipeline(k)
    BY <1>1 DEF IsPipeline, Fields
  <2> HIDE DEF k
  <2>2. _advance(r, "REWORK_CONTRACTING", k)
    BY <1>2 DEF k
  <2> QED  BY <1>1, <2>1, <2>2, Advances DEF LifecycleState
<1>3. CASE reenter_contract_validating(r)
  <2> DEFINE merged == merge_requested_capabilities(orch[r].active, orch[r].wanted)
             same == [orch[r] EXCEPT !.pc = "repreparing"]
             more == [orch[r] EXCEPT !.pc = "gating", !.subject = "rework",
                                     !.request = merged]
  <2>1. _advance(r, "CONTRACT_VALIDATING", IF orch[r].wanted = None THEN same ELSE more)
    BY <1>3 DEF reenter_contract_validating
  <2> HIDE DEF merged
  <2>2. IsPipeline(same) /\ IsPipeline(more)
    BY <1>1 DEF IsPipeline, Fields
  <2> HIDE DEF same, more
  <2>3. "CONTRACT_VALIDATING" \in LifecycleState
    BY DEF LifecycleState
  <2> QED  BY <1>1, <2>1, <2>2, <2>3, Advances
<1>4. CASE reenter_preparing(r)
  <2>1. "PREPARING_WORKSPACE" \in LifecycleState
    BY DEF LifecycleState
  <2> QED  BY <1>1, <1>4, <2>1, NextAttemptShape, Advances DEF reenter_preparing
<1> QED
  BY <1>2, <1>3, <1>4 DEF enter_rework_contracting

LEMMA PipelineActs ==
  ASSUME Pipeline(orch), NEW r \in Run,
         start(r) \/ Step(r) \/ HumanAnswers(r) \/ crash(r)
  PROVE  PipelineStep(r)
<1>1. CASE crash(r)
  BY <1>1, DieStep DEF crash
<1>2. CASE start(r) \/ Step(r) \/ HumanAnswers(r)
  BY <1>2, StartSteps, PlanSteps, GateSteps, WorkSteps, CheckSteps, EndSteps, ReworkSteps
     DEF Step, HumanAnswers
<1> QED  BY <1>1, <1>2

\* Whatever Pipelines does, one pipeline does it.
LEMMA PipelineSteps ==
  ASSUME Pipeline(orch), Pipelines
  PROVE  \E r \in Run : PipelineStep(r)
  BY PipelineActs DEF Pipelines, Next


-----------------------------------------------------------------------------
(* The inductive invariant.  CopiesAreVersioned is its core; what each     *)
(* actor's next step needs to know of the copy it holds comes on top.      *)

TablesInv ==
    /\ TableTypeOK
    /\ worktree \in [Run -> Manifest \union {None}]
    /\ \A r \in Run : runs[r] = NoRow => mover[r] = "nobody"

\* While a pipeline holds the committed row, nobody else has moved it.
Owner(r) ==
    /\ orch[r].held \in Row \union {NoRow}
    /\ OneOf(orch[r].held, r)
    /\ orch[r].pc \notin Stopped => orch[r].held # NoRow
    /\ orch[r].held # NoRow /\ orch[r].held.version = runs[r].version =>
          mover[r] \in {"nobody", "orchestrator"}

\* A command holds a row; what it shows its human is no older than that; it
\* removes a worktree only when its Run is over for good.
Commander(c) ==
    /\ cli[c].pc = "idle" => cli[c].run = None /\ cli[c].shown = None
    /\ cli[c].pc # "idle" =>
         /\ cli[c].run \in Run
         /\ cli[c].held \in Row
         /\ OneOf(cli[c].held, cli[c].run)
    /\ cli[c].pc \in {"showing", "applying"} => cli[c].target \in LifecycleState
    /\ cli[c].pc # "idle" /\ cli[c].verb = "cancel" =>
         cli[c].target = "CANCELLED" /\ cli[c].pc # "showing" /\ cli[c].shown = None
    /\ cli[c].shown # None =>
         /\ cli[c].pc = "applying"
         /\ cli[c].held.version <= cli[c].shown
         /\ cli[c].shown <= runs[cli[c].run].version
    /\ cli[c].pc = "removing" => runs[cli[c].run].state \in TERMINAL_LIFECYCLE_STATES

\* A scan's copy is of a row nobody has touched since, or of an older version.
Listing(s, r) ==
    /\ listed[s][r] \in Row \union {NoRow}
    /\ OneOf(listed[s][r], r)
    /\ listed[s][r] # NoRow /\ listed[s][r].version = runs[r].version => ~fresh[r]

CliInv == CliTypeOK /\ \A c \in Cli : Commander(c)

ScanInv == /\ listed \in [Scanner -> [Run -> Row \union {NoRow}]]
           /\ \A s \in Scanner, r \in Run : Listing(s, r)

IInv == /\ TablesInv
        /\ Pipeline(orch) /\ \A r \in Run : Owner(r)
        /\ CliInv
        /\ ScanInv

-----------------------------------------------------------------------------
(* What a step of the tables does to one row, and to everyone's copy of it. *)

TableStep(actor) ==
    \/ UNCHANGED tableVars
    \/ \E r \in Run : InsertRow(r)
    \/ \E r \in Run, target \in LifecycleState :
          /\ runs[r] \in Row
          /\ validate_transition(runs[r].state, target)
          /\ Move(r, target, actor)

Kept(r) == runs'[r] = runs[r] /\ mover'[r] = mover[r] /\ (fresh'[r] => fresh[r])

Inserted(r) == runs[r] = NoRow /\ runs'[r] = NewRow /\ mover'[r] = mover[r]

Advanced(r, actor) ==
    /\ runs[r] \in Row /\ runs[r].state \notin TERMINAL_LIFECYCLE_STATES
    /\ runs'[r] \in Row /\ runs'[r].version = runs[r].version + 1
    /\ mover'[r] = actor

RowStep(r, actor) == Kept(r) \/ Inserted(r) \/ Advanced(r, actor)

LEMMA Rows ==
  /\ NewRow \in Row /\ NoRow \notin Row /\ NewRow # NoRow
  /\ NoRow.version = 0 /\ NewRow.version = 0
  /\ \A row \in Row : row.version \in Nat /\ row.state \in LifecycleState
  BY DEF NewRow, NoRow, Row, LifecycleState, TERMINAL_LIFECYCLE_STATES

LEMMA MovedRow ==
  ASSUME NEW row \in Row, NEW target \in LifecycleState
  PROVE  /\ TransitionedRow(row, target) \in Row
         /\ TransitionedRow(row, target).version = row.version + 1
         /\ TransitionedRow(row, target).state = target
  BY DEF TransitionedRow, Row

LEMMA TableSteps ==
  ASSUME TableTypeOK, NEW actor \in Actor, TableStep(actor)
  PROVE  TableTypeOK' /\ \A x \in Run : RowStep(x, actor)
<1>1. CASE UNCHANGED tableVars
  BY <1>1 DEF TableTypeOK, tableVars, RowStep, Kept
<1>2. ASSUME NEW r \in Run, InsertRow(r)
      PROVE  TableTypeOK' /\ \A x \in Run : RowStep(x, actor)
  <2> DEFINE new == NewRow
  <2>1. /\ runs[r] = NoRow /\ runs' = [runs EXCEPT ![r] = new]
        /\ fresh' = [fresh EXCEPT ![r] = TRUE] /\ UNCHANGED <<failures, mover>>
    BY <1>2 DEF InsertRow
  <2>2. new \in Row /\ new = NewRow
    BY Rows
  <2> HIDE DEF new
  <2>3. TableTypeOK'
    BY <2>1, <2>2 DEF TableTypeOK
  <2>4. \A x \in Run : RowStep(x, actor)
    BY <2>1, <2>2 DEF TableTypeOK, RowStep, Kept, Inserted
  <2> QED  BY <2>3, <2>4
<1>3. ASSUME NEW r \in Run, NEW target \in LifecycleState, runs[r] \in Row,
             validate_transition(runs[r].state, target), Move(r, target, actor)
      PROVE  TableTypeOK' /\ \A x \in Run : RowStep(x, actor)
  <2> DEFINE new == TransitionedRow(runs[r], target)
  <2>1. /\ runs' = [runs EXCEPT ![r] = new]
        /\ failures' = [failures EXCEPT ![r] = IF target = "FAILED" THEN @ + 1 ELSE @]
        /\ mover' = [mover EXCEPT ![r] = actor]
        /\ fresh' = [fresh EXCEPT ![r] = TRUE]
    BY <1>3 DEF Move
  <2>2. new \in Row /\ new.version = runs[r].version + 1
    BY <1>3, MovedRow
  <2>3. runs[r].state \notin TERMINAL_LIFECYCLE_STATES
    BY <1>3 DEF validate_transition
  <2> HIDE DEF new
  <2>4. TableTypeOK'
    BY <2>1, <2>2 DEF TableTypeOK
  <2>5. \A x \in Run : RowStep(x, actor)
    BY <1>3, <2>1, <2>2, <2>3 DEF TableTypeOK, RowStep, Kept, Advanced
  <2> QED  BY <2>4, <2>5
<1> QED  BY <1>1, <1>2, <1>3 DEF TableStep

LEMMA CopyStays ==
  ASSUME NEW r \in Run, runs[r] \in Row \union {NoRow}, NEW actor, RowStep(r, actor),
         NEW held \in Row \union {NoRow}, OneOf(held, r)
  PROVE  /\ OneOf(held, r)'
         /\ held # NoRow /\ held.version = runs'[r].version => Kept(r)
         /\ runs[r].version <= runs'[r].version
  BY Rows DEF OneOf, RowStep, Kept, Inserted, Advanced

LEMMA NoRowIsNobodys ==
  ASSUME NEW r \in Run, runs[r] \in Row \union {NoRow}, NEW actor, RowStep(r, actor),
         runs[r] = NoRow => mover[r] = "nobody"
  PROVE  runs'[r] = NoRow => mover'[r] = "nobody"
  BY Rows DEF RowStep, Kept, Inserted, Advanced

\* Whoever does not take the step keeps its part of the invariant.
LEMMA OwnerStays ==
  ASSUME NEW r \in Run, runs[r] \in Row \union {NoRow}, NEW actor, RowStep(r, actor),
         Owner(r), orch'[r] = orch[r]
  PROVE  Owner(r)'
<1>1. /\ OneOf(orch[r].held, r)'
      /\ orch[r].held # NoRow /\ orch[r].held.version = runs'[r].version => Kept(r)
  BY CopyStays DEF Owner
<1> QED  BY <1>1 DEF Owner, Kept, OneOf

LEMMA ListingStays ==
  ASSUME NEW s \in Scanner, NEW r \in Run, runs[r] \in Row \union {NoRow},
         NEW actor, RowStep(r, actor), Listing(s, r), listed'[s][r] = listed[s][r]
  PROVE  Listing(s, r)'
<1>1. /\ OneOf(listed[s][r], r)'
      /\ listed[s][r] # NoRow /\ listed[s][r].version = runs'[r].version => Kept(r)
  BY CopyStays DEF Listing
<1> QED  BY <1>1 DEF Listing, Kept, OneOf

LEMMA CommanderStays ==
  ASSUME NEW c \in Cli, TableTypeOK, CliTypeOK, Commander(c), cli'[c] = cli[c],
         NEW actor, \A r \in Run : RowStep(r, actor)
  PROVE  Commander(c)'
<1>1. CASE cli[c].pc = "idle"
  BY <1>1 DEF Commander
<1>2. CASE cli[c].pc # "idle"
  <2> DEFINE r == cli[c].run
             held == cli[c].held
             shown == cli[c].shown
  <2>1. r \in Run /\ held \in Row /\ OneOf(held, r) /\ runs[r] \in Row \union {NoRow}
    BY <1>2 DEF Commander, TableTypeOK
  <2>2. RowStep(r, actor) /\ shown \in Nat \union {None}
    BY <2>1 DEF CliTypeOK, CliState
  <2>3. OneOf(held, r)' /\ runs[r].version <= runs'[r].version
    BY <2>1, <2>2, CopyStays
  <2>4. runs[r] \in Row /\ runs[r].version \in Nat /\ runs'[r].version \in Nat
    BY <2>1, <2>2, Rows DEF OneOf, RowStep, Kept, Inserted, Advanced
  <2>5. shown # None => /\ cli[c].pc = "applying" /\ held.version <= shown
                        /\ shown <= runs'[r].version
    BY <2>2, <2>3, <2>4 DEF Commander
  <2>6. cli[c].pc = "removing" => runs'[r].state \in TERMINAL_LIFECYCLE_STATES
    BY <2>2, <2>4, Rows DEF Commander, RowStep, Kept, Inserted, Advanced
  <2> QED  BY <1>2, <2>1, <2>3, <2>5, <2>6 DEF Commander, OneOf
<1> QED  BY <1>1, <1>2


-----------------------------------------------------------------------------
(* Each actor's step preserves the invariant.                              *)

\* Everybody's copies, when only the tables changed.
LEMMA OthersStay ==
  ASSUME IInv, NEW actor \in Actor, TableStep(actor)
  PROVE  /\ TableTypeOK'
         /\ \A r \in Run : runs'[r] = NoRow => mover'[r] = "nobody"
         /\ \A r \in Run : orch'[r] = orch[r] => Owner(r)'
         /\ \A c \in Cli : cli'[c] = cli[c] => Commander(c)'
         /\ \A s \in Scanner, r \in Run : listed'[s][r] = listed[s][r] => Listing(s, r)'
<1>1. TableTypeOK' /\ \A r \in Run : RowStep(r, actor)
  BY TableSteps DEF IInv, TablesInv
<1>2. \A r \in Run : runs[r] \in Row \union {NoRow}
  BY DEF IInv, TablesInv, TableTypeOK
<1>3. \A r \in Run : runs'[r] = NoRow => mover'[r] = "nobody"
  BY <1>1, <1>2, NoRowIsNobodys DEF IInv, TablesInv
<1>4. \A r \in Run : orch'[r] = orch[r] => Owner(r)'
  BY <1>1, <1>2, OwnerStays DEF IInv
<1>5. \A c \in Cli : cli'[c] = cli[c] => Commander(c)'
  BY <1>1, CommanderStays DEF IInv, CliInv, TablesInv
<1>6. \A s \in Scanner, r \in Run : listed'[s][r] = listed[s][r] => Listing(s, r)'
  BY <1>1, <1>2, ListingStays DEF IInv, ScanInv
<1> QED  BY <1>1, <1>3, <1>4, <1>5, <1>6

\* A pipeline only moves the row it holds, as a caller of the table.
LEMMA PipelineTables ==
  ASSUME IInv, NEW r \in Run, PipelineStep(r)
  PROVE  TableStep("orchestrator")
<1>1. CASE UNCHANGED tableVars \/ InsertRow(r)
  BY <1>1 DEF TableStep
<1>2. ASSUME orch[r].pc \notin Stopped, NEW target \in LifecycleState,
             Applicable(r, orch[r].held, target), Move(r, target, "orchestrator")
      PROVE  TableStep("orchestrator")
  <2>1. runs[r] \in Row
    BY <1>2 DEF IInv, Owner, OneOf, TablesInv, TableTypeOK
  <2> QED  BY <1>2, <2>1 DEF TableStep, Applicable
<1> QED  BY <1>1, <1>2 DEF PipelineStep

LEMMA PipelineOwner ==
  ASSUME IInv, NEW r \in Run, PipelineStep(r)
  PROVE  Owner(r)'
<1> DEFINE held == orch[r].held
<1>1. /\ Owner(r) /\ held \in Row \union {NoRow} /\ OneOf(held, r)
      /\ runs[r] \in Row \union {NoRow} /\ mover[r] \in Actor \union {"nobody"}
  BY DEF IInv, Owner, TablesInv, TableTypeOK
<1>2. CASE UNCHANGED tableVars /\ orch[r].pc \notin Stopped /\ orch'[r].held = held
  BY <1>1, <1>2 DEF Owner, OneOf, tableVars
<1>3. CASE UNCHANGED tableVars /\ orch'[r].held = NoRow /\ orch'[r].pc \in Stopped
  BY <1>3 DEF Owner, OneOf
<1>4. CASE InsertRow(r) /\ orch'[r].held = NewRow
  <2>1. runs'[r] = NewRow /\ mover'[r] = "nobody"
    BY <1>4 DEF InsertRow, IInv, TablesInv, TableTypeOK
  <2> QED  BY <1>4, <2>1, Rows DEF Owner, OneOf
<1>5. ASSUME orch[r].pc \notin Stopped, NEW target \in LifecycleState,
             Applicable(r, held, target), Move(r, target, "orchestrator"),
             orch'[r].held = TransitionedRow(runs[r], target)
      PROVE  Owner(r)'
  <2> DEFINE new == TransitionedRow(runs[r], target)
  <2>1. runs[r] \in Row
    BY <1>1, <1>5 DEF Owner, OneOf
  <2>2. new \in Row
    BY <2>1, MovedRow
  <2>3. runs' = [runs EXCEPT ![r] = new] /\ mover' = [mover EXCEPT ![r] = "orchestrator"]
    BY <1>5 DEF Move
  <2>4. orch'[r].held = new
    BY <1>5
  <2> HIDE DEF new
  <2>5. runs'[r] = new /\ mover'[r] = "orchestrator"
    BY <2>3 DEF IInv, TablesInv, TableTypeOK
  <2> QED  BY <2>2, <2>4, <2>5, Rows DEF Owner, OneOf
<1> QED  BY <1>2, <1>3, <1>4, <1>5 DEF PipelineStep

\* A pipeline makes its worktree and works in it; it never takes it away.
LEMMA PipelineWorktree ==
  ASSUME TablesInv, Pipelines
  PROVE  /\ worktree' \in [Run -> Manifest \union {None}]
         /\ \A r \in Run : worktree'[r] = None => worktree[r] = None
<1>1. Base \in Manifest /\ Manifests \subseteq Manifest /\ None \notin Manifest
  BY OrchestratorAssumption
<1>2. CASE UNCHANGED worktree
  BY <1>2 DEF TablesInv
<1>3. ASSUME NEW r \in Run, create_worktree(r)
      PROVE  \/ UNCHANGED worktree
             \/ \E left \in Manifest : worktree' = [worktree EXCEPT ![r] = left]
  BY <1>1, <1>3 DEF create_worktree
<1>4. ASSUME NEW r \in Run, worker_returns(r) \/ host_validate(r)
      PROVE  \/ UNCHANGED worktree
             \/ \E left : Leaves(r, left)
  BY <1>4 DEF worker_returns, host_validate
<1>5. ASSUME NEW r \in Run, NEW left \in Manifest, worktree' = [worktree EXCEPT ![r] = left]
      PROVE  /\ worktree' \in [Run -> Manifest \union {None}]
             /\ \A x \in Run : worktree'[x] = None => worktree[x] = None
  BY <1>1, <1>5 DEF TablesInv
<1>6. ASSUME NEW r \in Run, NEW left, Leaves(r, left)
      PROVE  /\ worktree' \in [Run -> Manifest \union {None}]
             /\ \A x \in Run : worktree'[x] = None => worktree[x] = None
  BY <1>1, <1>6, SMTT(20) DEF TablesInv, Leaves
<1>7. ASSUME NEW r \in Run, start(r) \/ Step(r) \/ HumanAnswers(r) \/ crash(r)
      PROVE  UNCHANGED worktree \/ create_worktree(r) \/ worker_returns(r) \/ host_validate(r)
  BY <1>7 DEF start, Step, HumanAnswers, crash, resolve_repository, invoke_planner,
     accept_contract, evaluate, act_on_decision, approval_answered, enter_executing,
     invoke_worker, enter_host_validating, verify, conclude, final_answered,
     enter_rework_contracting, reenter_contract_validating, reenter_preparing
<1> QED  BY <1>2, <1>3, <1>4, <1>5, <1>6, <1>7 DEF Pipelines, Next

LEMMA PipelinesInv ==
  ASSUME IInv, Pipelines
  PROVE  IInv'
<1>1. PICK r \in Run : PipelineStep(r)
  BY PipelineSteps DEF IInv
<1>2. TableStep("orchestrator") /\ "orchestrator" \in Actor
  BY <1>1, PipelineTables DEF Actor
<1>3. /\ cli' = cli /\ listed' = listed
      /\ Pipeline(orch') /\ \A x \in Run \ {r} : orch'[x] = orch[x]
  BY <1>1 DEF Pipelines, PipelineStep
<1>4. TablesInv'
  BY <1>2, OthersStay, PipelineWorktree DEF IInv, TablesInv
<1>5. \A x \in Run : Owner(x)'
  BY <1>1, <1>2, <1>3, OthersStay, PipelineOwner
<1>6. CliInv'
  BY <1>2, <1>3, OthersStay DEF IInv, CliInv, CliTypeOK
<1>7. ScanInv'
  BY <1>2, <1>3, OthersStay DEF IInv, ScanInv
<1> QED  BY <1>3, <1>4, <1>5, <1>6, <1>7 DEF IInv


\* A command that becomes k, whatever it did to the tables.
LEMMA CommandBecomes ==
  ASSUME IInv, NEW c \in Cli, NEW k \in CliState, k.left <= MaxCommands[c],
         cli' = [cli EXCEPT ![c] = k], TableStep("cli"), Commander(c)',
         UNCHANGED <<orch, listed>>,
         worktree' \in [Run -> Manifest \union {None}]
  PROVE  IInv'
<1>1. "cli" \in Actor
  BY DEF Actor
<1>2. CliTypeOK'
  BY DEF IInv, CliInv, CliTypeOK
<1>3. \A d \in Cli \ {c} : cli'[d] = cli[d]
  BY DEF IInv, CliInv, CliTypeOK
<1>4. CliInv'
  BY <1>1, <1>2, <1>3, OthersStay DEF CliInv
<1>5. TablesInv'
  BY <1>1, OthersStay DEF TablesInv
<1>6. Pipeline(orch') /\ \A r \in Run : Owner(r)'
  BY <1>1, OthersStay DEF IInv
<1>7. ScanInv'
  BY <1>1, OthersStay DEF IInv, ScanInv
<1> QED  BY <1>4, <1>5, <1>6, <1>7 DEF IInv

LEMMA NoCommandIdle ==
  ASSUME NEW n \in Nat
  PROVE  /\ NoCommand(n) \in CliState /\ NoCommand(n).left = n
         /\ NoCommand(n).pc = "idle" /\ NoCommand(n).run = None
         /\ NoCommand(n).shown = None /\ NoCommand(n).verb = None
  BY DEF NoCommand, CliState

LEMMA BeginStep ==
  ASSUME IInv, NEW c \in Cli, NEW r \in Run,
         NEW pc \in {"showing", "applying", "removing"},
         NEW verb \in {"approve", "reject", "resume", "cancel", "cleanup"},
         NEW target \in LifecycleState \union {None}, Begin(c, r, pc, verb, target),
         pc \in {"showing", "applying"} => target # None,
         verb = "cancel" => target = "CANCELLED" /\ pc # "showing",
         pc = "removing" => runs[r].state \in TERMINAL_LIFECYCLE_STATES,
         UNCHANGED <<orch, listed>>
  PROVE  IInv'
<1> DEFINE row == runs[r]
           k == [NoCommand(cli[c].left - 1) EXCEPT
                   !.pc = pc, !.run = r, !.verb = verb, !.target = target, !.held = row]
<1>1. /\ cli' = [cli EXCEPT ![c] = k] /\ UNCHANGED <<tableVars, worktree>>
      /\ cli[c].left > 0 /\ row # NoRow
  BY DEF Begin, IInv, CliInv, CliTypeOK
<1>2. cli[c].left \in Nat /\ cli[c].left <= MaxCommands[c] /\ MaxCommands[c] \in Nat
  BY CliAssumption DEF IInv, CliInv, CliTypeOK, CliState
<1>3. row \in Row
  BY <1>1 DEF IInv, TablesInv, TableTypeOK
<1>4. /\ k \in CliState /\ k.left = cli[c].left - 1 /\ k.pc = pc /\ k.run = r
      /\ k.verb = verb /\ k.target = target /\ k.held = row /\ k.shown = None
  <2> DEFINE n == cli[c].left - 1
  <2>1. n \in Nat
    BY <1>1, <1>2
  <2>2. k = [NoCommand(n) EXCEPT
               !.pc = pc, !.run = r, !.verb = verb, !.target = target, !.held = row]
    OBVIOUS
  <2> HIDE DEF n, row, k
  <2>3. k = [pc |-> pc, run |-> r, verb |-> verb, target |-> target,
             held |-> row, shown |-> None, left |-> n]
    BY <2>2 DEF NoCommand
  <2> QED  BY <1>3, <2>1, <2>3 DEF CliState, n
<1> HIDE DEF k
<1>5. cli'[c] = k
  BY <1>1 DEF IInv, CliInv, CliTypeOK
<1>6. runs' = runs /\ row.version <= row.version /\ None \notin LifecycleState
  BY <1>1, <1>3, Rows, TableAssumption DEF tableVars
<1>7. Commander(c)'
  BY <1>3, <1>4, <1>5, <1>6, <1>1 DEF Commander, OneOf
<1>8. worktree' \in [Run -> Manifest \union {None}]
  BY <1>1 DEF IInv, TablesInv
<1>9. TableStep("cli") /\ k.left <= MaxCommands[c]
  BY <1>1, <1>2, <1>4 DEF TableStep
<1> QED  BY <1>1, <1>4, <1>7, <1>8, <1>9, CommandBecomes

LEMMA ExitStep ==
  ASSUME IInv, NEW c \in Cli, Exit(c), TableStep("cli"),
         UNCHANGED <<orch, listed>>,
         worktree' \in [Run -> Manifest \union {None}]
  PROVE  IInv'
<1> DEFINE n == cli[c].left
           k == NoCommand(n)
<1>1. n \in Nat /\ n <= MaxCommands[c]
  BY DEF IInv, CliInv, CliTypeOK, CliState
<1>2. cli' = [cli EXCEPT ![c] = k] /\ cli'[c] = k
  BY DEF Exit, IInv, CliInv, CliTypeOK
<1>3. /\ k \in CliState /\ k.left = n /\ k.pc = "idle" /\ k.run = None
      /\ k.shown = None /\ k.verb = None
  BY <1>1, NoCommandIdle
<1> HIDE DEF k
<1>4. Commander(c)'
  BY <1>2, <1>3 DEF Commander
<1> QED  BY <1>1, <1>2, <1>3, <1>4, CommandBecomes

LEMMA BeginSteps ==
  ASSUME IInv, NEW c \in Cli, NEW r \in Run, UNCHANGED <<orch, listed>>,
         approve(c, r) \/ reject(c, r) \/ resume(c, r) \/ cancel(c, r) \/ cleanup(c, r)
  PROVE  IInv'
<1>0. None \notin LifecycleState
  BY TableAssumption
<1>1. CASE approve(c, r)
  <2> DEFINE target == _AWAITING_APPROVE_TARGET[runs[r].state]
  <2>1. target \in LifecycleState /\ Begin(c, r, "showing", "approve", target)
    BY <1>1 DEF approve, _AWAITING_APPROVE_TARGET, LifecycleState
  <2> HIDE DEF target
  <2> QED  BY <1>0, <2>1, BeginStep
<1>2. CASE reject(c, r)
  <2> DEFINE target == _AWAITING_REJECT_TARGET[runs[r].state]
  <2>1. target \in LifecycleState /\ Begin(c, r, "showing", "reject", target)
    BY <1>2 DEF reject, _AWAITING_REJECT_TARGET, LifecycleState
  <2> HIDE DEF target
  <2> QED  BY <1>0, <2>1, BeginStep
<1>3. CASE resume(c, r)
  <2>1. PICK to \in RECOVERY_RESTART_TARGETS : Begin(c, r, "applying", "resume", to)
    BY <1>3 DEF resume
  <2>2. to \in LifecycleState
    BY DEF RECOVERY_RESTART_TARGETS, LifecycleState
  <2> QED  BY <1>0, <2>1, <2>2, BeginStep
<1>4. CASE cancel(c, r)
  <2>1. "CANCELLED" \in LifecycleState
    BY DEF LifecycleState
  <2> QED  BY <1>0, <1>4, <2>1, BeginStep DEF cancel
<1>5. CASE cleanup(c, r)
  BY <1>5, BeginStep DEF cleanup
<1> QED  BY <1>1, <1>2, <1>3, <1>4, <1>5

LEMMA ShowStep ==
  ASSUME IInv, NEW c \in Cli, list_journal_entries(c), UNCHANGED <<orch, listed>>
  PROVE  IInv'
<1> DEFINE n == runs[cli[c].run].version
           k == [cli[c] EXCEPT !.pc = "applying", !.shown = n]
<1>1. /\ cli[c] \in CliState /\ cli[c].left <= MaxCommands[c]
      /\ Commander(c) /\ cli[c].pc = "showing"
  BY DEF IInv, CliInv, CliTypeOK, list_journal_entries
<1>2. /\ runs[cli[c].run] \in Row /\ cli[c].held.version <= n /\ n \in Nat
  BY <1>1, Rows DEF Commander, OneOf, IInv, TablesInv, TableTypeOK
<1>3. cli' = [cli EXCEPT ![c] = k] /\ UNCHANGED <<tableVars, worktree>>
  BY DEF list_journal_entries, IInv, CliInv, CliTypeOK
<1>4. /\ k \in CliState /\ k.left = cli[c].left /\ k.pc = "applying" /\ k.run = cli[c].run
      /\ k.verb = cli[c].verb /\ k.target = cli[c].target /\ k.held = cli[c].held
      /\ k.shown = n
  BY <1>1, <1>2 DEF CliState
<1> HIDE DEF k
<1>5. cli'[c] = k /\ runs' = runs
  BY <1>3 DEF IInv, CliInv, CliTypeOK, tableVars
<1>6. Commander(c)'
  BY <1>1, <1>2, <1>4, <1>5 DEF Commander, OneOf
<1>7. worktree' \in [Run -> Manifest \union {None}]
  BY <1>3 DEF IInv, TablesInv
<1> QED  BY <1>1, <1>3, <1>4, <1>6, <1>7, CommandBecomes DEF TableStep

LEMMA ApplyStep ==
  ASSUME IInv, NEW c \in Cli, apply(c), UNCHANGED <<orch, listed>>
  PROVE  IInv'
<1> DEFINE r == cli[c].run
           target == cli[c].target
<1>1. /\ cli[c] \in CliState /\ cli[c].left <= MaxCommands[c]
      /\ Commander(c) /\ cli[c].pc = "applying" /\ r \in Run /\ target \in LifecycleState
  BY DEF IInv, CliInv, CliTypeOK, apply, Commander
<1>2. runs[r] \in Row
  BY <1>1 DEF Commander, OneOf, IInv, TablesInv, TableTypeOK
<1>3. UNCHANGED worktree /\ worktree' \in [Run -> Manifest \union {None}]
  BY DEF apply, IInv, TablesInv
<1>4. CASE UNCHANGED tableVars /\ Exit(c)
  BY <1>3, <1>4, ExitStep DEF TableStep
<1>5. ASSUME Applicable(r, cli[c].held, target), Move(r, target, "cli")
      PROVE  TableStep("cli")
  BY <1>1, <1>2, <1>5 DEF TableStep, Applicable
<1>6. CASE Applicable(r, cli[c].held, target) /\ Move(r, target, "cli") /\ Exit(c)
  BY <1>3, <1>5, <1>6, ExitStep
<1>7. CASE /\ Applicable(r, cli[c].held, target) /\ Move(r, target, "cli")
           /\ cli[c].verb = "cancel" /\ cli' = [cli EXCEPT ![c].pc = "removing"]
  <2> DEFINE k == [cli[c] EXCEPT !.pc = "removing"]
  <2>1. /\ k \in CliState /\ k.left = cli[c].left /\ k.pc = "removing" /\ k.run = r
        /\ k.verb = "cancel" /\ k.target = target /\ k.held = cli[c].held
        /\ k.shown = None /\ target = "CANCELLED"
    BY <1>1, <1>7 DEF CliState, Commander
  <2>2. cli' = [cli EXCEPT ![c] = k] /\ cli'[c] = k
    BY <1>7 DEF IInv, CliInv, CliTypeOK
  <2> HIDE DEF k
  <2>3. TableStep("cli")
    BY <1>5, <1>7
  <2>4. runs'[r] = TransitionedRow(runs[r], target)
    BY <1>7, <1>1 DEF Move, IInv, TablesInv, TableTypeOK
  <2>5. runs'[r].state = "CANCELLED" /\ runs[r].version <= runs'[r].version /\ runs'[r] \in Row
    BY <1>1, <1>2, <2>1, <2>4, MovedRow, Rows
  <2>6. runs'[r] # NoRow /\ cli[c].held \in Row /\ cli[c].held.version < runs'[r].version
    BY <1>1, <1>2, <1>7, <2>1, <2>4, MovedRow, Rows DEF Applicable, Commander
  <2>7. Commander(c)'
    BY <1>1, <2>1, <2>2, <2>5, <2>6, Rows DEF Commander, OneOf, TERMINAL_LIFECYCLE_STATES
  <2> QED  BY <1>1, <1>3, <2>1, <2>2, <2>3, <2>7, CommandBecomes
<1> QED  BY <1>4, <1>6, <1>7 DEF apply


LEMMA HumansInv ==
  ASSUME IInv, Humans
  PROVE  IInv'
<1>1. PICK c \in Cli : CliStep(c)
  BY DEF Humans
<1>2. UNCHANGED <<orch, listed>>
  BY DEF Humans
<1>3. CASE _best_effort_worktree_cleanup(c)
  <2>1. worktree' \in [Run -> Manifest \union {None}]
    BY <1>3 DEF _best_effort_worktree_cleanup, IInv, TablesInv
  <2> QED
    BY <1>2, <1>3, <2>1, ExitStep DEF _best_effort_worktree_cleanup, TableStep
<1>4. CASE kill(c)
  <2>1. worktree' \in [Run -> Manifest \union {None}]
    BY <1>4 DEF kill, IInv, TablesInv
  <2> QED
    BY <1>2, <1>4, <2>1, ExitStep DEF kill, TableStep
<1> QED
  BY <1>1, <1>2, <1>3, <1>4, BeginSteps, ShowStep, ApplyStep DEF CliStep

LEMMA ListStep ==
  ASSUME IInv, NEW s \in Scanner, list_runs_by_states(s), UNCHANGED <<orch, audit, cli>>
  PROVE  IInv'
<1> DEFINE rows == [r \in Run |-> IF runs[r].state \in ActiveStates /\ ~fresh[r]
                                  THEN runs[r] ELSE NoRow]
<1>1. listed' = [listed EXCEPT ![s] = rows] /\ UNCHANGED <<tableVars, worktree>>
  BY DEF list_runs_by_states
<1>2. rows \in [Run -> Row \union {NoRow}]
      /\ \A r \in Run : rows[r] = NoRow \/ (rows[r] = runs[r] /\ rows[r] \in Row /\ ~fresh[r])
  BY DEF IInv, TablesInv, TableTypeOK
<1> HIDE DEF rows
<1>3. listed' \in [Scanner -> [Run -> Row \union {NoRow}]] /\ listed'[s] = rows
      /\ \A x \in Scanner \ {s} : listed'[x] = listed[x]
  BY <1>1, <1>2 DEF IInv, ScanInv
<1>4. TableStep("recovery-coordinator") /\ "recovery-coordinator" \in Actor
  BY <1>1 DEF TableStep, Actor
<1>5. \A r \in Run : Listing(s, r)'
  BY <1>1, <1>2, <1>3, Rows DEF Listing, OneOf, tableVars
<1>6. ScanInv'
  BY <1>3, <1>4, <1>5, OthersStay DEF ScanInv
<1>7. TablesInv'
  BY <1>1, <1>4, OthersStay DEF IInv, TablesInv
<1> QED
  BY <1>4, <1>6, <1>7, OthersStay DEF IInv, CliInv, CliTypeOK

LEMMA ReconcileStep ==
  ASSUME IInv, NEW s \in Scanner, NEW r \in Run, reconcile(s, r),
         UNCHANGED <<orch, audit, cli>>
  PROVE  IInv' /\ TableStep("recovery-coordinator")
<1> DEFINE run == listed[s][r]
<1>1. PICK target \in {"RECOVERY_REQUIRED", "FAILED"} :
         /\ run # NoRow
         /\ \/ /\ Applicable(r, run, target)
               /\ Move(r, target, "recovery-coordinator")
               /\ listed' = [listed EXCEPT ![s][r] = NoRow]
            \/ /\ UNCHANGED tableVars
               /\ listed' = [listed EXCEPT ![s] = [x \in Run |-> NoRow]]
  BY DEF reconcile
<1>2. runs[r] \in Row /\ target \in LifecycleState
  BY <1>1 DEF IInv, ScanInv, Listing, OneOf, TablesInv, TableTypeOK, LifecycleState
<1>3. TableStep("recovery-coordinator") /\ "recovery-coordinator" \in Actor
  BY <1>1, <1>2 DEF TableStep, Actor, Applicable
<1>4. /\ listed' \in [Scanner -> [Run -> Row \union {NoRow}]]
      /\ \A t \in Scanner, x \in Run : listed'[t][x] \in {listed[t][x], NoRow}
  BY <1>1 DEF IInv, ScanInv
<1>5. \A t \in Scanner, x \in Run : Listing(t, x)'
  BY <1>3, <1>4, OthersStay DEF Listing, OneOf
<1>6. TablesInv'
  BY <1>3, OthersStay DEF reconcile, IInv, TablesInv
<1> QED
  BY <1>3, <1>4, <1>5, <1>6, OthersStay DEF IInv, CliInv, CliTypeOK, ScanInv

LEMMA AgeStep ==
  ASSUME IInv, NEW r \in Run, Age(r), UNCHANGED <<orch, audit, cli, listed>>
  PROVE  IInv'
<1>1. /\ fresh' = [fresh EXCEPT ![r] = FALSE]
      /\ UNCHANGED <<runs, failures, mover, worktree>>
  BY DEF Age
<1>2. TablesInv'
  BY <1>1 DEF IInv, TablesInv, TableTypeOK
<1>3. \A x \in Run : Owner(x)'
  BY <1>1 DEF IInv, Owner, OneOf
<1>4. CliInv'
  BY <1>1 DEF IInv, CliInv, CliTypeOK, Commander, OneOf
<1>5. ScanInv'
  BY <1>1 DEF IInv, ScanInv, Listing, OneOf, TablesInv, TableTypeOK
<1> QED  BY <1>2, <1>3, <1>4, <1>5 DEF IInv


-----------------------------------------------------------------------------
(* The theorems.                                                           *)

LEMMA InitIInv ==
  ASSUME SystemInit
  PROVE  IInv
<1> USE DEF SystemInit, Init
<1>1. TablesInv
  BY DEF TableInit, TablesInv, TableTypeOK
<1>2. /\ \A r \in Run : orch[r] = Unstarted
      /\ DOMAIN orch = Run /\ orch = [r \in Run |-> orch[r]]
  BY DEF OrchestratorInit
<1>3. IsPipeline(Unstarted) /\ Unstarted.held = NoRow /\ Unstarted.pc = "idle"
  BY DEF IsPipeline, Fields, Unstarted
<1>4. Pipeline(orch) /\ \A r \in Run : Owner(r)
  BY <1>2, <1>3 DEF Pipeline, Owner, OneOf, Stopped
<1>5. CliInv
  <2>1. ASSUME NEW c \in Cli
        PROVE  cli[c] \in CliState /\ cli[c].left <= MaxCommands[c] /\ Commander(c)
    <3> DEFINE n == MaxCommands[c]
    <3>1. n \in Nat
      BY CliAssumption
    <3>2. cli[c] = NoCommand(n)
      BY DEF CliInit
    <3> HIDE DEF n
    <3>3. cli[c] \in CliState /\ cli[c].left = n /\ Commander(c)
      BY <3>1, <3>2, NoCommandIdle DEF Commander
    <3> QED  BY <3>1, <3>3 DEF n
  <2>2. cli \in [Cli -> CliState]
    <3>1. cli = [c \in Cli |-> NoCommand(MaxCommands[c])]
      BY DEF CliInit
    <3>2. \A c \in Cli : NoCommand(MaxCommands[c]) \in CliState
      BY NoCommandIdle, CliAssumption
    <3> QED  BY <3>1, <3>2
  <2> QED  BY <2>1, <2>2 DEF CliInv, CliTypeOK
<1>6. ScanInv
  BY DEF RecoveryInit, ScanInv, Listing, OneOf
<1> QED  BY <1>1, <1>4, <1>5, <1>6 DEF IInv

LEMMA StutterStep ==
  ASSUME IInv, UNCHANGED systemVars
  PROVE  IInv'
<1>1. /\ runs' = runs /\ failures' = failures /\ mover' = mover /\ fresh' = fresh
      /\ worktree' = worktree /\ orch' = orch /\ cli' = cli /\ listed' = listed
  BY DEF systemVars, tableVars
<1>2. TablesInv'
  BY <1>1 DEF IInv, TablesInv, TableTypeOK
<1>3. Pipeline(orch') /\ \A x \in Run : Owner(x)'
  BY <1>1 DEF IInv, Owner, OneOf
<1>4. CliInv'
  BY <1>1 DEF IInv, CliInv, CliTypeOK, Commander, OneOf
<1>5. ScanInv'
  BY <1>1 DEF IInv, ScanInv, Listing, OneOf
<1> QED  BY <1>2, <1>3, <1>4, <1>5 DEF IInv

LEMMA NextIInv == IInv /\ [SystemNext]_systemVars => IInv'
<1> SUFFICES ASSUME IInv, [SystemNext]_systemVars
             PROVE  IInv'
  OBVIOUS
<1>1. CASE Pipelines
  BY <1>1, PipelinesInv
<1>2. CASE Humans
  BY <1>2, HumansInv
<1>3. CASE Scans
  BY <1>3, ListStep, ReconcileStep DEF Scans, ScanStep
<1>4. CASE Time
  BY <1>4, AgeStep DEF Time
<1> QED  BY <1>1, <1>2, <1>3, <1>4, StutterStep DEF SystemNext

\* The inductive invariant holds in every reachable state.
THEOREM Invariant == SystemSpec => []IInv
<1>1. SystemInit => IInv
  BY InitIInv
<1> QED  BY <1>1, NextIInv, PTL DEF SystemSpec

\* The tables, the worktrees and what every process holds keep their types
\* (domain/models.py Run, persistence/sqlite.py).
THEOREM TypeCorrect == SystemSpec => []SystemTypeOK
<1>1. IInv => SystemTypeOK
  BY DEF IInv, TablesInv, Owner, CliInv, ScanInv, SystemTypeOK
<1> QED  BY <1>1, Invariant, PTL

\* For any number of actors, a copy of a Run, however old, is told from the
\* committed row by its version alone: apply_transition's comparison of
\* run.version is enough (persistence/sqlite.py).
THEOREM Versioned == SystemSpec => []CopiesAreVersioned
<1>1. IInv => CopiesAreVersioned
  BY DEF IInv, Owner, CliInv, Commander, ScanInv, Listing, CopiesAreVersioned
<1> QED  BY <1>1, Invariant, PTL


\* Who moved a row, and from which copy.
LEMMA MovedBy ==
  ASSUME IInv, NEW actor \in Actor, TableStep(actor), NEW r \in Run, NEW who, Moved(r, who)
  PROVE  who = actor /\ runs[r] \in Row /\ runs[r].state \notin TERMINAL_LIFECYCLE_STATES
<1>1. RowStep(r, actor)
  BY TableSteps DEF IInv, TablesInv
<1> QED  BY <1>1 DEF RowStep, Kept, Inserted, Advanced, Moved

LEMMA PipelineMoves ==
  ASSUME IInv, NEW p \in Run, PipelineStep(p), NEW r \in Run, NEW who, Moved(r, who)
  PROVE  /\ who = "orchestrator" /\ r = p
         /\ orch[r].held # NoRow /\ orch[r].held.version = runs[r].version
<1>1. TableStep("orchestrator") /\ "orchestrator" \in Actor
  BY PipelineTables DEF Actor
<1>2. who = "orchestrator"
  BY <1>1, MovedBy
<1>3. runs' # runs /\ runs[r] # NoRow /\ runs'[r] # runs[r]
  BY DEF Moved
<1>4. ~InsertRow(p)
  BY <1>3 DEF InsertRow, IInv, TablesInv, TableTypeOK
<1>5. PICK target \in LifecycleState :
         Applicable(p, orch[p].held, target) /\ Move(p, target, "orchestrator")
  BY <1>3, <1>4 DEF PipelineStep, tableVars
<1>6. r = p
  BY <1>3, <1>5 DEF Move, IInv, TablesInv, TableTypeOK
<1>7. orch[p].held # NoRow
  BY <1>3, <1>4 DEF PipelineStep, tableVars, IInv, Owner
<1> QED  BY <1>2, <1>5, <1>6, <1>7 DEF Applicable

LEMMA CommandMoves ==
  ASSUME IInv, NEW c \in Cli, CliStep(c)
  PROVE  /\ TableStep("cli")
         /\ \A d \in Cli \ {c} : cli'[d] = cli[d]
         /\ \/ UNCHANGED runs
            \/ /\ cli[c].pc = "applying" /\ cli[c].run \in Run
               /\ runs[cli[c].run].version = cli[c].held.version
               /\ \A r \in Run \ {cli[c].run} : runs'[r] = runs[r]
<1>1. CASE apply(c)
  <2> DEFINE r == cli[c].run
             target == cli[c].target
  <2>1. /\ cli[c].pc = "applying" /\ r \in Run /\ target \in LifecycleState
        /\ runs[r] \in Row
    BY <1>1 DEF apply, IInv, CliInv, Commander, OneOf, TablesInv, TableTypeOK
  <2>2. \A d \in Cli \ {c} : cli'[d] = cli[d]
    BY <1>1 DEF apply, Exit, IInv, CliInv, CliTypeOK
  <2>3. CASE Applicable(r, cli[c].held, target) /\ Move(r, target, "cli")
    <3>1. TableStep("cli")
      BY <2>1, <2>3 DEF TableStep, Applicable
    <3>2. runs[r].version = cli[c].held.version /\ \A x \in Run \ {r} : runs'[x] = runs[x]
      BY <2>1, <2>3 DEF Applicable, Move, IInv, TablesInv, TableTypeOK
    <3> QED  BY <2>1, <2>2, <3>1, <3>2
  <2>4. CASE UNCHANGED tableVars
    BY <2>2, <2>4 DEF TableStep, tableVars
  <2> QED  BY <1>1, <2>3, <2>4 DEF apply
<1>2. CASE list_journal_entries(c) \/ _best_effort_worktree_cleanup(c) \/ kill(c)
  <2>1. UNCHANGED tableVars /\ \A d \in Cli \ {c} : cli'[d] = cli[d]
    BY <1>2 DEF list_journal_entries, _best_effort_worktree_cleanup, kill, Exit,
                IInv, CliInv, CliTypeOK
  <2> QED  BY <2>1 DEF TableStep, tableVars
<1>3. ASSUME NEW r \in Run,
             approve(c, r) \/ reject(c, r) \/ resume(c, r) \/ cancel(c, r) \/ cleanup(c, r)
      PROVE  UNCHANGED tableVars /\ \A d \in Cli \ {c} : cli'[d] = cli[d]
  BY <1>3 DEF approve, reject, resume, cancel, cleanup, Begin, IInv, CliInv, CliTypeOK
<1> QED  BY <1>1, <1>2, <1>3 DEF CliStep, TableStep, tableVars

LEMMA ScanMoves ==
  ASSUME IInv, Scans
  PROVE  /\ TableStep("recovery-coordinator")
         /\ \A r \in Run : runs'[r] # runs[r] => ~fresh[r]
<1>1. CASE UNCHANGED tableVars
  BY <1>1 DEF TableStep, tableVars
<1>2. ASSUME NEW s \in Scanner, NEW r \in Run, reconcile(s, r), ~UNCHANGED tableVars
      PROVE  /\ TableStep("recovery-coordinator")
             /\ \A x \in Run : runs'[x] # runs[x] => ~fresh[x]
  <2>1. TableStep("recovery-coordinator")
    BY <1>2, ReconcileStep DEF Scans
  <2>2. PICK target : /\ listed[s][r] # NoRow /\ Applicable(r, listed[s][r], target)
                      /\ Move(r, target, "recovery-coordinator")
    BY <1>2 DEF reconcile
  <2>3. ~fresh[r]
    BY <2>2 DEF Applicable, IInv, ScanInv, Listing
  <2> QED  BY <2>1, <2>2, <2>3 DEF Move, IInv, TablesInv, TableTypeOK
<1> QED  BY <1>1, <1>2 DEF Scans, ScanStep, list_runs_by_states

LEMMA TimeMoves ==
  ASSUME Time \/ UNCHANGED systemVars
  PROVE  UNCHANGED <<runs, failures, worktree>>
  BY DEF Time, Age, systemVars, tableVars

\* For any number of actors, once a human or the scan has moved a Run its
\* pipeline never moves it again (orchestrator.py _advance).
THEOREM NoZombies == SystemSpec => NoZombieWrites
<1>1. ASSUME IInv, [SystemNext]_systemVars, NEW r \in Run, Moved(r, "orchestrator")
      PROVE  mover[r] \in {"nobody", "orchestrator"}
  <2>1. CASE Pipelines
    BY <1>1, <2>1, PipelineSteps, PipelineMoves DEF IInv, Owner
  <2>2. CASE Humans
    BY <1>1, <2>2, CommandMoves, MovedBy DEF Humans, Actor
  <2>3. CASE Scans
    BY <1>1, <2>3, ScanMoves, MovedBy DEF Actor
  <2>4. CASE Time \/ UNCHANGED systemVars
    BY <1>1, <2>4, TimeMoves DEF Moved
  <2> QED  BY <1>1, <2>1, <2>2, <2>3, <2>4 DEF SystemNext
<1>2. IInv /\ [SystemNext]_systemVars =>
        \A r \in Run : Moved(r, "orchestrator") => mover[r] \in {"nobody", "orchestrator"}
  BY <1>1
<1> QED  BY <1>2, Invariant, PTL DEF SystemSpec, NoZombieWrites

\* For any number of actors, the scan never moves a Run touched within
\* stale_after (application/recovery.py).
THEOREM ScanSpares == SystemSpec => ScanNeverMovesFreshRun
<1>1. ASSUME IInv, [SystemNext]_systemVars, NEW r \in Run, Moved(r, "recovery-coordinator")
      PROVE  ~fresh[r]
  <2>1. CASE Pipelines
    BY <1>1, <2>1, PipelineSteps, PipelineMoves DEF IInv
  <2>2. CASE Humans
    BY <1>1, <2>2, CommandMoves, MovedBy DEF Humans, Actor
  <2>3. CASE Scans
    BY <1>1, <2>3, ScanMoves DEF Moved
  <2>4. CASE Time \/ UNCHANGED systemVars
    BY <1>1, <2>4, TimeMoves DEF Moved
  <2> QED  BY <1>1, <2>1, <2>2, <2>3, <2>4 DEF SystemNext
<1>2. IInv /\ [SystemNext]_systemVars =>
        \A r \in Run : Moved(r, "recovery-coordinator") => ~fresh[r]
  BY <1>1
<1> QED  BY <1>2, Invariant, PTL DEF SystemSpec, ScanNeverMovesFreshRun

\* For any number of commands, a human's approve or reject moves the very row
\* whose pending action they were shown (interfaces/cli.py).
THEOREM ShownIsDecided == SystemSpec => DecidesWhatWasShown
<1>1. ASSUME IInv, [SystemNext]_systemVars, NEW c \in Cli, cli[c].shown # None,
             Moved(cli[c].run, "cli"), cli'[c].pc = "idle"
      PROVE  cli[c].shown = runs[cli[c].run].version
  <2> DEFINE r == cli[c].run
  <2>1. /\ cli[c].pc = "applying" /\ r \in Run /\ cli[c].held.version <= cli[c].shown
        /\ cli[c].shown <= runs[r].version /\ cli[c].shown \in Nat
        /\ runs[r] \in Row /\ cli[c].held \in Row
    BY <1>1 DEF IInv, CliInv, CliTypeOK, CliState, Commander, OneOf, TablesInv, TableTypeOK
  <2>2. CASE Humans
    <3>1. PICK d \in Cli : CliStep(d)
      BY <2>2 DEF Humans
    <3>2. d = c
      BY <1>1, <2>1, <3>1, CommandMoves
    <3>3. runs[r].version = cli[c].held.version
      BY <1>1, <3>1, <3>2, CommandMoves DEF Moved
    <3> QED  BY <2>1, <3>3, Rows
  <2>3. CASE Pipelines \/ Scans
    <3>1. cli'[c] = cli[c]
      BY <2>3 DEF Pipelines, Scans
    <3> QED  BY <1>1, <2>1, <3>1
  <2>4. CASE Time \/ UNCHANGED systemVars
    BY <1>1, <2>4, TimeMoves DEF Moved
  <2> QED  BY <1>1, <2>2, <2>3, <2>4 DEF SystemNext
<1>2. IInv /\ [SystemNext]_systemVars =>
        \A c \in Cli :
           cli[c].shown # None /\ Moved(cli[c].run, "cli") /\ cli'[c].pc = "idle" =>
             cli[c].shown = runs[cli[c].run].version
  BY <1>1
<1> QED  BY <1>2, Invariant, PTL DEF SystemSpec, DecidesWhatWasShown

\* For any number of Runs and commands, a worktree is only taken away from a
\* Run that is over (interfaces/cli.py cmd_cleanup, cmd_cancel).
THEOREM RemovedWhenOver == SystemSpec => WorktreeOnlyRemovedWhenOver
<1>1. ASSUME IInv, [SystemNext]_systemVars, NEW r \in Run,
             worktree[r] # None, worktree'[r] = None
      PROVE  runs[r].state \in TERMINAL_LIFECYCLE_STATES
  <2>1. CASE Pipelines
    BY <1>1, <2>1, PipelineWorktree DEF IInv
  <2>2. ASSUME NEW c \in Cli, CliStep(c)
        PROVE  runs[r].state \in TERMINAL_LIFECYCLE_STATES
    <3>1. CASE UNCHANGED worktree
      BY <1>1, <3>1
    <3>2. CASE _best_effort_worktree_cleanup(c)
      BY <1>1, <3>2 DEF _best_effort_worktree_cleanup, IInv, TablesInv, CliInv, Commander
    <3> QED
      BY <2>2, <3>1, <3>2, Zenon DEF CliStep, approve, reject, resume, cancel, cleanup, Begin,
                              list_journal_entries, apply, kill
  <2>3. CASE Scans
    BY <1>1, <2>3 DEF Scans, ScanStep, list_runs_by_states, reconcile
  <2>4. CASE Time \/ UNCHANGED systemVars
    BY <1>1, <2>4, TimeMoves
  <2> QED  BY <1>1, <2>1, <2>2, <2>3, <2>4 DEF SystemNext, Humans
<1>2. IInv /\ [SystemNext]_systemVars =>
        \A r \in Run : worktree[r] # None /\ worktree'[r] = None =>
                          runs[r].state \in TERMINAL_LIFECYCLE_STATES
  BY <1>1
<1> QED  BY <1>2, Invariant, PTL DEF SystemSpec, WorktreeOnlyRemovedWhenOver

LEMMA SameLifecycle ==
  /\ Atomic!NoRow = NoRow /\ Atomic!NewRow = NewRow
  /\ Atomic!LifecycleState = LifecycleState
  /\ \A current, target : Atomic!validate_transition(current, target)
                             <=> validate_transition(current, target)
  /\ \A row, target : Atomic!TransitionedRow(row, target) = TransitionedRow(row, target)
<1>1. Atomic!TRANSITIONS = TRANSITIONS
  BY DEF Atomic!TRANSITIONS, TRANSITIONS, Atomic!LifecycleState, LifecycleState,
         Atomic!Stop, Stop, Atomic!RECOVERY_RESTART_TARGETS, RECOVERY_RESTART_TARGETS
<1>2. /\ Atomic!NoRow = NoRow /\ Atomic!NewRow = NewRow
      /\ Atomic!LifecycleState = LifecycleState
      /\ Atomic!TERMINAL_LIFECYCLE_STATES = TERMINAL_LIFECYCLE_STATES
  BY DEF Atomic!NoRow, NoRow, Atomic!NewRow, NewRow, Atomic!LifecycleState,
         LifecycleState, Atomic!TERMINAL_LIFECYCLE_STATES, TERMINAL_LIFECYCLE_STATES
<1>3. \A current, target : Atomic!validate_transition(current, target)
                             <=> validate_transition(current, target)
  BY <1>1, <1>2 DEF Atomic!validate_transition, validate_transition,
                    Atomic!can_transition, can_transition
<1>4. \A row, target : Atomic!TransitionedRow(row, target) = TransitionedRow(row, target)
  BY <1>2 DEF Atomic!TransitionedRow, TransitionedRow
<1> QED  BY <1>2, <1>3, <1>4

\* For any number of actors, whatever pipelines, humans and scans do together
\* is a behaviour of the abstract lifecycle (domain/state_machine.py).
THEOREM LifecycleRefinement == SystemSpec => ImplementsRunLifecycle
<1>1. SystemInit => Atomic!Init
  BY SameLifecycle DEF SystemInit, Init, TableInit, Atomic!Init
<1>2. ASSUME NEW actor \in Actor, TableStep(actor)
      PROVE  Atomic!Next \/ UNCHANGED <<runs, failures>>
  <2>1. CASE UNCHANGED tableVars
    BY <2>1 DEF tableVars
  <2>2. ASSUME NEW r \in Run, InsertRow(r)
        PROVE  Atomic!Next
    <3>1. Atomic!Insert(r)
      BY <2>2, SameLifecycle DEF InsertRow, Atomic!Insert
    <3> QED  BY <3>1 DEF Atomic!Next
  <2>3. ASSUME NEW r \in Run, NEW target \in LifecycleState, runs[r] \in Row,
               validate_transition(runs[r].state, target), Move(r, target, actor)
        PROVE  Atomic!Next
    <3>1. Atomic!Transition(r, target)
      BY <2>3, SameLifecycle, Rows DEF Move, Atomic!Transition
    <3> QED  BY <3>1, SameLifecycle DEF Atomic!Next
  <2> QED  BY <1>2, <2>1, <2>2, <2>3 DEF TableStep
<1>3. IInv /\ [SystemNext]_systemVars => [Atomic!Next]_(Atomic!vars)
  <2> SUFFICES ASSUME IInv, [SystemNext]_systemVars
               PROVE  Atomic!Next \/ UNCHANGED <<runs, failures>>
    BY DEF Atomic!vars
  <2>1. CASE Pipelines
    BY <1>2, <2>1, PipelineSteps, PipelineTables DEF IInv, Actor
  <2>2. CASE Humans
    BY <1>2, <2>2, CommandMoves DEF Humans, Actor
  <2>3. CASE Scans
    BY <1>2, <2>3, ScanMoves DEF Actor
  <2>4. CASE Time \/ UNCHANGED systemVars
    BY <2>4, TimeMoves
  <2> QED  BY <2>1, <2>2, <2>3, <2>4 DEF SystemNext
<1> QED
  BY <1>1, <1>3, Invariant, PTL DEF SystemSpec, ImplementsRunLifecycle, Atomic!Spec

\* What a step of the abstract lifecycle does to the records of one Run.
RecordsStep(r) ==
    \/ runs'[r] = runs[r] /\ failures'[r] = failures[r]
    \/ runs[r] = NoRow /\ runs'[r] = NewRow /\ failures'[r] = failures[r]
    \/ \E target \in LifecycleState :
          /\ runs[r] # NoRow
          /\ validate_transition(runs[r].state, target)
          /\ runs'[r] = TransitionedRow(runs[r], target)
          /\ failures'[r] = IF target = "FAILED" THEN failures[r] + 1 ELSE failures[r]

LEMMA LifecycleSteps ==
  ASSUME runs \in [Run -> Row \union {NoRow}], failures \in [Run -> Nat],
         [Atomic!Next]_(Atomic!vars)
  PROVE  /\ DOMAIN runs' = Run /\ DOMAIN failures' = Run
         /\ runs' = [r \in Run |-> runs'[r]] /\ failures' = [r \in Run |-> failures'[r]]
         /\ \A r \in Run : RecordsStep(r)
<1>1. CASE UNCHANGED Atomic!vars
  BY <1>1 DEF Atomic!vars, RecordsStep
<1>2. ASSUME NEW q \in Run, Atomic!Insert(q)
      PROVE  /\ runs' = [r \in Run |-> runs'[r]] /\ failures' = [r \in Run |-> failures'[r]]
             /\ \A r \in Run : RecordsStep(r)
  BY <1>2, SameLifecycle DEF Atomic!Insert, RecordsStep
<1>3. ASSUME NEW q \in Run, NEW target \in LifecycleState, Atomic!Transition(q, target)
      PROVE  /\ runs' = [r \in Run |-> runs'[r]] /\ failures' = [r \in Run |-> failures'[r]]
             /\ \A r \in Run : RecordsStep(r)
  <2> DEFINE row == TransitionedRow(runs[q], target)
             count == IF target = "FAILED" THEN failures[q] + 1 ELSE failures[q]
  <2>1. /\ runs[q] # NoRow /\ validate_transition(runs[q].state, target)
        /\ runs' = [runs EXCEPT ![q] = row] /\ failures' = [failures EXCEPT ![q] = count]
    BY <1>3, SameLifecycle DEF Atomic!Transition
  <2>2. \A r \in Run \ {q} : runs'[r] = runs[r] /\ failures'[r] = failures[r]
    BY <2>1
  <2>3. runs'[q] = row /\ failures'[q] = count
    BY <2>1
  <2>4. RecordsStep(q)
    BY <2>1, <2>3 DEF RecordsStep
  <2> QED  BY <2>1, <2>2, <2>4 DEF RecordsStep
<1> QED  BY <1>1, <1>2, <1>3, SameLifecycle DEF Atomic!Next

\* The kernel names the terminal state in the disposition when it enters it.
LEMMA MovedRecords ==
  ASSUME NEW row \in Row, NEW target \in LifecycleState, validate_transition(row.state, target)
  PROVE  LET new == TransitionedRow(row, target) IN
         /\ new \in Row /\ new.state = target
         /\ new.disposition = IF target \in TERMINAL_LIFECYCLE_STATES
                              THEN target ELSE row.disposition
         /\ row.state \notin TERMINAL_LIFECYCLE_STATES
  BY DEF TransitionedRow, Row, validate_transition

\* From the abstract lifecycle alone, for whatever pipelines, humans and scans
\* do and wherever they crash: a Run that FAILED has one failure record and no
\* other Run has any, and the disposition is the terminal state it reached
\* (domain/state_machine.py transition_run).
THEOREM RecordsAccount == SystemSpec => []Atomic!Accountable
<1> DEFINE Inv == /\ runs \in [Run -> Row \union {NoRow}] /\ failures \in [Run -> Nat]
                  /\ Atomic!Accountable
<1>1. Atomic!TERMINAL_LIFECYCLE_STATES = TERMINAL_LIFECYCLE_STATES
  BY DEF Atomic!TERMINAL_LIFECYCLE_STATES, TERMINAL_LIFECYCLE_STATES
<1>2. Atomic!Init => Inv
  BY SameLifecycle, <1>1 DEF Atomic!Init, Atomic!Accountable, NoRow, TERMINAL_LIFECYCLE_STATES
<1>3. Inv /\ [Atomic!Next]_(Atomic!vars) => Inv'
  <2> SUFFICES ASSUME Inv, [Atomic!Next]_(Atomic!vars) PROVE Inv'
    OBVIOUS
  <2> DEFINE Account(row, count) ==
               /\ row \in Row \union {NoRow} /\ count \in Nat
               /\ count = IF row.state = "FAILED" THEN 1 ELSE 0
               /\ row.disposition = IF row.state \in TERMINAL_LIFECYCLE_STATES
                                    THEN row.state ELSE "NONE"
  <2>1. \A r \in Run : RecordsStep(r)
    BY LifecycleSteps
  <2>2. \A r \in Run : Account(runs[r], failures[r])
    BY <1>1 DEF Atomic!Accountable
  <2>3. Account(NewRow, 0)
    BY DEF NewRow, NoRow, Row, LifecycleState, TERMINAL_LIFECYCLE_STATES
  <2>4. ASSUME NEW r \in Run PROVE Account(runs'[r], failures'[r])
    <3>1. Account(runs[r], failures[r]) /\ RecordsStep(r)
      BY <2>1, <2>2
    <3>2. CASE runs'[r] = runs[r] /\ failures'[r] = failures[r]
      BY <3>1, <3>2
    <3>3. CASE runs[r] = NoRow /\ runs'[r] = NewRow /\ failures'[r] = failures[r]
      <4>1. failures[r] = 0
        BY <3>1, <3>3 DEF NoRow
      <4> QED  BY <2>3, <3>3, <4>1
    <3>4. ASSUME NEW target \in LifecycleState, runs[r] # NoRow,
                 validate_transition(runs[r].state, target),
                 runs'[r] = TransitionedRow(runs[r], target),
                 failures'[r] = IF target = "FAILED" THEN failures[r] + 1 ELSE failures[r]
          PROVE  Account(runs'[r], failures'[r])
      <4>1. runs[r] \in Row
        BY <3>1, <3>4
      <4>2. /\ runs'[r] \in Row /\ runs'[r].state = target
            /\ runs'[r].disposition = IF target \in TERMINAL_LIFECYCLE_STATES
                                      THEN target ELSE runs[r].disposition
            /\ runs[r].state \notin TERMINAL_LIFECYCLE_STATES
        BY <3>4, <4>1, MovedRecords
      <4>3. failures[r] = 0 /\ runs[r].disposition = "NONE"
        BY <3>1, <4>2 DEF TERMINAL_LIFECYCLE_STATES
      <4> QED  BY <3>4, <4>2, <4>3
    <3> QED  BY <3>1, <3>2, <3>3, <3>4 DEF RecordsStep
  <2>5. runs' \in [Run -> Row \union {NoRow}] /\ failures' \in [Run -> Nat]
    BY <2>4, LifecycleSteps
  <2>6. Atomic!Accountable'
    BY <1>1, <2>4 DEF Atomic!Accountable
  <2> QED  BY <2>5, <2>6
<1>4. Inv => Atomic!Accountable
  OBVIOUS
<1> HIDE DEF Inv
<1> QED  BY <1>2, <1>3, <1>4, LifecycleRefinement, PTL DEF ImplementsRunLifecycle, Atomic!Spec

\* What is over stays over: no pipeline, command or scan, however old the copy
\* it decides from, touches the row or the failure record of a terminal Run.
THEOREM OverForGood == SystemSpec => Atomic!Final
<1>1. ASSUME TableTypeOK, [Atomic!Next]_(Atomic!vars)
      PROVE  Atomic!OverIsOver
  <2>1. Atomic!TERMINAL_LIFECYCLE_STATES = TERMINAL_LIFECYCLE_STATES
    BY DEF Atomic!TERMINAL_LIFECYCLE_STATES, TERMINAL_LIFECYCLE_STATES
  <2>2. \A r \in Run : RecordsStep(r)
    BY <1>1, LifecycleSteps DEF TableTypeOK
  <2>3. NoRow.state \notin TERMINAL_LIFECYCLE_STATES
    BY DEF NoRow, TERMINAL_LIFECYCLE_STATES
  <2> QED  BY <2>1, <2>2, <2>3 DEF RecordsStep, Atomic!OverIsOver, validate_transition
<1>2. TableTypeOK /\ [Atomic!Next]_(Atomic!vars) => [Atomic!OverIsOver]_(Atomic!vars)
  BY <1>1
<1>3. SystemTypeOK => TableTypeOK
  BY DEF SystemTypeOK
<1> QED  BY <1>2, <1>3, TypeCorrect, LifecycleRefinement, PTL
         DEF ImplementsRunLifecycle, Atomic!Spec, Atomic!Final

-----------------------------------------------------------------------------
(* The same, with what each of them holds.                                 *)

\* A step in which everybody keeps or forgets a row, and one of them may hold
\* rows that are committed by now.
LEMMA Learning ==
  ASSUME NEW a,
         \A r \in Run :
            \/ orch'[r].held \in {orch[r].held, NoRow}
            \/ a = <<"pipeline", r>> /\ orch'[r].held = runs'[r],
         \A c \in Cli :
            \/ cli'[c].held = NoRow
            \/ cli'[c].run = cli[c].run /\ cli'[c].held = cli[c].held
            \/ /\ a = <<"command", c>>
               /\ cli'[c].run \in Run /\ cli'[c].held = runs'[cli'[c].run],
         \A s \in Scanner, r \in Run :
            \/ listed'[s][r] \in {listed[s][r], NoRow}
            \/ a = <<"scan", s>> /\ listed'[s][r] = runs'[r]
  PROVE  Atomic!Learns(a)
<1> DEFINE seen == Atomic!Committed'
           may == Known \union ({a} \X seen)
<1>1. \A r \in Run : runs'[r] # NoRow => <<r, runs'[r]>> \in seen
  BY SameLifecycle DEF Atomic!Committed
<1> HIDE DEF seen
<1>2. \A r \in Run : orch[r].held # NoRow => <<<<"pipeline", r>>, <<r, orch[r].held>>>> \in Known
  BY DEF Known
<1>3. \A c \in Cli : cli[c].held # NoRow =>
         <<<<"command", c>>, <<cli[c].run, cli[c].held>>>> \in Known
  BY DEF Known
<1>4. ASSUME NEW s \in Scanner, NEW r \in Run, listed[s][r] # NoRow
      PROVE  <<<<"scan", s>>, <<r, listed[s][r]>>>> \in Known
  <2> DEFINE x == <<s, r>>
  <2>1. x \in Scanner \X Run /\ x[1] = s /\ x[2] = r
    OBVIOUS
  <2> HIDE DEF x
  <2> QED  BY <1>4, <2>1 DEF Known
<1>5. ASSUME NEW r \in Run, orch'[r].held # NoRow
      PROVE  <<<<"pipeline", r>>, <<r, orch'[r].held>>>> \in may
  BY <1>1, <1>2, <1>5
<1>6. ASSUME NEW c \in Cli, cli'[c].held # NoRow
      PROVE  <<<<"command", c>>, <<cli'[c].run, cli'[c].held>>>> \in may
  BY <1>1, <1>3, <1>6
<1>7. ASSUME NEW x \in Scanner \X Run, listed'[x[1]][x[2]] # NoRow
      PROVE  <<<<"scan", x[1]>>, <<x[2], listed'[x[1]][x[2]]>>>> \in may
  <2>1. x[1] \in Scanner /\ x[2] \in Run
    OBVIOUS
  <2> QED  BY <1>1, <1>4, <1>7, <2>1
<1> HIDE DEF may
<1>8. Known' \subseteq may
  BY <1>5, <1>6, <1>7 DEF Known
<1> QED  BY <1>8 DEF Atomic!Learns, seen, may

\* What a pipeline holds after its step is what it held, or is committed.
LEMMA PipelineLearns ==
  ASSUME IInv, NEW r \in Run, PipelineStep(r), UNCHANGED <<cli, listed>>
  PROVE  Atomic!Learns(<<"pipeline", r>>)
<1>1. runs \in [Run -> Row \union {NoRow}]
  BY DEF IInv, TablesInv, TableTypeOK
<1>2. orch'[r].held \in {orch[r].held, NoRow} \/ orch'[r].held = runs'[r]
  BY <1>1 DEF PipelineStep, InsertRow, Move
<1>3. \A x \in Run : x # r => orch'[x].held = orch[x].held
  BY DEF PipelineStep
<1> QED  BY <1>2, <1>3, Learning

LEMMA PipelineAtomic ==
  ASSUME IInv, NEW r \in Run, PipelineStep(r), UNCHANGED <<cli, listed>>
  PROVE  Atomic!AtomicNext
<1> DEFINE a == <<"pipeline", r>>
<1>1. a \in Callers /\ Atomic!Learns(a)
  BY PipelineLearns DEF Callers
<1> HIDE DEF a
<1>2. CASE UNCHANGED tableVars
  BY <1>1, <1>2 DEF tableVars, Atomic!AtomicNext, Atomic!get_run, Atomic!vars
<1>3. CASE InsertRow(r)
  <2>1. Atomic!Insert(r)
    BY <1>3, SameLifecycle DEF InsertRow, Atomic!Insert
  <2> QED  BY <1>1, <2>1 DEF Atomic!AtomicNext, Atomic!insert_run
<1>4. ASSUME orch[r].pc \notin Stopped, NEW target \in LifecycleState,
             Applicable(r, orch[r].held, target), Move(r, target, "orchestrator")
      PROVE  Atomic!AtomicNext
  <2>1. orch[r].held = runs[r] /\ runs[r] # NoRow /\ runs[r] \in Row
    BY <1>4 DEF IInv, Owner, OneOf, Applicable, TablesInv, TableTypeOK
  <2>2. <<a, <<r, runs[r]>>>> \in Known
    BY <2>1 DEF Known, a
  <2>3. Atomic!Transition(r, target)
    BY <1>4, <2>1, SameLifecycle DEF Move, Applicable, Atomic!Transition
  <2>4. Atomic!apply_transition(a, r, target)
    BY <1>1, <2>2, <2>3 DEF Atomic!apply_transition
  <2> QED  BY <1>1, <2>4, SameLifecycle DEF Atomic!AtomicNext
<1> QED  BY <1>2, <1>3, <1>4 DEF PipelineStep

\* A command holds what it read until it ends.
LEMMA CommandHolds ==
  ASSUME IInv, NEW c \in Cli, CliStep(c)
  PROVE  /\ \A d \in Cli \ {c} : cli'[d] = cli[d]
         /\ \/ cli'[c].held = NoRow
            \/ cli'[c].run = cli[c].run /\ cli'[c].held = cli[c].held
            \/ cli'[c].run \in Run /\ cli'[c].held = runs'[cli'[c].run]
<1>1. \A d \in Cli \ {c} : cli'[d] = cli[d]
  BY CommandMoves
<1>2. cli \in [Cli -> CliState]
  BY DEF IInv, CliInv, CliTypeOK
<1>3. CASE Exit(c)
  <2>1. cli'[c] = NoCommand(cli[c].left)
    BY <1>2, <1>3 DEF Exit
  <2> QED  BY <1>1, <2>1 DEF NoCommand
<1>4. ASSUME NEW r \in Run, NEW pc, NEW verb, NEW target, Begin(c, r, pc, verb, target)
      PROVE  cli'[c].run = r /\ cli'[c].held = runs'[r]
  <2>1. /\ cli'[c] = [NoCommand(cli[c].left - 1) EXCEPT
                         !.pc = pc, !.run = r, !.verb = verb, !.target = target,
                         !.held = runs[r]]
        /\ runs' = runs
    BY <1>2, <1>4 DEF Begin, tableVars
  <2> QED  BY <2>1 DEF NoCommand
<1>5. ASSUME NEW r \in Run,
             approve(c, r) \/ reject(c, r) \/ resume(c, r) \/ cancel(c, r) \/ cleanup(c, r)
      PROVE  cli'[c].run = r /\ cli'[c].held = runs'[r]
  BY <1>4, <1>5 DEF approve, reject, resume, cancel, cleanup
<1>6. CASE (list_journal_entries(c) \/ apply(c)) /\ ~Exit(c)
  BY <1>2, <1>6 DEF list_journal_entries, apply, CliState
<1> QED
  BY <1>1, <1>3, <1>5, <1>6 DEF CliStep, _best_effort_worktree_cleanup, kill

LEMMA CommandAtomic ==
  ASSUME IInv, NEW c \in Cli, CliStep(c), UNCHANGED <<orch, listed>>
  PROVE  Atomic!AtomicNext
<1> DEFINE a == <<"command", c>>
<1>1. a \in Callers /\ Atomic!Learns(a)
  <2>1. \A d \in Cli : d # c => cli'[d] = cli[d]
    BY CommandHolds
  <2> QED  BY <2>1, CommandHolds, Learning DEF Callers
<1> HIDE DEF a
<1>2. CASE UNCHANGED tableVars
  BY <1>1, <1>2 DEF tableVars, Atomic!AtomicNext, Atomic!get_run, Atomic!vars
<1>3. CASE apply(c) /\ ~UNCHANGED tableVars
  <2> DEFINE r == cli[c].run
             target == cli[c].target
  <2>1. /\ r \in Run /\ target \in LifecycleState /\ cli[c].held \in Row
        /\ OneOf(cli[c].held, r)
        /\ Applicable(r, cli[c].held, target) /\ Move(r, target, "cli")
    BY <1>3 DEF apply, IInv, CliInv, Commander
  <2>2. cli[c].held = runs[r] /\ runs[r] # NoRow
    BY <2>1, Rows DEF OneOf, Applicable
  <2>3. <<a, <<r, runs[r]>>>> \in Known
    BY <2>1, <2>2, Rows DEF Known, a
  <2>4. Atomic!Transition(r, target)
    BY <2>1, <2>2, SameLifecycle, Zenon DEF Move, Applicable, Atomic!Transition
  <2>5. Atomic!apply_transition(a, r, target)
    BY <1>1, <2>3, <2>4 DEF Atomic!apply_transition
  <2> QED  BY <1>1, <2>1, <2>5, SameLifecycle DEF Atomic!AtomicNext
<1>4. CASE ~apply(c)
  <2>1. UNCHANGED tableVars
    BY <1>4, Zenon DEF CliStep, list_journal_entries, _best_effort_worktree_cleanup, kill,
                approve, reject, resume, cancel, cleanup, Begin
  <2> QED  BY <1>2, <2>1
<1> QED  BY <1>2, <1>3, <1>4

LEMMA ScanAtomic ==
  ASSUME IInv, Scans
  PROVE  Atomic!AtomicNext
<1>1. PICK s \in Scanner : ScanStep(s)
  BY DEF Scans
<1> DEFINE a == <<"scan", s>>
<1>2. orch' = orch /\ cli' = cli /\ listed \in [Scanner -> [Run -> Row \union {NoRow}]]
  BY DEF Scans, IInv, ScanInv
<1>3. CASE list_runs_by_states(s)
  <2> DEFINE rows == [r \in Run |-> IF runs[r].state \in ActiveStates /\ ~fresh[r]
                                    THEN runs[r] ELSE NoRow]
  <2>1. listed' = [listed EXCEPT ![s] = rows] /\ UNCHANGED tableVars
    BY <1>3 DEF list_runs_by_states
  <2>2. \A r \in Run : rows[r] \in {runs[r], NoRow}
    OBVIOUS
  <2> HIDE DEF rows
  <2>3. \A t \in Scanner, r \in Run :
           listed'[t][r] \in {listed[t][r], NoRow} \/ (t = s /\ listed'[t][r] = runs'[r])
    BY <1>2, <2>1, <2>2 DEF tableVars
  <2>4. a \in Callers /\ Atomic!Learns(a)
    BY <1>2, <2>3, Learning DEF Callers
  <2> QED
    BY <2>1, <2>4 DEF tableVars, Atomic!AtomicNext, Atomic!get_run, Atomic!vars
<1>4. ASSUME NEW r \in Run, reconcile(s, r)
      PROVE  Atomic!AtomicNext
  <2>1. PICK target \in {"RECOVERY_REQUIRED", "FAILED"} :
           /\ listed[s][r] # NoRow
           /\ \/ /\ Applicable(r, listed[s][r], target)
                 /\ Move(r, target, "recovery-coordinator")
                 /\ listed' = [listed EXCEPT ![s][r] = NoRow]
              \/ /\ UNCHANGED tableVars
                 /\ listed' = [listed EXCEPT ![s] = [x \in Run |-> NoRow]]
    BY <1>4 DEF reconcile
  <2>2. \A t \in Scanner, x \in Run : listed'[t][x] \in {listed[t][x], NoRow}
    BY <1>2, <2>1
  <2>3. a \in Callers /\ Atomic!Learns(a)
    BY <1>2, <2>2, Learning DEF Callers
  <2>4. CASE UNCHANGED tableVars
    BY <2>3, <2>4 DEF tableVars, Atomic!AtomicNext, Atomic!get_run, Atomic!vars
  <2>5. CASE Applicable(r, listed[s][r], target) /\ Move(r, target, "recovery-coordinator")
    <3>1. listed[s][r] = runs[r] /\ runs[r] # NoRow /\ target \in LifecycleState
      BY <2>1, <2>5 DEF IInv, ScanInv, Listing, OneOf, Applicable, LifecycleState
    <3>2. <<a, <<r, runs[r]>>>> \in Known
      <4> DEFINE x == <<s, r>>
      <4>1. x \in Scanner \X Run /\ x[1] = s /\ x[2] = r
        OBVIOUS
      <4> HIDE DEF x
      <4> QED  BY <2>1, <3>1, <4>1 DEF Known, a
    <3>3. Atomic!Transition(r, target)
      BY <2>5, <3>1, SameLifecycle DEF Move, Applicable, Atomic!Transition
    <3>4. Atomic!apply_transition(a, r, target)
      BY <2>3, <3>2, <3>3 DEF Atomic!apply_transition
    <3> QED  BY <2>3, <3>1, <3>4, SameLifecycle DEF Atomic!AtomicNext
  <2> QED  BY <2>1, <2>4, <2>5
<1> QED  BY <1>1, <1>3, <1>4 DEF ScanStep

\* For any number of pipelines, commands and scans: each moves a Run only from a
\* row it has read itself and nobody has replaced since, which is all that
\* AtomicStore lets them do (orchestrator.py _advance, cli.py, recovery.py).
THEOREM Refinement == SystemSpec => ImplementsAtomicStore
<1>1. SystemInit => Atomic!AtomicInit
  <2> SUFFICES ASSUME SystemInit PROVE Atomic!AtomicInit
    OBVIOUS
  <2>1. \A r \in Run : orch[r].held = NoRow
    BY DEF SystemInit, Init, OrchestratorInit, Unstarted
  <2>2. \A c \in Cli : cli[c].held = NoRow
    BY DEF SystemInit, CliInit, NoCommand
  <2>3. \A s \in Scanner, r \in Run : listed[s][r] = NoRow
    BY DEF SystemInit, RecoveryInit
  <2>4. Known = {}
    BY <2>1, <2>2, <2>3 DEF Known
  <2> QED
    BY <2>4, SameLifecycle DEF SystemInit, Init, TableInit, Atomic!AtomicInit, Atomic!Init
<1>2. IInv /\ [SystemNext]_systemVars => [Atomic!AtomicNext]_(Atomic!atomicVars)
  <2> SUFFICES ASSUME IInv, [SystemNext]_systemVars
               PROVE  Atomic!AtomicNext \/ UNCHANGED <<runs, failures, Known>>
    BY DEF Atomic!atomicVars
  <2>1. CASE Pipelines
    <3>1. PICK r \in Run : PipelineStep(r)
      BY <2>1, PipelineSteps DEF IInv
    <3> QED  BY <2>1, <3>1, PipelineAtomic DEF Pipelines
  <2>2. CASE Humans
    BY <2>2, CommandAtomic DEF Humans
  <2>3. CASE Scans
    BY <2>3, ScanAtomic
  <2>4. CASE Time \/ UNCHANGED systemVars
    <3>1. UNCHANGED <<orch, cli, listed>>
      BY <2>4 DEF Time, systemVars
    <3>2. Known' = Known
      BY <3>1 DEF Known
    <3> QED  BY <2>4, <3>2, TimeMoves
  <2> QED  BY <2>1, <2>2, <2>3, <2>4 DEF SystemNext
<1> QED
  BY <1>1, <1>2, Invariant, PTL DEF SystemSpec, ImplementsAtomicStore, Atomic!AtomicSpec

-----------------------------------------------------------------------------
(* What a pipeline, its audit rows and its worktree have to do with each   *)
(* other, at each point of run_task_pipeline; whatever row it holds.       *)

AuditFields == {"contracts", "decisions", "verdict", "reworks", "consented", "invocations"}

IsAudit(a) ==
    /\ DOMAIN a = AuditFields /\ a = [f \in AuditFields |-> a[f]]
    /\ a.contracts \in Nat /\ a.reworks \in Nat /\ a.invocations \in Nat

Gate == {"gating", "decided", "awaiting_approval"}
Working == {"freezing", "checking", "verifying", "verified", "awaiting_final"}
Reworking == {"reworking", "revalidating", "repreparing"}

Regating(k) == k.pc \in Gate /\ k.subject # "contract"

Locals(k) ==
    /\ k.contract \in Contract \union {None}
    /\ k.wanted \in Additional \union {None}
    /\ k.attempt \in Nat \ {0}
    /\ k.turns \in Nat
    /\ \E used \in Turns : k.turns <= MaxTurns + used
    /\ k.pc = "working" => k.turns <= MaxTurns
    /\ k.active \in RequestedCapabilities \union {None}
    /\ k.baseline \in Manifest \union {None}
    /\ k.pc \in {"verifying", "verified", "awaiting_final"} \union Reworking \/ Regating(k) =>
         k.frozen.post_test \in Manifest

\* One contract, one rework contract per later attempt, one invocation per attempt.
Counts(k, a) ==
    /\ k.contract # None => a.invocations <= k.contract.max_rework + 1
    /\ k.pc \in {"idle", "resolving", "planning", "validating"} =>
         a.contracts = 0 /\ a.reworks = 0 /\ a.invocations = 0 /\ k.attempt = 1
    /\ k.pc \in {"idle", "resolving", "planning"} => k.contract = None
    /\ k.pc \in {"validating", "creating", "executing", "budgeting", "working"}
                \union Gate \union Working \union Reworking => k.contract \in Contract
    /\ k.pc \in {"creating", "executing", "budgeting", "working"}
                \union Gate \union Working \union Reworking => a.contracts = 1
    /\ k.pc \in Gate /\ k.subject = "contract" =>
         a.reworks = 0 /\ a.invocations = 0 /\ k.attempt = 1
    /\ k.pc \in {"creating", "executing", "budgeting"} =>
         /\ a.reworks = k.attempt - 1 /\ a.invocations = k.attempt - 1
         /\ k.attempt <= k.contract.max_rework + 1
    /\ k.pc \in {"working"} \union Working =>
         /\ a.reworks = k.attempt - 1 /\ a.invocations = k.attempt
         /\ k.attempt <= k.contract.max_rework + 1
    /\ k.pc \in Reworking \/ Regating(k) =>
         /\ a.reworks = k.attempt /\ a.invocations = k.attempt
         /\ k.attempt <= k.contract.max_rework

\* The capabilities active are those of a recorded decision that was no denial,
\* and of a human's consent to all of them that need one.
Authorised(k, a) ==
    /\ k.active \in RequestedCapabilities
    /\ denials(k.active) = {}
    /\ approval_requirements(k.active) \subseteq a.consented
    /\ k.grants.items \subseteq k.active.items \intersect Ceiling
    /\ \E d \in a.decisions : d.request = k.active /\ d.outcome # "DENY"

Authority(k, a) ==
    /\ k.pc \in {"creating", "executing", "budgeting", "working"} \union Working \union Reworking
         => Authorised(k, a)
    /\ k.pc \in Gate => k.request \in RequestedCapabilities
    /\ k.pc \in {"decided", "awaiting_approval"} =>
         /\ k.decision = evaluate_policy(k.request, k.contract.scope, CeilingScope)
         /\ [request |-> k.request, outcome |-> Outcome(k.request)] \in a.decisions
    /\ k.pc = "awaiting_approval" => Outcome(k.request) = "REQUIRE_APPROVAL"

\* Between the freeze after the checks and the next Worker nobody writes.
Baseline(k, w) ==
    w # None =>
      /\ k.pc \in {"executing", "budgeting", "working"} => k.baseline = w
      /\ k.pc \in {"verifying", "verified", "awaiting_final"} \union Reworking \/ Regating(k) =>
           k.frozen.post_test = w

Trail(k, a, w) == IsAudit(a) /\ Locals(k) /\ Counts(k, a) /\ Authority(k, a) /\ Baseline(k, w)

Trails == \A r \in Run : Trail(orch[r], audit[r], worktree[r])

\* audit and worktree are indexed by the Runs.
Shapes == /\ Pipeline(orch)
          /\ DOMAIN audit = Run /\ audit = [r \in Run |-> audit[r]]
          /\ DOMAIN worktree = Run /\ worktree = [r \in Run |-> worktree[r]]

TrailInv == Shapes /\ Trails

\* What one pipeline's step has to show: the others' parts stay as they are.
Onward(r) ==
    /\ Trail(orch'[r], audit'[r], worktree'[r])
    /\ \A x \in Run \ {r} : /\ orch'[x] = orch[x] /\ audit'[x] = audit[x]
                            /\ worktree'[x] = worktree[x]
    /\ DOMAIN audit' = Run /\ audit' = [x \in Run |-> audit'[x]]
    /\ DOMAIN worktree' = Run /\ worktree' = [x \in Run |-> worktree'[x]]

\* The row a process holds is no part of its trail.
LEMMA HeldIsNoMatter ==
  ASSUME NEW k, IsPipeline(k), NEW a, NEW w, Trail(k, a, w), NEW held
  PROVE  Trail([k EXCEPT !.held = held], a, w)
<1> DEFINE m == [k EXCEPT !.held = held]
<1>1. /\ m.pc = k.pc /\ m.contract = k.contract /\ m.subject = k.subject
      /\ m.request = k.request /\ m.decision = k.decision /\ m.active = k.active
      /\ m.grants = k.grants /\ m.baseline = k.baseline /\ m.frozen = k.frozen
      /\ m.wanted = k.wanted /\ m.attempt = k.attempt /\ m.turns = k.turns
  BY DEF IsPipeline, Fields
<1> HIDE DEF m
<1>2. Locals(m)
  BY <1>1 DEF Trail, Locals, Regating, Gate, Reworking
<1>3. Counts(m, a)
  BY <1>1 DEF Trail, Counts, Regating
<1>4. Authority(m, a)
  BY <1>1 DEF Trail, Authority, Authorised
<1>5. Baseline(m, w)
  BY <1>1 DEF Trail, Baseline, Regating
<1> QED  BY <1>2, <1>3, <1>4, <1>5 DEF Trail, m

LEMMA DeadTrail ==
  ASSUME NEW a, IsAudit(a), NEW w
  PROVE  Trail([Unstarted EXCEPT !.pc = "dead"], a, w)
<1> DEFINE k == [Unstarted EXCEPT !.pc = "dead"]
<1>1. /\ k.pc = "dead" /\ k.contract = None /\ k.wanted = None /\ k.attempt = 1 /\ k.turns = 0
      /\ k.active = None /\ k.baseline = None
  BY DEF Unstarted
<1> HIDE DEF k
<1>2. Locals(k)
  <2>1. PICK used \in Turns : used \in Nat
    BY OrchestratorAssumption
  <2>2. 0 <= MaxTurns + used
    BY <2>1, OrchestratorAssumption
  <2> QED  BY <1>1, <2>1, <2>2 DEF Locals, Regating, Gate, Reworking
<1>3. Counts(k, a)
  BY <1>1 DEF Counts, Regating, Gate, Working, Reworking
<1>4. Authority(k, a)
  BY <1>1 DEF Authority, Gate, Working, Reworking
<1>5. Baseline(k, w)
  BY <1>1 DEF Baseline, Regating, Gate, Reworking
<1> QED  BY <1>2, <1>3, <1>4, <1>5 DEF Trail, k

LEMMA TrailDies ==
  ASSUME Pipeline(orch), NEW r \in Run, Die(r), NEW a, IsAudit(a), NEW w
  PROVE  Trail(orch'[r], a, w) /\ \A x \in Run \ {r} : orch'[x] = orch[x]
  BY DeadTrail DEF Die, Continue, Pipeline

LEMMA TrailContinues ==
  ASSUME Pipeline(orch), NEW r \in Run, NEW k, Continue(r, k), NEW a, NEW w, Trail(k, a, w)
  PROVE  Trail(orch'[r], a, w) /\ \A x \in Run \ {r} : orch'[x] = orch[x]
  BY DEF Continue, Pipeline

LEMMA TrailAdvances ==
  ASSUME Pipeline(orch), NEW r \in Run, NEW target, NEW k, IsPipeline(k),
         _advance(r, target, k), NEW a, NEW w, Trail(k, a, w)
  PROVE  Trail(orch'[r], a, w) /\ \A x \in Run \ {r} : orch'[x] = orch[x]
<1>1. CASE Die(r)
  BY <1>1, TrailDies DEF Trail
<1>2. CASE Continue(r, [k EXCEPT !.held = TransitionedRow(runs[r], target)])
  <2> DEFINE held == TransitionedRow(runs[r], target)
  <2> HIDE DEF held
  <2>1. Continue(r, [k EXCEPT !.held = held])
    BY <1>2 DEF held
  <2> QED  BY <2>1, HeldIsNoMatter, TrailContinues
<1> QED  BY <1>1, <1>2 DEF _advance

\* A failing pipeline has no more to account for.
LEMMA TrailFails ==
  ASSUME Pipeline(orch), NEW r \in Run, _fail(r), NEW a, NEW w, Trail(orch[r], a, w)
  PROVE  Trail(orch'[r], a, w) /\ \A x \in Run \ {r} : orch'[x] = orch[x]
<1> DEFINE k == [orch[r] EXCEPT !.pc = "returned"]
<1>1. /\ IsPipeline(k) /\ k.pc = "returned" /\ k.contract = orch[r].contract
      /\ k.active = orch[r].active /\ k.baseline = orch[r].baseline /\ k.frozen = orch[r].frozen
      /\ k.wanted = orch[r].wanted /\ k.attempt = orch[r].attempt /\ k.turns = orch[r].turns
  BY DEF Pipeline, IsPipeline, Fields
<1>2. _advance(r, "FAILED", k)
  BY DEF _fail
<1> HIDE DEF k
<1>3. Locals(k) /\ Counts(k, a) /\ Authority(k, a) /\ Baseline(k, w)
  BY <1>1 DEF Trail, Locals, Counts, Authority, Baseline, Regating, Gate, Working, Reworking
<1> QED  BY <1>1, <1>2, <1>3, TrailAdvances DEF Trail

\* Steps that leave the audit rows and the worktrees alone.
LEMMA Quietly ==
  ASSUME TrailInv, NEW r \in Run, UNCHANGED <<audit, worktree>>,
         Trail(orch'[r], audit[r], worktree[r]), \A x \in Run \ {r} : orch'[x] = orch[x]
  PROVE  Onward(r)
  BY DEF TrailInv, Shapes, Onward

LEMMA QuietlyFails ==
  ASSUME TrailInv, NEW r \in Run, UNCHANGED <<audit, worktree>>, _fail(r)
  PROVE  Onward(r)
  BY Quietly, TrailFails DEF TrailInv, Trails, Shapes

LEMMA QuietlyDies ==
  ASSUME TrailInv, NEW r \in Run, UNCHANGED <<audit, worktree>>, Die(r)
  PROVE  Onward(r)
  BY Quietly, TrailDies DEF TrailInv, Trails, Shapes, Trail

LEMMA QuietlyAdvances ==
  ASSUME TrailInv, NEW r \in Run, UNCHANGED <<audit, worktree>>, NEW target, NEW k,
         IsPipeline(k), _advance(r, target, k), Trail(k, audit[r], worktree[r])
  PROVE  Onward(r)
  BY Quietly, TrailAdvances DEF TrailInv, Shapes

LEMMA QuietlyContinues ==
  ASSUME TrailInv, NEW r \in Run, UNCHANGED <<audit, worktree>>, NEW k, Continue(r, k),
         Trail(k, audit[r], worktree[r])
  PROVE  Onward(r)
  BY Quietly, TrailContinues DEF TrailInv, Shapes

\* Steps that write this Run's audit row; k is what the process goes on with.
LEMMA Recording ==
  ASSUME TrailInv, NEW r \in Run, UNCHANGED worktree, NEW a, audit' = [audit EXCEPT ![r] = a],
         Trail(orch'[r], a, worktree[r]), \A x \in Run \ {r} : orch'[x] = orch[x]
  PROVE  Onward(r)
  BY DEF TrailInv, Shapes, Onward

\* Steps that write this Run's worktree.
LEMMA Leaving ==
  ASSUME TrailInv, NEW r \in Run, UNCHANGED audit, NEW w, worktree' = [worktree EXCEPT ![r] = w],
         Trail(orch'[r], audit[r], w), \A x \in Run \ {r} : orch'[x] = orch[x]
  PROVE  Onward(r)
  BY DEF TrailInv, Shapes, Onward

LEMMA TrailStart ==
  ASSUME TrailInv, NEW r \in Run, start(r)
  PROVE  Onward(r)
<1> DEFINE k == [Unstarted EXCEPT !.pc = "resolving", !.held = NewRow]
<1>1. /\ k.pc = "resolving" /\ k.contract = None /\ k.wanted = None /\ k.attempt = 1
      /\ k.turns = 0 /\ k.active = None /\ k.baseline = None
  BY DEF Unstarted
<1>2. Continue(r, k) /\ UNCHANGED <<audit, worktree>> /\ orch[r].pc = "idle"
  BY DEF start, At
<1> HIDE DEF k
<1>3. Trail(orch[r], audit[r], worktree[r])
  BY DEF TrailInv, Trails
<1>4. Locals(k)
  <2>1. PICK used \in Turns : used \in Nat
    BY OrchestratorAssumption
  <2>2. 0 <= MaxTurns + used
    BY <2>1, OrchestratorAssumption
  <2> QED  BY <1>1, <2>1, <2>2 DEF Locals, Regating, Gate, Reworking
<1>5. Counts(k, audit[r])
  BY <1>1, <1>2, <1>3 DEF Trail, Counts, Regating, Gate, Working, Reworking
<1>6. Authority(k, audit[r]) /\ Baseline(k, worktree[r])
  BY <1>1 DEF Authority, Baseline, Regating, Gate, Working, Reworking
<1> QED  BY <1>2, <1>3, <1>4, <1>5, <1>6, QuietlyContinues DEF Trail

\* More turns are used by an invocation that was within the ceiling.
LEMMA TurnsUsed ==
  ASSUME NEW turns \in Nat, turns <= MaxTurns, NEW used \in Turns
  PROVE  /\ turns + used \in Nat
         /\ \E u \in Turns : turns + used <= MaxTurns + u
<1>1. used \in Nat /\ MaxTurns \in Nat
  BY OrchestratorAssumption
<1>2. turns + used <= MaxTurns + used
  BY <1>1
<1> QED  BY <1>1, <1>2

LEMMA TrailPlans ==
  ASSUME TrailInv, NEW r \in Run,
         resolve_repository(r) \/ invoke_planner(r) \/ accept_contract(r)
  PROVE  Onward(r)
<1>1. IsPipeline(orch[r]) /\ Trail(orch[r], audit[r], worktree[r]) /\ UNCHANGED worktree
  BY DEF TrailInv, Shapes, Trails, Pipeline, resolve_repository, invoke_planner, accept_contract
<1>2. CASE _fail(r) /\ UNCHANGED audit
  BY <1>1, <1>2, QuietlyFails
<1>3. CASE resolve_repository(r)
  <2> DEFINE k == [orch[r] EXCEPT !.pc = "planning"]
  <2>1. /\ IsPipeline(k) /\ k.pc = "planning" /\ k.contract = orch[r].contract
        /\ k.active = orch[r].active /\ k.baseline = orch[r].baseline /\ k.frozen = orch[r].frozen
        /\ k.wanted = orch[r].wanted /\ k.attempt = orch[r].attempt
        /\ k.turns = orch[r].turns
    BY <1>1 DEF IsPipeline, Fields
  <2>2. /\ orch[r].pc = "resolving" /\ UNCHANGED audit
        /\ _fail(r) \/ _advance(r, "PLANNING", k)
    BY <1>3 DEF resolve_repository, At
  <2> HIDE DEF k
  <2>3. Locals(k) /\ Counts(k, audit[r]) /\ Authority(k, audit[r]) /\ Baseline(k, worktree[r])
    BY <1>1, <2>1, <2>2 DEF Trail, Locals, Counts, Authority, Baseline, Regating, Gate,
                            Working, Reworking
  <2> QED  BY <1>1, <1>2, <2>1, <2>2, <2>3, QuietlyAdvances DEF Trail
<1>4. CASE invoke_planner(r)
  <2>1. ASSUME ~OverBudget(r), NEW draft \in Drafts, NEW used \in Turns,
               _advance(r, "CONTRACT_VALIDATING",
                         [orch[r] EXCEPT !.pc = "validating", !.contract = draft,
                                         !.turns = @ + used])
        PROVE  Onward(r)
    <3> DEFINE k == [orch[r] EXCEPT !.pc = "validating", !.contract = draft, !.turns = @ + used]
    <3>1. /\ IsPipeline(k) /\ k.pc = "validating" /\ k.contract = draft
          /\ k.active = orch[r].active /\ k.baseline = orch[r].baseline /\ k.frozen = orch[r].frozen
          /\ k.wanted = orch[r].wanted /\ k.attempt = orch[r].attempt
          /\ k.turns = orch[r].turns + used
      BY <1>1 DEF IsPipeline, Fields
    <3>2. orch[r].pc = "planning" /\ UNCHANGED audit /\ _advance(r, "CONTRACT_VALIDATING", k)
      BY <1>4, <2>1 DEF invoke_planner, At
    <3> HIDE DEF k
    <3>3. draft \in Contract /\ draft.max_rework \in Nat
      BY OrchestratorAssumption DEF Contract
    <3>4. orch[r].turns \in Nat /\ orch[r].turns <= MaxTurns
      BY <1>1, <2>1, OrchestratorAssumption DEF OverBudget, Trail, Locals
    <3>5. Locals(k)
      BY <1>1, <3>1, <3>3, <3>4, TurnsUsed DEF Trail, Locals, Regating, Gate, Reworking
    <3>6. Counts(k, audit[r])
      BY <1>1, <3>1, <3>2, <3>3 DEF Trail, Counts, Regating, Gate, Working, Reworking
    <3>7. Authority(k, audit[r]) /\ Baseline(k, worktree[r])
      BY <3>1 DEF Authority, Baseline, Regating, Gate, Working, Reworking
    <3> QED  BY <1>1, <3>1, <3>2, <3>5, <3>6, <3>7, QuietlyAdvances DEF Trail
  <2> QED  BY <1>2, <1>4, <2>1 DEF invoke_planner
<1>5. ASSUME At(r, "validating"), insert_task_contract(r),
             Continue(r, [orch[r] EXCEPT !.pc = "gating", !.subject = "contract",
                                         !.request = orch[r].contract.request])
      PROVE  Onward(r)
  <2> DEFINE k == [orch[r] EXCEPT !.pc = "gating", !.subject = "contract",
                                  !.request = orch[r].contract.request]
             a == [audit[r] EXCEPT !.contracts = @ + 1]
  <2>1. /\ IsPipeline(k) /\ k.pc = "gating" /\ k.contract = orch[r].contract
        /\ k.subject = "contract" /\ k.request = orch[r].contract.request
        /\ k.active = orch[r].active /\ k.baseline = orch[r].baseline /\ k.frozen = orch[r].frozen
        /\ k.wanted = orch[r].wanted /\ k.attempt = orch[r].attempt
        /\ k.turns = orch[r].turns
    BY <1>1 DEF IsPipeline, Fields
  <2>2. orch[r].pc = "validating" /\ Continue(r, k)
    BY <1>5 DEF At
  <2>3. /\ IsAudit(a) /\ a.contracts = audit[r].contracts + 1
        /\ a.reworks = audit[r].reworks /\ a.invocations = audit[r].invocations
    BY <1>1 DEF Trail, IsAudit, AuditFields
  <2>4. audit' = [audit EXCEPT ![r] = a]
    BY <1>5 DEF insert_task_contract, TrailInv, Shapes
  <2> HIDE DEF k, a
  <2>5. Locals(k)
    BY <1>1, <2>1 DEF Trail, Locals, Regating, Gate, Reworking
  <2>6. Counts(k, a)
    BY <1>1, <2>1, <2>2, <2>3 DEF Trail, Counts, Regating, Gate, Working, Reworking
  <2>7. Authority(k, a)
    BY <1>1, <2>1, <2>2 DEF Trail, Counts, Contract, Authority, Gate, Working, Reworking
  <2>8. Baseline(k, worktree[r])
    BY <2>1 DEF Baseline, Regating, Gate, Working, Reworking
  <2>9. Trail(k, a, worktree[r])
    BY <2>3, <2>5, <2>6, <2>7, <2>8 DEF Trail
  <2>10. Trail(orch'[r], a, worktree[r]) /\ \A x \in Run \ {r} : orch'[x] = orch[x]
    BY <2>2, <2>9, TrailContinues DEF TrailInv, Shapes
  <2> QED  BY <1>1, <2>4, <2>10, Recording
<1> QED  BY <1>2, <1>3, <1>4, <1>5 DEF accept_contract

\* The policy engine, as the gate uses it.
LEMMA Decided ==
  ASSUME NEW request \in RequestedCapabilities, NEW scope,
         NEW decision, decision = evaluate_policy(request, scope, CeilingScope)
  PROVE  /\ decision.outcome = Outcome(request)
         /\ decision.grants.items \subseteq request.items \intersect Ceiling
         /\ Outcome(request) # "DENY" =>
              /\ denials(request) = {}
              /\ decision.approval_requirements = approval_requirements(request)
         /\ Outcome(request) = "ALLOW" => approval_requirements(request) = {}
  BY DEF evaluate_policy, Grants, Outcome

LEMMA TrailEvaluates ==
  ASSUME TrailInv, NEW r \in Run, evaluate(r)
  PROVE  Onward(r)
<1> DEFINE o == orch[r]
           decision == evaluate_policy(o.request, o.contract.scope, CeilingScope)
           entry == [request |-> o.request, outcome |-> decision.outcome]
           k == [o EXCEPT !.pc = "decided", !.decision = decision]
           a == [audit[r] EXCEPT !.decisions = @ \union {entry}]
<1>1. IsPipeline(o) /\ Trail(o, audit[r], worktree[r]) /\ UNCHANGED worktree /\ o.pc = "gating"
  BY DEF TrailInv, Shapes, Trails, Pipeline, evaluate, At
<1>2. Continue(r, k) /\ audit' = [audit EXCEPT ![r] = a]
  BY DEF evaluate, insert_policy_decision, TrailInv, Shapes
<1>3. o.request \in RequestedCapabilities
  BY <1>1 DEF Trail, Authority, Gate
<1>4. decision.outcome = Outcome(o.request)
  BY <1>3, Decided
<1> HIDE DEF decision
<1>5. /\ IsPipeline(k) /\ k.pc = "decided" /\ k.contract = o.contract
      /\ k.subject = o.subject /\ k.request = o.request /\ k.decision = decision
      /\ k.active = o.active /\ k.grants = o.grants /\ k.frozen = o.frozen
      /\ k.baseline = o.baseline
      /\ k.wanted = o.wanted /\ k.attempt = o.attempt /\ k.turns = o.turns
  BY <1>1 DEF IsPipeline, Fields
<1>6. /\ IsAudit(a) /\ a.contracts = audit[r].contracts
      /\ a.reworks = audit[r].reworks /\ a.invocations = audit[r].invocations
      /\ entry \in a.decisions
  BY <1>1 DEF Trail, IsAudit, AuditFields
<1> HIDE DEF k, a
<1>7. Locals(k)
  BY <1>1, <1>5 DEF Trail, Locals, Regating, Gate, Reworking
<1>8. Counts(k, a)
  BY <1>1, <1>5, <1>6 DEF Trail, Counts, Regating, Gate, Working, Reworking
<1>9. Authority(k, a)
  BY <1>1, <1>3, <1>4, <1>5, <1>6 DEF Authority, Gate, Working, Reworking, decision
<1>10. Baseline(k, worktree[r])
  BY <1>1, <1>5 DEF Trail, Baseline, Regating, Gate, Working, Reworking
<1>11. Trail(k, a, worktree[r])
  BY <1>6, <1>7, <1>8, <1>9, <1>10 DEF Trail
<1>12. Trail(orch'[r], a, worktree[r]) /\ \A x \in Run \ {r} : orch'[x] = orch[x]
  BY <1>2, <1>11, TrailContinues DEF TrailInv, Shapes
<1> QED  BY <1>1, <1>2, <1>12, Recording

\* What the next attempt starts with.
LEMMA NextAttemptTrail ==
  ASSUME NEW k, IsPipeline(k), NEW a, IsAudit(a), NEW w, Locals(k), Authorised(k, a),
         k.contract \in Contract, a.contracts = 1,
         a.reworks = k.attempt, a.invocations = k.attempt, k.attempt <= k.contract.max_rework,
         k.frozen.post_test \in Manifest, w # None => k.frozen.post_test = w
  PROVE  Trail(NextAttempt(k), a, w)
<1> DEFINE failed == failed_criteria_ids_of(k.answer)
           n == NextAttempt(k)
<1>1. n = [k EXCEPT !.pc = "executing", !.baseline = k.frozen.post_test,
                    !.previous = failed, !.attempt = @ + 1]
  BY Zenon DEF NextAttempt
<1> HIDE DEF failed, n
<1>2. /\ n.pc = "executing" /\ n.contract = k.contract /\ n.active = k.active
      /\ n.frozen = k.frozen
      /\ n.grants = k.grants /\ n.baseline = k.frozen.post_test /\ n.wanted = k.wanted
      /\ n.attempt = k.attempt + 1 /\ n.turns = k.turns
  BY <1>1 DEF IsPipeline, Fields
<1>3. k.attempt \in Nat \ {0} /\ k.contract.max_rework \in Nat
  BY DEF Locals, Contract
<1>4. Locals(n)
  BY <1>2 DEF Locals, Authorised, Regating, Gate, Reworking
<1>5. Counts(n, a)
  BY <1>2, <1>3 DEF Counts, Regating, Gate, Working, Reworking
<1>6. Authority(n, a) /\ Baseline(n, w)
  BY <1>2 DEF Authority, Authorised, Baseline, Regating, Gate, Working, Reworking
<1> QED  BY <1>4, <1>5, <1>6 DEF Trail, n

\* Once the gate lets a request through, it is authorised.
LEMMA GrantedTrail ==
  ASSUME NEW k, IsPipeline(k), NEW a, NEW w, Trail(k, a, w),
         k.pc \in {"decided", "awaiting_approval"}, Outcome(k.request) # "DENY",
         NEW b, IsAudit(b), b.contracts = a.contracts, b.reworks = a.reworks,
         b.invocations = a.invocations, b.decisions = a.decisions,
         approval_requirements(k.request) \subseteq b.consented
  PROVE  Trail(Granted(k), b, w)
<1> DEFINE g == [k EXCEPT !.active = k.request, !.grants = k.decision.grants]
           c == [g EXCEPT !.pc = "creating"]
<1>1. Granted(k) = IF k.subject = "contract" THEN c ELSE NextAttempt(g)
  BY DEF Granted
<1>2. /\ IsPipeline(g) /\ g.pc = k.pc /\ g.contract = k.contract /\ g.active = k.request
      /\ g.baseline = k.baseline /\ g.subject = k.subject
      /\ g.grants = k.decision.grants /\ g.wanted = k.wanted /\ g.attempt = k.attempt
      /\ g.turns = k.turns /\ g.frozen = k.frozen
  BY DEF IsPipeline, Fields
<1>3. /\ IsPipeline(c) /\ c.pc = "creating" /\ c.contract = k.contract /\ c.active = k.request
      /\ c.baseline = k.baseline /\ c.frozen = k.frozen
      /\ c.grants = k.decision.grants /\ c.wanted = k.wanted /\ c.attempt = k.attempt
      /\ c.turns = k.turns
  BY DEF IsPipeline, Fields
<1> HIDE DEF c, g
<1>4. /\ k.request \in RequestedCapabilities
      /\ k.decision = evaluate_policy(k.request, k.contract.scope, CeilingScope)
      /\ [request |-> k.request, outcome |-> Outcome(k.request)] \in a.decisions
  BY DEF Trail, Authority, Gate
<1>5. /\ denials(k.request) = {}
      /\ k.decision.grants.items \subseteq k.request.items \intersect Ceiling
  BY <1>4, Decided
<1>6. Authorised(g, b) /\ Authorised(c, b)
  BY <1>2, <1>3, <1>4, <1>5 DEF Authorised
<1>7. Locals(g) /\ Locals(c)
  BY <1>2, <1>3, <1>4 DEF Trail, Locals, Regating, Gate, Reworking
<1>8. CASE k.subject = "contract"
  <2>1. k.contract \in Contract /\ k.contract.max_rework \in Nat
    BY DEF Trail, Counts, Gate, Contract
  <2>2. Counts(c, b)
    BY <1>3, <1>8, <2>1 DEF Trail, Counts, Regating, Gate, Working, Reworking
  <2>3. Authority(c, b) /\ Baseline(c, w)
    BY <1>3, <1>6 DEF Authority, Baseline, Regating, Gate, Working, Reworking
  <2> QED  BY <1>1, <1>7, <1>8, <2>2, <2>3 DEF Trail
<1>9. CASE k.subject # "contract"
  <2>1. /\ k.contract \in Contract /\ a.contracts = 1 /\ a.reworks = k.attempt
        /\ a.invocations = k.attempt /\ k.attempt <= k.contract.max_rework
        /\ k.frozen.post_test \in Manifest
        /\ w # None => k.frozen.post_test = w
    BY <1>9 DEF Trail, Locals, Counts, Baseline, Regating, Gate
  <2>2. Trail(NextAttempt(g), b, w)
    BY <1>2, <1>6, <1>7, <2>1, NextAttemptTrail
  <2> QED  BY <1>1, <1>9, <2>2
<1> QED  BY <1>8, <1>9

LEMMA TrailGates ==
  ASSUME TrailInv, NEW r \in Run,
         act_on_decision(r) \/ approval_answered(r) \/ create_worktree(r)
  PROVE  Onward(r)
<1> DEFINE o == orch[r]
<1>1. IsPipeline(o) /\ Trail(o, audit[r], worktree[r])
  BY DEF TrailInv, Shapes, Trails, Pipeline
<1>2. CASE _fail(r) /\ UNCHANGED <<audit, worktree>>
  BY <1>1, <1>2, QuietlyFails
<1>3. CASE act_on_decision(r)
  <2>1. o.pc = "decided" /\ UNCHANGED <<audit, worktree>>
    BY <1>3 DEF act_on_decision, At
  <2>2. /\ o.request \in RequestedCapabilities /\ o.decision.outcome = Outcome(o.request)
        /\ Outcome(o.request) = "ALLOW" => approval_requirements(o.request) = {}
    BY <1>1, <2>1, Decided DEF Trail, Authority, Gate
  <2>3. CASE /\ o.decision.outcome = "REQUIRE_APPROVAL"
             /\ _advance(r, "AWAITING_APPROVAL", [o EXCEPT !.pc = "awaiting_approval"])
    <3> DEFINE k == [o EXCEPT !.pc = "awaiting_approval"]
    <3>1. /\ IsPipeline(k) /\ k.pc = "awaiting_approval" /\ k.contract = o.contract
          /\ k.subject = o.subject /\ k.request = o.request /\ k.decision = o.decision
          /\ k.active = o.active /\ k.baseline = o.baseline
          /\ k.frozen = o.frozen /\ k.wanted = o.wanted /\ k.attempt = o.attempt
          /\ k.turns = o.turns
      BY <1>1 DEF IsPipeline, Fields
    <3>2. _advance(r, "AWAITING_APPROVAL", k)
      BY <2>3
    <3> HIDE DEF k
    <3>3. Locals(k) /\ Baseline(k, worktree[r])
      BY <1>1, <2>1, <3>1 DEF Trail, Locals, Baseline, Regating, Gate, Working, Reworking
    <3>4. Counts(k, audit[r])
      BY <1>1, <2>1, <3>1 DEF Trail, Counts, Regating, Gate, Working, Reworking
    <3>5. Authority(k, audit[r])
      BY <1>1, <2>1, <2>2, <2>3, <3>1 DEF Trail, Authority, Gate, Working, Reworking
    <3> QED  BY <1>1, <2>1, <3>1, <3>2, <3>3, <3>4, <3>5, QuietlyAdvances DEF Trail
  <2>4. CASE /\ o.decision.outcome = "ALLOW"
             /\ _advance(r, "PREPARING_WORKSPACE", Granted(o))
    <3>1. Trail(Granted(o), audit[r], worktree[r])
      BY <1>1, <2>1, <2>2, <2>4, GrantedTrail DEF Trail
    <3> QED  BY <1>1, <2>1, <2>4, <3>1, GrantedShape, QuietlyAdvances
  <2> QED  BY <1>2, <1>3, <2>1, <2>3, <2>4 DEF act_on_decision
<1>4. CASE approval_answered(r)
  <2> DEFINE a == [audit[r] EXCEPT !.consented = @ \union o.decision.approval_requirements]
  <2>1. o.pc = "awaiting_approval" /\ UNCHANGED worktree
    BY <1>4 DEF approval_answered, At
  <2>2. /\ o.request \in RequestedCapabilities /\ Outcome(o.request) = "REQUIRE_APPROVAL"
        /\ o.decision.approval_requirements = approval_requirements(o.request)
    BY <1>1, <2>1, Decided DEF Trail, Authority, Gate
  <2>3. /\ IsAudit(a) /\ a.contracts = audit[r].contracts /\ a.reworks = audit[r].reworks
        /\ a.invocations = audit[r].invocations /\ a.decisions = audit[r].decisions
        /\ approval_requirements(o.request) \subseteq a.consented
    BY <1>1, <2>2 DEF Trail, IsAudit, AuditFields
  <2>4. ASSUME audit' = [audit EXCEPT ![r].consented = @ \union o.decision.approval_requirements],
               _advance(r, "PREPARING_WORKSPACE", Granted(o))
        PROVE  Onward(r)
    <3>1. audit' = [audit EXCEPT ![r] = a]
      BY <2>4 DEF TrailInv, Shapes
    <3> HIDE DEF a
    <3>2. Trail(Granted(o), a, worktree[r])
      BY <1>1, <2>1, <2>2, <2>3, GrantedTrail
    <3>3. Trail(orch'[r], a, worktree[r]) /\ \A x \in Run \ {r} : orch'[x] = orch[x]
      BY <1>1, <2>4, <3>2, GrantedShape, TrailAdvances DEF TrailInv, Shapes
    <3> QED  BY <2>1, <3>1, <3>3, Recording
  <2> QED  BY <1>2, <1>4, <2>1, <2>4 DEF approval_answered
<1>5. ASSUME At(r, "creating"), worktree' = [worktree EXCEPT ![r] = Base], UNCHANGED audit,
             Continue(r, [o EXCEPT !.pc = "executing", !.baseline = Base])
      PROVE  Onward(r)
  <2> DEFINE k == [o EXCEPT !.pc = "executing", !.baseline = Base]
  <2>1. /\ IsPipeline(k) /\ k.pc = "executing" /\ k.contract = o.contract
        /\ k.active = o.active /\ k.grants = o.grants /\ k.baseline = Base
        /\ k.frozen = o.frozen
        /\ k.wanted = o.wanted /\ k.attempt = o.attempt /\ k.turns = o.turns
    BY <1>1 DEF IsPipeline, Fields
  <2>2. o.pc = "creating" /\ Continue(r, k)
    BY <1>5 DEF At
  <2> HIDE DEF k
  <2>3. Locals(k) /\ Baseline(k, Base)
    BY <1>1, <2>1, OrchestratorAssumption
       DEF Trail, Locals, Baseline, Regating, Gate, Working, Reworking
  <2>4. Counts(k, audit[r])
    BY <1>1, <2>1, <2>2 DEF Trail, Counts, Regating, Gate, Working, Reworking
  <2>5. Authority(k, audit[r])
    BY <1>1, <2>1, <2>2 DEF Trail, Authority, Authorised, Gate, Working, Reworking
  <2>6. Trail(k, audit[r], Base)
    BY <1>1, <2>3, <2>4, <2>5 DEF Trail
  <2>7. Trail(orch'[r], audit[r], Base) /\ \A x \in Run \ {r} : orch'[x] = orch[x]
    BY <2>2, <2>6, TrailContinues DEF TrailInv, Shapes
  <2> QED  BY <1>5, <2>7, Leaving
<1> QED  BY <1>2, <1>3, <1>4, <1>5 DEF create_worktree

\* Steps that only move on.
LEMMA MovesOn ==
  ASSUME NEW k, IsPipeline(k), NEW a, NEW w, Trail(k, a, w), NEW pc,
         \/ k.pc = "executing" /\ pc = "budgeting"
         \/ k.pc = "freezing" /\ pc = "checking"
         \/ k.pc = "verified" /\ pc = "awaiting_final"
         \/ k.pc = "reworking" /\ pc = "revalidating"
         \/ k.pc = "revalidating" /\ pc = "repreparing"
         \/ pc = "returned"
  PROVE  IsPipeline([k EXCEPT !.pc = pc]) /\ Trail([k EXCEPT !.pc = pc], a, w)
<1> DEFINE m == [k EXCEPT !.pc = pc]
<1>1. /\ IsPipeline(m) /\ m.pc = pc /\ m.contract = k.contract /\ m.subject = k.subject
      /\ m.request = k.request /\ m.decision = k.decision /\ m.active = k.active
      /\ m.grants = k.grants /\ m.baseline = k.baseline /\ m.frozen = k.frozen
      /\ m.wanted = k.wanted /\ m.attempt = k.attempt /\ m.turns = k.turns
  BY DEF IsPipeline, Fields
<1> HIDE DEF m
<1>2. Locals(m)
  BY <1>1 DEF Trail, Locals, Regating, Gate, Reworking
<1>3. Counts(m, a)
  BY <1>1 DEF Trail, Counts, Regating, Gate, Working, Reworking
<1>4. Authority(m, a)
  BY <1>1 DEF Trail, Authority, Authorised, Gate, Working, Reworking
<1>5. Baseline(m, w)
  BY <1>1 DEF Trail, Baseline, Regating, Gate, Working, Reworking
<1> QED  BY <1>1, <1>2, <1>3, <1>4, <1>5 DEF Trail, m

LEMMA TrailMoves ==
  ASSUME TrailInv, NEW r \in Run,
         enter_executing(r) \/ enter_host_validating(r) \/ final_answered(r)
            \/ enter_rework_contracting(r)
  PROVE  Onward(r)
<1>1. /\ IsPipeline(orch[r]) /\ Trail(orch[r], audit[r], worktree[r])
      /\ UNCHANGED <<audit, worktree>>
  BY DEF TrailInv, Shapes, Trails, Pipeline, enter_executing, enter_host_validating,
         final_answered, enter_rework_contracting
<1>2. CASE enter_executing(r)
  BY <1>1, <1>2, MovesOn, QuietlyAdvances DEF enter_executing, At
<1>3. CASE enter_host_validating(r)
  BY <1>1, <1>3, MovesOn, QuietlyAdvances DEF enter_host_validating, At
<1>4. CASE final_answered(r)
  BY <1>1, <1>4, MovesOn, QuietlyAdvances DEF final_answered, At
<1>5. CASE enter_rework_contracting(r)
  BY <1>1, <1>5, MovesOn, QuietlyAdvances DEF enter_rework_contracting, At
<1> QED  BY <1>2, <1>3, <1>4, <1>5

LEMMA TrailInvokes ==
  ASSUME TrailInv, NEW r \in Run, invoke_worker(r)
  PROVE  Onward(r)
<1> DEFINE o == orch[r]
           k == [o EXCEPT !.pc = "working"]
           a == [audit[r] EXCEPT !.invocations = @ + 1]
<1>1. /\ IsPipeline(o) /\ Trail(o, audit[r], worktree[r]) /\ UNCHANGED worktree
      /\ o.pc = "budgeting"
  BY DEF TrailInv, Shapes, Trails, Pipeline, invoke_worker, At
<1>2. CASE OverBudget(r)
  BY <1>1, <1>2, QuietlyFails DEF invoke_worker
<1>3. CASE ~OverBudget(r)
  <2>1. Continue(r, k) /\ audit' = [audit EXCEPT ![r] = a]
    BY <1>3 DEF invoke_worker, TrailInv, Shapes
  <2>2. /\ IsPipeline(k) /\ k.pc = "working" /\ k.contract = o.contract
        /\ k.active = o.active /\ k.grants = o.grants /\ k.baseline = o.baseline
        /\ k.frozen = o.frozen
        /\ k.wanted = o.wanted /\ k.attempt = o.attempt /\ k.turns = o.turns
    BY <1>1 DEF IsPipeline, Fields
  <2>3. /\ IsAudit(a) /\ a.contracts = audit[r].contracts /\ a.reworks = audit[r].reworks
        /\ a.invocations = audit[r].invocations + 1 /\ a.decisions = audit[r].decisions
        /\ a.consented = audit[r].consented
    BY <1>1 DEF Trail, IsAudit, AuditFields
  <2> HIDE DEF k, a
  <2>4. k.turns <= MaxTurns
    BY <1>1, <1>3, <2>2, OrchestratorAssumption DEF OverBudget, Trail, Locals
  <2>5. Locals(k) /\ Baseline(k, worktree[r])
    BY <1>1, <2>2, <2>4 DEF Trail, Locals, Baseline, Regating, Gate, Working, Reworking
  <2>6. Counts(k, a)
    <3>1. o.attempt \in Nat \ {0} /\ o.contract \in Contract /\ o.contract.max_rework \in Nat
      BY <1>1 DEF Trail, Locals, Counts, Contract
    <3> QED  BY <1>1, <2>2, <2>3, <3>1 DEF Trail, Counts, Regating, Gate, Working, Reworking
  <2>7. Authority(k, a)
    BY <1>1, <2>2, <2>3 DEF Trail, Authority, Authorised, Gate, Working, Reworking
  <2>8. Trail(k, a, worktree[r])
    BY <2>3, <2>5, <2>6, <2>7 DEF Trail
  <2>9. Trail(orch'[r], a, worktree[r]) /\ \A x \in Run \ {r} : orch'[x] = orch[x]
    BY <2>1, <2>8, TrailContinues DEF TrailInv, Shapes
  <2> QED  BY <1>1, <2>1, <2>9, Recording
<1> QED  BY <1>2, <1>3

LEMMA TrailReturns ==
  ASSUME TrailInv, NEW r \in Run, worker_returns(r)
  PROVE  Onward(r)
<1> DEFINE o == orch[r]
<1>1. /\ IsPipeline(o) /\ Trail(o, audit[r], worktree[r]) /\ UNCHANGED audit
      /\ o.pc = "working"
  BY DEF TrailInv, Shapes, Trails, Pipeline, worker_returns, At
<1>2. PICK left : worktree' = [worktree EXCEPT ![r] = left]
  BY DEF worker_returns, Leaves
<1>3. ASSUME NEW k, IsPipeline(k), NEW target, _advance(r, target, k),
             k.pc \in {"returned", "freezing"}, Locals(k), k.contract = o.contract,
             k.attempt = o.attempt, k.active = o.active, k.grants = o.grants
      PROVE  Onward(r)
  <2>1. Counts(k, audit[r])
    BY <1>1, <1>3 DEF Trail, Counts, Regating, Gate, Working, Reworking
  <2>2. Authority(k, audit[r]) /\ Baseline(k, left)
    BY <1>1, <1>3 DEF Trail, Authority, Authorised, Baseline, Regating, Gate, Working, Reworking
  <2>3. Trail(orch'[r], audit[r], left) /\ \A x \in Run \ {r} : orch'[x] = orch[x]
    BY <1>1, <1>3, <2>1, <2>2, TrailAdvances DEF TrailInv, Shapes, Trail
  <2> QED  BY <1>1, <1>2, <2>3, Leaving
<1>4. CASE _fail(r)
  <2> DEFINE k == [o EXCEPT !.pc = "returned"]
  <2>1. /\ IsPipeline(k) /\ k.pc = "returned" /\ k.contract = o.contract
        /\ k.active = o.active /\ k.grants = o.grants
        /\ k.baseline = o.baseline /\ k.frozen = o.frozen
        /\ k.wanted = o.wanted /\ k.attempt = o.attempt /\ k.turns = o.turns
    BY <1>1 DEF IsPipeline, Fields
  <2>2. _advance(r, "FAILED", k)
    BY <1>4 DEF _fail
  <2> HIDE DEF k
  <2>3. Locals(k)
    BY <1>1, <2>1 DEF Trail, Locals, Regating, Gate, Reworking
  <2> QED  BY <1>3, <2>1, <2>2, <2>3
<1>5. ASSUME NEW used \in Turns, NEW wanted \in Additional \union {None},
             _advance(r, "FREEZING_RESULT",
                      [o EXCEPT !.pc = "freezing", !.turns = @ + used, !.wanted = wanted])
      PROVE  Onward(r)
  <2> DEFINE k == [o EXCEPT !.pc = "freezing", !.turns = @ + used, !.wanted = wanted]
  <2>1. /\ IsPipeline(k) /\ k.pc = "freezing" /\ k.contract = o.contract
        /\ k.active = o.active /\ k.grants = o.grants
        /\ k.baseline = o.baseline /\ k.frozen = o.frozen
        /\ k.wanted = wanted /\ k.attempt = o.attempt /\ k.turns = o.turns + used
    BY <1>1 DEF IsPipeline, Fields
  <2>2. _advance(r, "FREEZING_RESULT", k)
    BY <1>5
  <2> HIDE DEF k
  <2>3. o.turns \in Nat /\ o.turns <= MaxTurns
    BY <1>1 DEF Trail, Locals, Regating, Gate, Reworking
  <2>4. Locals(k)
    BY <1>1, <2>1, <2>3, TurnsUsed DEF Trail, Locals, Regating, Gate, Reworking
  <2> QED  BY <1>3, <2>1, <2>2, <2>4
<1> QED  BY <1>4, <1>5 DEF worker_returns

LEMMA TrailChecks ==
  ASSUME TrailInv, NEW r \in Run, host_validate(r)
  PROVE  Onward(r)
<1> DEFINE o == orch[r]
<1>1. /\ IsPipeline(o) /\ Trail(o, audit[r], worktree[r]) /\ UNCHANGED audit
      /\ o.pc = "checking"
  BY DEF TrailInv, Shapes, Trails, Pipeline, host_validate, At
<1>2. CASE Die(r) /\ UNCHANGED worktree
  BY <1>1, <1>2, QuietlyDies
<1>3. ASSUME NEW left \in Manifests \union {None}, NEW executions \in Executions,
             Leaves(r, left),
             _advance(r, "VERIFYING",
                  [o EXCEPT !.pc = "verifying",
                     !.frozen = freeze_and_validate(o.baseline, Walk(worktree[r]),
                                  Walk(left), executions, o.grants.path_rules)])
      PROVE  Onward(r)
  <2> DEFINE f == freeze_and_validate(o.baseline, Walk(worktree[r]), Walk(left), executions,
                                      o.grants.path_rules)
             k == [o EXCEPT !.pc = "verifying", !.frozen = f]
  <2>1. f.post_test \in Manifest /\ (left # None => f.post_test = left)
    BY OrchestratorAssumption, VerificationAssumption DEF freeze_and_validate, Walk, Manifest
  <2>2. _advance(r, "VERIFYING", k) /\ worktree' = [worktree EXCEPT ![r] = left]
    BY <1>3 DEF Leaves
  <2> HIDE DEF f
  <2>3. /\ IsPipeline(k) /\ k.pc = "verifying" /\ k.contract = o.contract
        /\ k.active = o.active /\ k.grants = o.grants /\ k.frozen = f
        /\ k.baseline = o.baseline
        /\ k.wanted = o.wanted /\ k.attempt = o.attempt /\ k.turns = o.turns
    BY <1>1 DEF IsPipeline, Fields
  <2> HIDE DEF k
  <2>4. Locals(k) /\ Baseline(k, left)
    BY <1>1, <2>1, <2>3 DEF Trail, Locals, Baseline, Regating, Gate, Working, Reworking
  <2>5. Counts(k, audit[r])
    BY <1>1, <2>3 DEF Trail, Counts, Regating, Gate, Working, Reworking
  <2>6. Authority(k, audit[r])
    BY <1>1, <2>3 DEF Trail, Authority, Authorised, Gate, Working, Reworking
  <2>7. Trail(orch'[r], audit[r], left) /\ \A x \in Run \ {r} : orch'[x] = orch[x]
    BY <1>1, <2>2, <2>3, <2>4, <2>5, <2>6, TrailAdvances DEF TrailInv, Shapes, Trail
  <2> QED  BY <1>1, <2>2, <2>7, Leaving
<1> QED  BY <1>2, <1>3 DEF host_validate

LEMMA TrailVerifies ==
  ASSUME TrailInv, NEW r \in Run, verify(r)
  PROVE  Onward(r)
<1> DEFINE o == orch[r]
<1>1. /\ IsPipeline(o) /\ Trail(o, audit[r], worktree[r]) /\ UNCHANGED worktree
      /\ o.pc = "verifying"
  BY DEF TrailInv, Shapes, Trails, Pipeline, verify, At
<1>2. CASE _fail(r) /\ UNCHANGED audit
  BY <1>1, <1>2, QuietlyFails
<1>3. ASSUME ~OverBudget(r), NEW answer \in Answers, NEW used \in Turns,
             insert_verification_result(r, answer),
             Continue(r, [o EXCEPT !.pc = "verified", !.answer = answer, !.turns = @ + used])
      PROVE  Onward(r)
  <2> DEFINE k == [o EXCEPT !.pc = "verified", !.answer = answer, !.turns = @ + used]
             a == [audit[r] EXCEPT !.verdict = answer]
  <2>1. Continue(r, k) /\ audit' = [audit EXCEPT ![r] = a]
    BY <1>3 DEF insert_verification_result, TrailInv, Shapes
  <2>2. /\ IsPipeline(k) /\ k.pc = "verified" /\ k.contract = o.contract
        /\ k.active = o.active /\ k.grants = o.grants /\ k.frozen = o.frozen
        /\ k.baseline = o.baseline
        /\ k.wanted = o.wanted /\ k.attempt = o.attempt /\ k.turns = o.turns + used
    BY <1>1 DEF IsPipeline, Fields
  <2>3. /\ IsAudit(a) /\ a.contracts = audit[r].contracts /\ a.reworks = audit[r].reworks
        /\ a.invocations = audit[r].invocations /\ a.decisions = audit[r].decisions
        /\ a.consented = audit[r].consented
    BY <1>1 DEF Trail, IsAudit, AuditFields
  <2> HIDE DEF k, a
  <2>4. o.turns \in Nat /\ o.turns <= MaxTurns
    BY <1>1, <1>3, OrchestratorAssumption DEF OverBudget, Trail, Locals
  <2>5. Locals(k)
    BY <1>1, <2>2, <2>4, TurnsUsed DEF Trail, Locals, Regating, Gate, Reworking
  <2>6. Counts(k, a)
    BY <1>1, <2>2, <2>3 DEF Trail, Counts, Regating, Gate, Working, Reworking
  <2>7. Authority(k, a) /\ Baseline(k, worktree[r])
    BY <1>1, <2>2, <2>3
       DEF Trail, Authority, Authorised, Baseline, Regating, Gate, Working, Reworking
  <2>8. Trail(k, a, worktree[r])
    BY <2>3, <2>5, <2>6, <2>7 DEF Trail
  <2>9. Trail(orch'[r], a, worktree[r]) /\ \A x \in Run \ {r} : orch'[x] = orch[x]
    BY <2>1, <2>8, TrailContinues DEF TrailInv, Shapes
  <2> QED  BY <1>1, <2>1, <2>9, Recording
<1> QED  BY <1>2, <1>3 DEF verify

LEMMA TrailReworks ==
  ASSUME TrailInv, NEW r \in Run, At(r, "verified"), rework(r), UNCHANGED worktree
  PROVE  Onward(r)
<1> DEFINE o == orch[r]
           k == [o EXCEPT !.pc = "reworking"]
           a == [audit[r] EXCEPT !.reworks = @ + 1]
<1>1. IsPipeline(o) /\ Trail(o, audit[r], worktree[r]) /\ o.pc = "verified"
  BY DEF TrailInv, Shapes, Trails, Pipeline, At
<1>2. CASE _fail(r) /\ UNCHANGED audit
  BY <1>2, QuietlyFails
<1>3. CASE Die(r) /\ UNCHANGED audit
  BY <1>3, QuietlyDies
<1>4. CASE ReworkBudgetLeft(r) /\ insert_rework_contract(r) /\ Continue(r, k)
  <2>1. audit' = [audit EXCEPT ![r] = a]
    BY <1>4 DEF insert_rework_contract, TrailInv, Shapes
  <2>2. /\ IsPipeline(k) /\ k.pc = "reworking" /\ k.contract = o.contract
        /\ k.active = o.active /\ k.grants = o.grants /\ k.frozen = o.frozen
        /\ k.baseline = o.baseline
        /\ k.wanted = o.wanted /\ k.attempt = o.attempt /\ k.turns = o.turns
    BY <1>1 DEF IsPipeline, Fields
  <2>3. /\ IsAudit(a) /\ a.contracts = audit[r].contracts /\ a.reworks = audit[r].reworks + 1
        /\ a.invocations = audit[r].invocations /\ a.decisions = audit[r].decisions
        /\ a.consented = audit[r].consented
    BY <1>1 DEF Trail, IsAudit, AuditFields
  <2> HIDE DEF k, a
  <2>4. /\ o.attempt <= o.contract.max_rework /\ o.attempt \in Nat \ {0}
        /\ o.contract \in Contract /\ o.contract.max_rework \in Nat
    BY <1>1, <1>4 DEF ReworkBudgetLeft, Trail, Locals, Counts, Contract, Working
  <2>5. Locals(k)
    BY <1>1, <2>2 DEF Trail, Locals, Regating, Gate, Reworking
  <2>6. Counts(k, a)
    BY <1>1, <2>2, <2>3, <2>4 DEF Trail, Counts, Regating, Gate, Working, Reworking
  <2>7. Authority(k, a) /\ Baseline(k, worktree[r])
    BY <1>1, <2>2, <2>3
       DEF Trail, Authority, Authorised, Baseline, Regating, Gate, Working, Reworking
  <2>8. Trail(k, a, worktree[r])
    BY <2>3, <2>5, <2>6, <2>7 DEF Trail
  <2>9. Trail(orch'[r], a, worktree[r]) /\ \A x \in Run \ {r} : orch'[x] = orch[x]
    BY <1>4, <2>8, TrailContinues DEF TrailInv, Shapes, k
  <2> QED  BY <2>1, <2>9, Recording
<1> QED  BY <1>2, <1>3, <1>4 DEF rework

LEMMA TrailConcludes ==
  ASSUME TrailInv, NEW r \in Run, conclude(r)
  PROVE  Onward(r)
<1>1. /\ IsPipeline(orch[r]) /\ Trail(orch[r], audit[r], worktree[r]) /\ At(r, "verified")
      /\ UNCHANGED worktree
  BY DEF TrailInv, Shapes, Trails, Pipeline, conclude
<1>2. CASE _fail(r) /\ UNCHANGED audit
  BY <1>1, <1>2, QuietlyFails
<1>3. CASE /\ _advance(r, "AWAITING_MANUAL_REVIEW", [orch[r] EXCEPT !.pc = "returned"])
           /\ UNCHANGED audit
  BY <1>1, <1>3, MovesOn, QuietlyAdvances
<1>4. CASE /\ _advance(r, "AWAITING_FINAL_APPROVAL", [orch[r] EXCEPT !.pc = "awaiting_final"])
           /\ UNCHANGED audit
  BY <1>1, <1>4, MovesOn, QuietlyAdvances DEF At
<1>5. CASE rework(r)
  BY <1>1, <1>5, TrailReworks
<1> QED  BY <1>2, <1>3, <1>4, <1>5 DEF conclude

LEMMA TrailReenters ==
  ASSUME TrailInv, NEW r \in Run, reenter_contract_validating(r) \/ reenter_preparing(r)
  PROVE  Onward(r)
<1> DEFINE o == orch[r]
<1>1. /\ IsPipeline(o) /\ Trail(o, audit[r], worktree[r]) /\ UNCHANGED <<audit, worktree>>
  BY DEF TrailInv, Shapes, Trails, Pipeline, reenter_contract_validating, reenter_preparing
<1>2. CASE reenter_preparing(r)
  <2>1. o.pc = "repreparing" /\ _advance(r, "PREPARING_WORKSPACE", NextAttempt(o))
    BY <1>2 DEF reenter_preparing, At
  <2>2. /\ o.contract \in Contract /\ audit[r].contracts = 1
        /\ audit[r].reworks = o.attempt /\ audit[r].invocations = o.attempt
        /\ o.attempt <= o.contract.max_rework
        /\ o.frozen.post_test \in Manifest
        /\ worktree[r] # None => o.frozen.post_test = worktree[r]
        /\ Authorised(o, audit[r])
    BY <1>1, <2>1 DEF Trail, Locals, Counts, Authority, Baseline, Reworking
  <2>3. Trail(NextAttempt(o), audit[r], worktree[r])
    BY <1>1, <2>2, NextAttemptTrail DEF Trail
  <2> QED  BY <1>1, <2>1, <2>3, NextAttemptShape, QuietlyAdvances
<1>3. CASE reenter_contract_validating(r)
  <2> DEFINE merged == merge_requested_capabilities(o.active, o.wanted)
             more == [o EXCEPT !.pc = "gating", !.subject = "rework", !.request = merged]
  <2>1. o.pc = "revalidating"
    BY <1>3 DEF reenter_contract_validating, At
  <2>2. CASE o.wanted = None
    <3>1. _advance(r, "CONTRACT_VALIDATING", [o EXCEPT !.pc = "repreparing"])
      BY <1>3, <2>2 DEF reenter_contract_validating
    <3> QED  BY <1>1, <2>1, <3>1, MovesOn, QuietlyAdvances
  <2>3. CASE o.wanted # None
    <3>1. _advance(r, "CONTRACT_VALIDATING", more)
      BY <1>3, <2>3 DEF reenter_contract_validating
    <3>2. merged \in RequestedCapabilities
      <4>1. o.active \in RequestedCapabilities /\ o.wanted \in RequestedCapabilities
        BY <1>1, <2>1, <2>3, OrchestratorAssumption
           DEF Trail, Authority, Authorised, Reworking, Locals
      <4> QED  BY <4>1 DEF merge_requested_capabilities, RequestedCapabilities
    <3> HIDE DEF merged
    <3>3. /\ IsPipeline(more) /\ more.pc = "gating" /\ more.contract = o.contract
          /\ more.subject = "rework" /\ more.request = merged /\ more.frozen = o.frozen
          /\ more.active = o.active /\ more.baseline = o.baseline
          /\ more.wanted = o.wanted /\ more.attempt = o.attempt /\ more.turns = o.turns
      BY <1>1 DEF IsPipeline, Fields
    <3> HIDE DEF more
    <3>4. Locals(more) /\ Baseline(more, worktree[r])
      BY <1>1, <2>1, <3>3 DEF Trail, Locals, Baseline, Regating, Gate, Working, Reworking
    <3>5. Counts(more, audit[r])
      BY <1>1, <2>1, <3>3 DEF Trail, Counts, Regating, Gate, Working, Reworking
    <3>6. Authority(more, audit[r])
      BY <3>2, <3>3 DEF Authority, Gate, Working, Reworking
    <3> QED  BY <1>1, <3>1, <3>3, <3>4, <3>5, <3>6, QuietlyAdvances DEF Trail
  <2> QED  BY <2>2, <2>3
<1> QED  BY <1>2, <1>3

LEMMA TrailSteps ==
  ASSUME TrailInv, NEW r \in Run, start(r) \/ Step(r) \/ HumanAnswers(r) \/ crash(r)
  PROVE  TrailInv'
<1>1. Onward(r)
  <2>1. CASE crash(r)
    BY <2>1, QuietlyDies DEF crash
  <2>2. CASE start(r)
    BY <2>2, TrailStart
  <2>3. CASE HumanAnswers(r)
    BY <2>3, TrailGates, TrailMoves DEF HumanAnswers
  <2>4. CASE Step(r)
    BY <2>4, TrailPlans, TrailEvaluates, TrailGates, TrailMoves, TrailInvokes, TrailReturns,
       TrailChecks, TrailVerifies, TrailConcludes, TrailReenters DEF Step
  <2> QED  BY <2>1, <2>2, <2>3, <2>4
<1>2. Pipeline(orch')
  BY PipelineActs DEF TrailInv, Shapes, PipelineStep
<1> QED  BY <1>1, <1>2 DEF Onward, TrailInv, Shapes, Trails

\* The others change neither a pipeline nor its audit; a worktree they at most
\* take away.
LEMMA TrailTaken ==
  ASSUME NEW k, NEW a, NEW w, Trail(k, a, w)
  PROVE  Trail(k, a, None)
  BY DEF Trail, Baseline

LEMMA TrailSpared ==
  ASSUME TrailInv, UNCHANGED <<orch, audit>>,
         \/ UNCHANGED worktree
         \/ \E r : worktree' = [worktree EXCEPT ![r] = None]
  PROVE  TrailInv'
<1>1. CASE UNCHANGED worktree
  BY <1>1 DEF TrailInv, Shapes, Trails, Pipeline
<1>2. ASSUME NEW r, worktree' = [worktree EXCEPT ![r] = None]
      PROVE  TrailInv'
  <2>1. /\ DOMAIN worktree' = Run /\ worktree' = [x \in Run |-> worktree'[x]]
        /\ \A x \in Run : worktree'[x] = worktree[x] \/ worktree'[x] = None
    BY <1>2 DEF TrailInv, Shapes
  <2>2. ASSUME NEW x \in Run
        PROVE  Trail(orch'[x], audit'[x], worktree'[x])
    BY <2>1, TrailTaken DEF TrailInv, Trails
  <2> QED  BY <2>1, <2>2 DEF TrailInv, Shapes, Trails
<1> QED  BY <1>1, <1>2

LEMMA InitTrail == Init => TrailInv
<1> SUFFICES ASSUME Init
             PROVE  TrailInv
  OBVIOUS
<1>1. /\ orch = [r \in Run |-> Unstarted] /\ audit = [r \in Run |-> NoAudit]
      /\ worktree = [r \in Run |-> None]
  BY DEF Init, TableInit, OrchestratorInit
<1>2. /\ IsPipeline(Unstarted) /\ Unstarted.pc = "idle" /\ Unstarted.contract = None
      /\ Unstarted.wanted = None /\ Unstarted.attempt = 1 /\ Unstarted.turns = 0
      /\ Unstarted.active = None /\ Unstarted.baseline = None
  BY DEF IsPipeline, Fields, Unstarted
<1>3. /\ IsAudit(NoAudit) /\ NoAudit.contracts = 0 /\ NoAudit.reworks = 0
      /\ NoAudit.invocations = 0
  BY DEF IsAudit, AuditFields, NoAudit
<1> DEFINE k == Unstarted
           a == NoAudit
<1>4. Shapes
  BY <1>1, <1>2 DEF Shapes, Pipeline
<1>5. \A r \in Run : orch[r] = k /\ audit[r] = a /\ worktree[r] = None
  BY <1>1
<1> HIDE DEF k, a
<1>6. Locals(k)
  <2>1. PICK used \in Turns : used \in Nat
    BY OrchestratorAssumption
  <2>2. 0 <= MaxTurns + used
    BY <2>1, OrchestratorAssumption
  <2> QED  BY <1>2, <2>1, <2>2 DEF Locals, k, Regating, Gate, Reworking
<1>7. Counts(k, a)
  BY <1>2, <1>3 DEF Counts, Regating, Gate, Working, Reworking, k, a
<1>8. Authority(k, a) /\ Baseline(k, None)
  BY <1>2 DEF Authority, Baseline, Gate, Working, Reworking, k
<1>9. Trail(k, a, None)
  BY <1>3, <1>6, <1>7, <1>8 DEF Trail, a
<1> QED  BY <1>4, <1>5, <1>9 DEF TrailInv, Trails

LEMMA SystemTrail == TrailInv /\ [SystemNext]_systemVars => TrailInv'
<1> SUFFICES ASSUME TrailInv, [SystemNext]_systemVars
             PROVE  TrailInv'
  OBVIOUS
<1>1. CASE Pipelines
  BY <1>1, TrailSteps DEF Pipelines, Next
<1>2. CASE Humans
  <2>1. PICK c \in Cli : CliStep(c)
    BY <1>2 DEF Humans
  <2>2. UNCHANGED worktree \/ worktree' = [worktree EXCEPT ![cli[c].run] = None]
    BY <2>1, Zenon DEF CliStep, approve, reject, resume, cancel, cleanup, Begin,
       list_journal_entries, apply, _best_effort_worktree_cleanup, kill
  <2> QED  BY <1>2, <2>2, TrailSpared DEF Humans
<1>3. CASE Scans \/ Time \/ UNCHANGED systemVars
  <2>1. UNCHANGED <<orch, audit, worktree>>
    BY <1>3 DEF Scans, ScanStep, list_runs_by_states, reconcile, Time, Age, systemVars
  <2> QED  BY <2>1, TrailSpared
<1> QED  BY <1>1, <1>2, <1>3 DEF SystemNext

LEMMA AloneTrail == TrailInv /\ [Next]_vars => TrailInv'
<1> SUFFICES ASSUME TrailInv, [Next]_vars
             PROVE  TrailInv'
  OBVIOUS
<1>1. CASE Next
  BY <1>1, TrailSteps DEF Next
<1>2. CASE UNCHANGED vars
  BY <1>2, TrailSpared DEF vars
<1> QED  BY <1>1, <1>2

\* What the trail says where a Worker runs.
LEMMA TrailPromises ==
  TrailInv => GrantsAuthorised /\ AuditedBeforeWork /\ BudgetsHold /\ BaselineIsCurrent
<1> SUFFICES ASSUME TrailInv
             PROVE  GrantsAuthorised /\ AuditedBeforeWork /\ BudgetsHold /\ BaselineIsCurrent
  OBVIOUS
<1>1. \A r \in Run : Trail(orch[r], audit[r], worktree[r])
  BY DEF TrailInv, Trails
<1>2. GrantsAuthorised
  BY <1>1 DEF GrantsAuthorised, At, Trail, Authority, Authorised
<1>3. AuditedBeforeWork
  BY <1>1 DEF AuditedBeforeWork, At, Trail, Counts, Authority, Authorised
<1>4. BudgetsHold
  BY <1>1 DEF BudgetsHold, ReworkBounded, TurnsBounded, Trail, Locals, Counts
<1>5. BaselineIsCurrent
  BY <1>1 DEF BaselineIsCurrent, Trail, Baseline
<1> QED  BY <1>2, <1>3, <1>4, <1>5

LEMMA TrailAlways == SystemSpec => []TrailInv
<1>1. SystemInit => TrailInv
  BY InitTrail DEF SystemInit
<1> QED  BY <1>1, SystemTrail, PTL DEF SystemSpec

\* For any number of Runs, drafts and ceilings, and whatever crashes, humans and
\* scans do meanwhile: a Worker runs only with capabilities a recorded decision
\* granted and, where one is needed, a human consented to (orchestrator.py
\* _gate_policy, rework_builder's merged request).
THEOREM AlwaysAuthorised == SystemSpec => []GrantsAuthorised
  BY TrailAlways, TrailPromises, PTL

\* For the same, the contract, the decision and every rework contract are in the
\* tables before the Worker they are about starts (orchestrator.py).
THEOREM AuditedFirst == SystemSpec => []AuditedBeforeWork
  BY TrailAlways, TrailPromises, PTL

\* For any budget: neither the rework budget nor the turn ceiling is exceeded by
\* more than its check allows (orchestrator.py check_rework_budget, check_budget).
THEOREM BudgetsRespected == SystemSpec => []BudgetsHold
  BY TrailAlways, TrailPromises, PTL

\* For whatever Workers and checks leave behind: no Worker is blamed for what
\* was in its worktree before it started (orchestrator.py baseline_manifest).
THEOREM BaselineCurrent == SystemSpec => []BaselineIsCurrent
  BY TrailAlways, TrailPromises, PTL

\* The same of pipelines nobody interferes with.
THEOREM Alone ==
  Spec => [](GrantsAuthorised /\ AuditedBeforeWork /\ BudgetsHold /\ BaselineIsCurrent)
  BY InitTrail, AloneTrail, TrailPromises, PTL DEF Spec

\* What pipelines keep in memory and in the audit rows has its types.
THEOREM PipelineTypes == SystemSpec => []TypeOK
<1>1. IInv /\ TrailInv => TypeOK
  <2> SUFFICES ASSUME IInv, TrailInv
               PROVE  TypeOK
    OBVIOUS
  <2>1. /\ TableTypeOK /\ worktree \in [Run -> Manifest \union {None}]
        /\ \A r \in Run : orch[r].held \in Row \union {NoRow}
    BY DEF IInv, TablesInv, Owner
  <2>2. \A r \in Run : IsAudit(audit[r]) /\ Locals(orch[r])
    BY DEF TrailInv, Trails, Trail
  <2> QED  BY <2>1, <2>2 DEF TypeOK, IsAudit, Locals
<1> QED  BY <1>1, Invariant, TrailAlways, PTL

-----------------------------------------------------------------------------
(* What is offered for final approval, where pipelines are alone: a human  *)
(* may remove the worktree of a Run that is over.                          *)

Offers == {"AWAITING_FINAL_APPROVAL", "READY_FOR_MERGE"}

\* The worktree w is one whose checks and verdict allow it to be offered.
Offered(k, a, w) ==
    /\ w = k.frozen.result
    /\ \A c \in ByCommand : k.frozen.executions[c] = "expected"
    /\ \A p \in Path : w[p] # k.baseline[p] => InScope(p, k.grants.path_rules)
    /\ a.verdict.decision = "PASS"
    /\ \A c \in Mandatory : a.verdict.criteria[c] = "PASS" \/ c \in a.verdict.waived

\* The frozen result is of this attempt and of this worktree.
Frozen(k, w) ==
    \E result \in Manifest, executions \in Executions :
        k.frozen = freeze_and_validate(k.baseline, result, w, executions, k.grants.path_rules)

Offer(k, a, w, state) ==
    /\ k.pc \in {"executing", "budgeting", "working"} \union Working \union Reworking
          \/ Regating(k) => w \in Manifest
    /\ k.pc \in {"verifying", "verified"} => Frozen(k, w)
    /\ k.pc = "verified" => a.verdict = k.answer
    /\ k.pc = "awaiting_final" => Offered(k, a, w)
    /\ k.pc = "returned" /\ state \in Offers => Offered(k, a, w)
    /\ state \in Offers => k.pc \in {"dead", "awaiting_final", "returned"}

OfferShapes ==
    /\ Pipeline(orch)
    /\ DOMAIN audit = Run /\ audit = [r \in Run |-> audit[r]]
    /\ DOMAIN worktree = Run /\ worktree = [r \in Run |-> worktree[r]]
    /\ DOMAIN runs = Run /\ runs = [r \in Run |-> runs[r]]
    /\ \A r \in Run : IsAudit(audit[r])

OfferInv ==
    /\ OfferShapes
    /\ \A r \in Run : Offer(orch[r], audit[r], worktree[r], runs[r].state)

\* An accepted PASS is one the Harness found nothing against.
LEMMA AcceptedPass ==
  ASSUME NEW k, NEW a, NEW w, w \in Manifest, Frozen(k, w), a.verdict = k.answer,
         accepted_decision(k.answer, k.frozen) = "PASS"
  PROVE  Offered(k, a, w)
<1>1. PICK result \in Manifest, executions \in Executions :
         k.frozen = freeze_and_validate(k.baseline, result, w, executions, k.grants.path_rules)
  BY DEF Frozen
<1>2. k.answer.decision = "PASS" /\ Violations(k.answer, k.frozen) = {}
  BY DEF accepted_decision
<1>3. /\ find_pass_invariant_violations(k.answer) = {}
      /\ k.frozen.scope_violations = {}
      /\ find_check_execution_violations(k.frozen) = {}
  BY <1>2 DEF Violations
<1>4. /\ k.frozen.result = result /\ k.frozen.executions = executions
      /\ k.frozen.scope_violations =
           find_scope_violations(diff_manifests(k.baseline, result), k.grants.path_rules)
      /\ k.frozen.side_effects = Changed(diff_manifests(result, w))
  BY <1>1 DEF freeze_and_validate
<1>5. w = result
  <2>1. Changed(diff_manifests(result, w)) = {}
    BY <1>3, <1>4 DEF find_check_execution_violations
  <2>2. \A p \in Path : result[p] = w[p]
    BY <2>1 DEF Changed, diff_manifests
  <2> QED  BY <2>2 DEF Manifest
<1>6. \A c \in ByCommand : k.frozen.executions[c] = "expected"
  <2>1. {<<"check", c>> : c \in {m \in ByCommand : k.frozen.executions[m] # "expected"}} = {}
    BY <1>3 DEF find_check_execution_violations
  <2> QED  BY <2>1
<1>7. ASSUME NEW p \in Path, w[p] # k.baseline[p]
      PROVE  InScope(p, k.grants.path_rules)
  <2> DEFINE diff == diff_manifests(k.baseline, result)
             scope == k.grants.path_rules
  <2>1. p \in Changed(diff)
    BY <1>5, <1>7 DEF Changed, diff_manifests
  <2> HIDE DEF diff
  <2>2. find_scope_violations(diff, scope) = {}
    BY <1>3, <1>4 DEF diff
  <2> HIDE DEF scope
  <2>3. {<<"path", path>> : path \in {q \in Changed(diff) : ~InScope(q, scope)}} = {}
    BY <2>2 DEF find_scope_violations
  <2> QED  BY <2>1, <2>3 DEF scope
<1>8. ASSUME NEW c \in Mandatory
      PROVE  a.verdict.criteria[c] = "PASS" \/ c \in a.verdict.waived
  <2>1. {<<"mandatory", m>> : m \in
           {m \in Mandatory : /\ k.answer.criteria[m] # "PASS"
                              /\ ~(k.answer.criteria[m] = "WAIVED" /\ m \in k.answer.waived)}} = {}
    BY <1>3 DEF find_pass_invariant_violations
  <2> QED  BY <2>1
<1> QED  BY <1>2, <1>4, <1>5, <1>6, <1>7, <1>8 DEF Offered

InWorktree(k) ==
    \/ k.pc \in {"executing", "budgeting", "working"} \union Working \union Reworking
    \/ Regating(k)

\* Elsewhere than around a verdict there is little to show.
LEMMA NothingOffered ==
  ASSUME NEW k, NEW a, NEW w, NEW state, state \notin Offers,
         k.pc \notin {"verifying", "verified", "awaiting_final"},
         InWorktree(k) => w \in Manifest
  PROVE  Offer(k, a, w, state)
  BY DEF Offer, InWorktree

LEMMA DeadOffers ==
  ASSUME NEW a, NEW w, NEW state
  PROVE  Offer([Unstarted EXCEPT !.pc = "dead"], a, w, state)
<1> DEFINE k == [Unstarted EXCEPT !.pc = "dead"]
<1>1. k.pc = "dead"
  BY DEF Unstarted
<1> HIDE DEF k
<1>2. Offer(k, a, w, state)
  BY <1>1 DEF Offer, Regating, Gate, Working, Reworking
<1> QED  BY <1>2 DEF k

\* What one pipeline's step has to show; a and w are what it leaves.
OfferOnward(r) ==
    /\ Offer(orch'[r], audit'[r], worktree'[r], runs'[r].state)
    /\ \A x \in Run \ {r} : /\ orch'[x] = orch[x] /\ audit'[x] = audit[x]
                            /\ worktree'[x] = worktree[x] /\ runs'[x] = runs[x]
    /\ DOMAIN worktree' = Run /\ worktree' = [x \in Run |-> worktree'[x]]
    /\ DOMAIN runs' = Run /\ runs' = [x \in Run |-> runs'[x]]

\* The worktree is left alone, or left as w; of the audit only this Run's rows change.
LeftAs(r, w) ==
    \/ UNCHANGED worktree /\ w = worktree[r]
    \/ worktree' = [worktree EXCEPT ![r] = w]

AuditOf(r) == \A x \in Run \ {r} : audit'[x] = audit[x]

LEMMA WorktreeLeft ==
  ASSUME OfferShapes, NEW r \in Run, NEW w, LeftAs(r, w)
  PROVE  /\ worktree'[r] = w /\ \A x \in Run \ {r} : worktree'[x] = worktree[x]
         /\ DOMAIN worktree' = Run /\ worktree' = [x \in Run |-> worktree'[x]]
  BY DEF OfferShapes, LeftAs

LEMMA AuditLeft ==
  ASSUME OfferShapes, NEW r \in Run, NEW a, audit' = [audit EXCEPT ![r] = a]
  PROVE  AuditOf(r)
<1>1. DOMAIN audit = Run
  BY DEF OfferShapes
<1> QED  BY <1>1 DEF AuditOf

LEMMA OfferContinues ==
  ASSUME OfferShapes, NEW r \in Run, NEW k, Continue(r, k), UNCHANGED tableVars,
         NEW w, LeftAs(r, w), AuditOf(r), Offer(k, audit'[r], w, runs[r].state)
  PROVE  OfferOnward(r)
<1>1. orch'[r] = k /\ \A x \in Run \ {r} : orch'[x] = orch[x]
  BY DEF OfferShapes, Pipeline, Continue
<1>2. runs' = runs /\ DOMAIN runs = Run /\ runs = [x \in Run |-> runs[x]]
  BY DEF OfferShapes, tableVars
<1> QED  BY <1>1, <1>2, WorktreeLeft DEF OfferOnward, AuditOf

LEMMA OfferDies ==
  ASSUME OfferShapes, NEW r \in Run, Die(r), NEW w, LeftAs(r, w), AuditOf(r)
  PROVE  OfferOnward(r)
<1> DEFINE k == [Unstarted EXCEPT !.pc = "dead"]
<1>1. Offer(k, audit'[r], w, runs[r].state)
  BY DeadOffers
<1>2. Continue(r, k) /\ UNCHANGED tableVars
  BY DEF Die
<1> HIDE DEF k
<1> QED  BY <1>1, <1>2, OfferContinues

LEMMA OfferAdvances ==
  ASSUME OfferShapes, NEW r \in Run, NEW target, NEW k, IsPipeline(k), _advance(r, target, k),
         NEW w, LeftAs(r, w), AuditOf(r), Offer(k, audit'[r], w, target)
  PROVE  OfferOnward(r)
<1>1. CASE Die(r)
  BY <1>1, OfferDies
<1>2. CASE /\ Move(r, target, "orchestrator")
           /\ Continue(r, [k EXCEPT !.held = TransitionedRow(runs[r], target)])
  <2> DEFINE new == TransitionedRow(runs[r], target)
             m == [k EXCEPT !.held = new]
  <2>1. new.state = target
    BY DEF TransitionedRow
  <2>2. runs' = [runs EXCEPT ![r] = new] /\ Continue(r, m)
    BY <1>2 DEF Move
  <2> HIDE DEF new
  <2>3. /\ m.pc = k.pc /\ m.subject = k.subject /\ m.grants = k.grants
        /\ m.baseline = k.baseline /\ m.frozen = k.frozen /\ m.answer = k.answer
    BY DEF IsPipeline, Fields
  <2> HIDE DEF m
  <2>4. Offer(m, audit'[r], w, target)
    BY <2>3 DEF Offer, Regating, Offered, Frozen
  <2>5. orch'[r] = m /\ \A x \in Run \ {r} : orch'[x] = orch[x]
    BY <2>2 DEF OfferShapes, Pipeline, Continue
  <2>6. /\ runs'[r].state = target /\ \A x \in Run \ {r} : runs'[x] = runs[x]
        /\ DOMAIN runs' = Run /\ runs' = [x \in Run |-> runs'[x]]
    BY <2>1, <2>2 DEF OfferShapes
  <2> QED  BY <2>4, <2>5, <2>6, WorktreeLeft DEF OfferOnward, AuditOf
<1> QED  BY <1>1, <1>2 DEF _advance

LEMMA OfferFails ==
  ASSUME OfferShapes, NEW r \in Run, _fail(r), NEW w, LeftAs(r, w), AuditOf(r)
  PROVE  OfferOnward(r)
<1> DEFINE k == [orch[r] EXCEPT !.pc = "returned"]
<1>1. IsPipeline(k) /\ k.pc = "returned" /\ _advance(r, "FAILED", k)
  BY DEF OfferShapes, Pipeline, IsPipeline, Fields, _fail
<1> HIDE DEF k
<1>2. Offer(k, audit'[r], w, "FAILED")
  BY <1>1, NothingOffered DEF InWorktree, Regating, Gate, Working, Reworking, Offers
<1> QED  BY <1>1, <1>2, OfferAdvances

LEMMA OfferStarts ==
  ASSUME OfferInv, NEW r \in Run, start(r)
  PROVE  OfferOnward(r)
<1> DEFINE k == [Unstarted EXCEPT !.pc = "resolving", !.held = NewRow]
<1>1. k.pc = "resolving"
  BY DEF Unstarted
<1>2. Continue(r, k) /\ runs' = [runs EXCEPT ![r] = NewRow] /\ UNCHANGED <<audit, worktree>>
  BY DEF start, InsertRow
<1> HIDE DEF k
<1>3. Offer(k, audit[r], worktree[r], "CREATED")
  BY <1>1, NothingOffered DEF InWorktree, Regating, Gate, Working, Reworking, Offers
<1>4. NewRow.state = "CREATED"
  BY DEF NewRow
<1>5. orch'[r] = k /\ \A x \in Run \ {r} : orch'[x] = orch[x]
  BY <1>2 DEF OfferInv, OfferShapes, Pipeline, Continue
<1> QED  BY <1>2, <1>3, <1>4, <1>5 DEF OfferOnward, OfferInv, OfferShapes

\* Steps outside the verdict, by the point they lead to.
LEMMA PlainAdvance ==
  ASSUME OfferInv, NEW r \in Run, NEW target, target \notin Offers,
         NEW k, IsPipeline(k), _advance(r, target, k), NEW w, LeftAs(r, w), AuditOf(r),
         k.pc \notin {"verifying", "verified", "awaiting_final"},
         InWorktree(k) => w \in Manifest
  PROVE  OfferOnward(r)
  BY NothingOffered, OfferAdvances DEF OfferInv

LEMMA PlainContinue ==
  ASSUME OfferInv, NEW r \in Run, NEW k, Continue(r, k), UNCHANGED tableVars,
         NEW w, LeftAs(r, w), AuditOf(r),
         orch[r].pc \notin {"dead", "awaiting_final", "returned"},
         k.pc \notin {"verifying", "verified", "awaiting_final"},
         InWorktree(k) => w \in Manifest
  PROVE  OfferOnward(r)
<1>1. runs[r].state \notin Offers
  BY DEF OfferInv, Offer
<1> QED  BY <1>1, NothingOffered, OfferContinues DEF OfferInv

\* The audit inserts write one Run's row.
LEMMA Inserts ==
  ASSUME OfferInv, NEW r \in Run, Step(r) \/ HumanAnswers(r)
  PROVE  AuditOf(r)
<1>1. UNCHANGED audit => AuditOf(r)
  BY DEF AuditOf
<1>2. ASSUME NEW a, audit' = [audit EXCEPT ![r] = a]
      PROVE  AuditOf(r)
  <2>1. OfferShapes
    BY DEF OfferInv
  <2> QED  BY <1>2, <2>1, AuditLeft
<1>3. \/ UNCHANGED audit
      \/ insert_task_contract(r) \/ insert_rework_contract(r)
      \/ \E decision : insert_policy_decision(r, decision)
      \/ \E answer : insert_verification_result(r, answer)
      \/ audit' = [audit EXCEPT ![r].consented =
                                  @ \union orch[r].decision.approval_requirements]
      \/ audit' = [audit EXCEPT ![r].invocations = @ + 1]
  BY DEF Step, HumanAnswers, resolve_repository, invoke_planner, accept_contract, evaluate,
     act_on_decision, approval_answered, create_worktree, enter_executing, invoke_worker,
     worker_returns, enter_host_validating, host_validate, verify, conclude, rework,
     final_answered, enter_rework_contracting, reenter_contract_validating, reenter_preparing
<1> QED
  BY <1>1, <1>2, <1>3 DEF insert_task_contract, insert_rework_contract,
                          insert_policy_decision, insert_verification_result

LEMMA OfferPlans ==
  ASSUME OfferInv, NEW r \in Run, AuditOf(r),
         resolve_repository(r) \/ invoke_planner(r) \/ accept_contract(r) \/ evaluate(r)
  PROVE  OfferOnward(r)
<1> DEFINE o == orch[r]
           w == worktree[r]
<1>1. /\ IsPipeline(o) /\ Offer(o, audit[r], w, runs[r].state) /\ LeftAs(r, w) /\ OfferShapes
      /\ o.pc \in {"resolving", "planning", "validating", "gating"}
  BY DEF OfferInv, OfferShapes, Pipeline, LeftAs, resolve_repository, invoke_planner,
         accept_contract, evaluate, At
<1>2. CASE _fail(r)
  BY <1>1, <1>2, OfferFails
<1>3. CASE _advance(r, "PLANNING", [o EXCEPT !.pc = "planning"])
  <2> DEFINE k == [o EXCEPT !.pc = "planning"]
  <2>1. IsPipeline(k) /\ k.pc = "planning"
    BY <1>1 DEF IsPipeline, Fields
  <2> HIDE DEF k
  <2> QED
    BY <1>1, <1>3, <2>1, PlainAdvance
       DEF k, InWorktree, Regating, Gate, Working, Reworking, Offers
<1>4. ASSUME NEW draft \in Drafts, NEW used \in Turns,
             _advance(r, "CONTRACT_VALIDATING",
                      [o EXCEPT !.pc = "validating", !.contract = draft, !.turns = @ + used])
      PROVE  OfferOnward(r)
  <2> DEFINE k == [o EXCEPT !.pc = "validating", !.contract = draft, !.turns = @ + used]
  <2>1. IsPipeline(k) /\ k.pc = "validating"
    BY <1>1 DEF IsPipeline, Fields
  <2>2. _advance(r, "CONTRACT_VALIDATING", k)
    BY <1>4
  <2> HIDE DEF k
  <2> QED
    BY <1>1, <2>1, <2>2, PlainAdvance
       DEF InWorktree, Regating, Gate, Working, Reworking, Offers
<1>5. CASE /\ Continue(r, [o EXCEPT !.pc = "gating", !.subject = "contract",
                                    !.request = o.contract.request])
           /\ UNCHANGED tableVars
  <2> DEFINE k == [o EXCEPT !.pc = "gating", !.subject = "contract",
                            !.request = o.contract.request]
  <2>1. IsPipeline(k) /\ k.pc = "gating" /\ k.subject = "contract"
    BY <1>1 DEF IsPipeline, Fields
  <2>2. Continue(r, k) /\ UNCHANGED tableVars
    BY <1>5
  <2> HIDE DEF k
  <2> QED
    BY <1>1, <2>1, <2>2, PlainContinue DEF InWorktree, Regating, Gate, Working, Reworking
<1>6. CASE evaluate(r)
  <2> DEFINE decision == evaluate_policy(o.request, o.contract.scope, CeilingScope)
             k == [o EXCEPT !.pc = "decided", !.decision = decision]
  <2>1. Continue(r, k) /\ UNCHANGED tableVars /\ o.pc = "gating"
    BY <1>6 DEF evaluate, At
  <2> HIDE DEF decision
  <2>2. IsPipeline(k) /\ k.pc = "decided" /\ k.subject = o.subject
    BY <1>1 DEF IsPipeline, Fields
  <2> HIDE DEF k
  <2>3. InWorktree(k) => w \in Manifest
    BY <1>1, <2>1, <2>2 DEF Offer, InWorktree, Regating, Gate, Working, Reworking
  <2> QED  BY <1>1, <2>1, <2>2, <2>3, PlainContinue
<1> QED
  BY <1>2, <1>3, <1>4, <1>5, <1>6 DEF resolve_repository, invoke_planner, accept_contract

LEMMA AttemptPoint ==
  ASSUME NEW k, IsPipeline(k)
  PROVE  /\ NextAttempt(k).pc = "executing"
         /\ Granted(k).pc = IF k.subject = "contract" THEN "creating" ELSE "executing"
<1>1. ASSUME NEW m, IsPipeline(m)
      PROVE  NextAttempt(m).pc = "executing"
  <2> DEFINE failed == failed_criteria_ids_of(m.answer)
  <2>1. NextAttempt(m) = [m EXCEPT !.pc = "executing", !.baseline = m.frozen.post_test,
                                   !.previous = failed, !.attempt = @ + 1]
    BY Zenon DEF NextAttempt
  <2> HIDE DEF failed
  <2> QED  BY <1>1, <2>1 DEF IsPipeline, Fields
<1> DEFINE g == [k EXCEPT !.active = k.request, !.grants = k.decision.grants]
           c == [g EXCEPT !.pc = "creating"]
<1>2. Granted(k) = IF k.subject = "contract" THEN c ELSE NextAttempt(g)
  BY DEF Granted
<1>3. IsPipeline(g) /\ c.pc = "creating"
  BY DEF IsPipeline, Fields
<1> HIDE DEF c, g
<1> QED  BY <1>1, <1>2, <1>3

LEMMA OfferGates ==
  ASSUME OfferInv, NEW r \in Run, AuditOf(r),
         act_on_decision(r) \/ approval_answered(r) \/ create_worktree(r)
  PROVE  OfferOnward(r)
<1> DEFINE o == orch[r]
           w == worktree[r]
<1>1. IsPipeline(o) /\ Offer(o, audit[r], w, runs[r].state) /\ OfferShapes
  BY DEF OfferInv, OfferShapes, Pipeline
<1>2. CASE _fail(r) /\ LeftAs(r, w)
  BY <1>1, <1>2, OfferFails
<1>3. CASE /\ o.pc = "decided" /\ LeftAs(r, w)
           /\ _advance(r, "AWAITING_APPROVAL", [o EXCEPT !.pc = "awaiting_approval"])
  <2> DEFINE k == [o EXCEPT !.pc = "awaiting_approval"]
  <2>1. IsPipeline(k) /\ k.pc = "awaiting_approval" /\ k.subject = o.subject
    BY <1>1 DEF IsPipeline, Fields
  <2>2. _advance(r, "AWAITING_APPROVAL", k)
    BY <1>3
  <2> HIDE DEF k
  <2>3. InWorktree(k) => w \in Manifest
    BY <1>1, <1>3, <2>1 DEF Offer, InWorktree, Regating, Gate, Working, Reworking
  <2> QED  BY <1>1, <1>3, <2>1, <2>2, <2>3, PlainAdvance DEF Offers
<1>4. CASE /\ o.pc \in {"decided", "awaiting_approval"} /\ LeftAs(r, w)
           /\ _advance(r, "PREPARING_WORKSPACE", Granted(o))
  <2>1. IsPipeline(Granted(o))
    BY <1>1, GrantedShape
  <2>2. Granted(o).pc = IF o.subject = "contract" THEN "creating" ELSE "executing"
    BY <1>1, AttemptPoint
  <2>3. InWorktree(Granted(o)) => w \in Manifest
    BY <1>1, <1>4, <2>2 DEF Offer, InWorktree, Regating, Gate, Working, Reworking
  <2> QED  BY <1>1, <1>4, <2>1, <2>2, <2>3, PlainAdvance DEF Offers
<1>5. CASE create_worktree(r)
  <2>1. ASSUME worktree' = [worktree EXCEPT ![r] = Base], UNCHANGED tableVars,
               Continue(r, [o EXCEPT !.pc = "executing", !.baseline = Base])
        PROVE  OfferOnward(r)
    <3> DEFINE k == [o EXCEPT !.pc = "executing", !.baseline = Base]
    <3>1. k.pc = "executing" /\ o.pc = "creating"
      BY <1>1, <1>5 DEF IsPipeline, Fields, create_worktree, At
    <3>2. Continue(r, k) /\ LeftAs(r, Base) /\ Base \in Manifest
      BY <2>1, OrchestratorAssumption DEF LeftAs
    <3> HIDE DEF k
    <3> QED  BY <1>1, <2>1, <3>1, <3>2, PlainContinue
  <2> QED  BY <1>2, <1>5, <2>1 DEF create_worktree, LeftAs
<1> QED
  BY <1>2, <1>3, <1>4, <1>5 DEF act_on_decision, approval_answered, At, LeftAs

LEMMA OfferWorks ==
  ASSUME OfferInv, NEW r \in Run, AuditOf(r),
         enter_executing(r) \/ invoke_worker(r) \/ worker_returns(r) \/ enter_host_validating(r)
  PROVE  OfferOnward(r)
<1> DEFINE o == orch[r]
           w == worktree[r]
<1>1. /\ IsPipeline(o) /\ Offer(o, audit[r], w, runs[r].state) /\ OfferShapes
      /\ o.pc \in {"executing", "budgeting", "working", "freezing"}
  BY DEF OfferInv, OfferShapes, Pipeline, enter_executing, invoke_worker, worker_returns,
         enter_host_validating, At
<1>2. w \in Manifest
  BY <1>1 DEF Offer, Working
<1>3. CASE _advance(r, "EXECUTING", [o EXCEPT !.pc = "budgeting"]) /\ UNCHANGED worktree
  <2> DEFINE k == [o EXCEPT !.pc = "budgeting"]
  <2>1. IsPipeline(k) /\ k.pc = "budgeting"
    BY <1>1 DEF IsPipeline, Fields
  <2>2. _advance(r, "EXECUTING", k) /\ LeftAs(r, w)
    BY <1>3 DEF LeftAs
  <2> HIDE DEF k
  <2> QED  BY <1>2, <2>1, <2>2, PlainAdvance DEF Offers
<1>4. CASE Continue(r, [o EXCEPT !.pc = "working"]) /\ UNCHANGED <<tableVars, worktree>>
  <2> DEFINE k == [o EXCEPT !.pc = "working"]
  <2>1. k.pc = "working"
    BY <1>1 DEF IsPipeline, Fields
  <2>2. Continue(r, k) /\ LeftAs(r, w) /\ UNCHANGED tableVars
    BY <1>4 DEF LeftAs
  <2> HIDE DEF k
  <2> QED  BY <1>1, <1>2, <2>1, <2>2, PlainContinue
<1>5. CASE _advance(r, "HOST_VALIDATING", [o EXCEPT !.pc = "checking"]) /\ UNCHANGED worktree
  <2> DEFINE k == [o EXCEPT !.pc = "checking"]
  <2>1. IsPipeline(k) /\ k.pc = "checking"
    BY <1>1 DEF IsPipeline, Fields
  <2>2. _advance(r, "HOST_VALIDATING", k) /\ LeftAs(r, w)
    BY <1>5 DEF LeftAs
  <2> HIDE DEF k
  <2> QED  BY <1>2, <2>1, <2>2, PlainAdvance DEF Offers
<1>6. CASE _fail(r) /\ UNCHANGED worktree
  BY <1>1, <1>6, OfferFails DEF LeftAs
<1>7. CASE worker_returns(r)
  <2>1. PICK left \in Manifests : worktree' = [worktree EXCEPT ![r] = left]
    BY <1>2, <1>7, OrchestratorAssumption DEF worker_returns, Leaves
  <2>2. LeftAs(r, left) /\ left \in Manifest
    BY <2>1, OrchestratorAssumption DEF LeftAs
  <2>3. ASSUME NEW used \in Turns, NEW wanted \in Additional \union {None},
               _advance(r, "FREEZING_RESULT",
                     [o EXCEPT !.pc = "freezing", !.turns = @ + used, !.wanted = wanted])
        PROVE  OfferOnward(r)
    <3> DEFINE k == [o EXCEPT !.pc = "freezing", !.turns = @ + used, !.wanted = wanted]
    <3>1. IsPipeline(k) /\ k.pc = "freezing"
      BY <1>1 DEF IsPipeline, Fields
    <3>2. _advance(r, "FREEZING_RESULT", k)
      BY <2>3
    <3> HIDE DEF k
    <3> QED  BY <2>2, <3>1, <3>2, PlainAdvance DEF Offers
  <2> QED  BY <1>1, <1>7, <2>2, <2>3, OfferFails DEF worker_returns
<1> QED
  BY <1>3, <1>4, <1>5, <1>6, <1>7 DEF enter_executing, invoke_worker, enter_host_validating

LEMMA OfferChecks ==
  ASSUME OfferInv, NEW r \in Run, AuditOf(r), host_validate(r)
  PROVE  OfferOnward(r)
<1> DEFINE o == orch[r]
<1>1. /\ IsPipeline(o) /\ Offer(o, audit[r], worktree[r], runs[r].state) /\ OfferShapes
      /\ o.pc = "checking"
  BY DEF OfferInv, OfferShapes, Pipeline, host_validate, At
<1>2. worktree[r] \in Manifest /\ worktree[r] # None
  BY <1>1, OrchestratorAssumption DEF Offer, Working
<1>3. ASSUME NEW left \in Manifests \union {None}, NEW executions \in Executions,
             Leaves(r, left),
             _advance(r, "VERIFYING",
                  [o EXCEPT !.pc = "verifying",
                     !.frozen = freeze_and_validate(o.baseline, Walk(worktree[r]),
                                  Walk(left), executions, o.grants.path_rules)])
      PROVE  OfferOnward(r)
  <2> DEFINE f == freeze_and_validate(o.baseline, Walk(worktree[r]), Walk(left), executions,
                                      o.grants.path_rules)
             k == [o EXCEPT !.pc = "verifying", !.frozen = f]
  <2>1. left \in Manifest /\ left # None /\ LeftAs(r, left)
    BY <1>2, <1>3, OrchestratorAssumption DEF Leaves, LeftAs
  <2>2. f = freeze_and_validate(o.baseline, worktree[r], left, executions, o.grants.path_rules)
    BY <1>2, <2>1 DEF Walk
  <2>3. _advance(r, "VERIFYING", k)
    BY <1>3
  <2> HIDE DEF f
  <2>4. /\ IsPipeline(k) /\ k.pc = "verifying" /\ k.frozen = f /\ k.baseline = o.baseline
        /\ k.grants = o.grants
    BY <1>1 DEF IsPipeline, Fields
  <2> HIDE DEF k
  <2>5. Frozen(k, left)
    BY <1>2, <2>2, <2>4 DEF Frozen
  <2>6. Offer(k, audit'[r], left, "VERIFYING")
    BY <2>1, <2>4, <2>5 DEF Offer, Regating, Gate, Offers
  <2> QED  BY <1>1, <2>1, <2>3, <2>4, <2>6, OfferAdvances
<1> QED  BY <1>2, <1>3 DEF host_validate

LEMMA OfferVerifies ==
  ASSUME OfferInv, NEW r \in Run, AuditOf(r), verify(r)
  PROVE  OfferOnward(r)
<1> DEFINE o == orch[r]
           w == worktree[r]
<1>1. /\ IsPipeline(o) /\ Offer(o, audit[r], w, runs[r].state) /\ OfferShapes
      /\ o.pc = "verifying" /\ LeftAs(r, w) /\ IsAudit(audit[r])
  BY DEF OfferInv, OfferShapes, Pipeline, LeftAs, verify, At
<1>2. ASSUME NEW answer \in Answers, NEW used \in Turns, insert_verification_result(r, answer),
             Continue(r, [o EXCEPT !.pc = "verified", !.answer = answer, !.turns = @ + used]),
             UNCHANGED tableVars
      PROVE  OfferOnward(r)
  <2> DEFINE k == [o EXCEPT !.pc = "verified", !.answer = answer, !.turns = @ + used]
  <2>1. /\ k.pc = "verified" /\ k.answer = answer /\ k.frozen = o.frozen
        /\ k.baseline = o.baseline /\ k.grants = o.grants
    BY <1>1 DEF IsPipeline, Fields
  <2>2. Continue(r, k)
    BY <1>2
  <2> HIDE DEF k
  <2>3. audit'[r].verdict = answer
    BY <1>1, <1>2 DEF insert_verification_result, OfferShapes, IsAudit, AuditFields
  <2>4. Offer(k, audit'[r], w, runs[r].state)
    BY <1>1, <2>1, <2>3 DEF Offer, Frozen, Regating, Gate, Working
  <2> QED  BY <1>1, <1>2, <2>2, <2>4, OfferContinues
<1> QED  BY <1>1, <1>2, OfferFails DEF verify

LEMMA OfferConcludes ==
  ASSUME OfferInv, NEW r \in Run, AuditOf(r), conclude(r)
  PROVE  OfferOnward(r)
<1> DEFINE o == orch[r]
           w == worktree[r]
<1>1. /\ IsPipeline(o) /\ Offer(o, audit[r], w, runs[r].state) /\ OfferShapes
      /\ o.pc = "verified" /\ LeftAs(r, w) /\ w \in Manifest
  BY DEF OfferInv, OfferShapes, Pipeline, LeftAs, conclude, At, Offer, Working
<1>2. CASE _fail(r)
  BY <1>1, <1>2, OfferFails
<1>3. CASE Die(r)
  BY <1>1, <1>3, OfferDies
<1>4. CASE _advance(r, "AWAITING_MANUAL_REVIEW", [o EXCEPT !.pc = "returned"])
  <2> DEFINE k == [o EXCEPT !.pc = "returned"]
  <2>1. IsPipeline(k) /\ k.pc = "returned"
    BY <1>1 DEF IsPipeline, Fields
  <2>2. _advance(r, "AWAITING_MANUAL_REVIEW", k)
    BY <1>4
  <2> HIDE DEF k
  <2> QED  BY <1>1, <2>1, <2>2, PlainAdvance DEF Offers
<1>5. CASE /\ Accepted(r) = "PASS" /\ UNCHANGED audit
           /\ _advance(r, "AWAITING_FINAL_APPROVAL", [o EXCEPT !.pc = "awaiting_final"])
  <2> DEFINE k == [o EXCEPT !.pc = "awaiting_final"]
  <2>1. /\ IsPipeline(k) /\ k.pc = "awaiting_final" /\ k.frozen = o.frozen
        /\ k.baseline = o.baseline /\ k.grants = o.grants
    BY <1>1 DEF IsPipeline, Fields
  <2>2. _advance(r, "AWAITING_FINAL_APPROVAL", k)
    BY <1>5
  <2> HIDE DEF k
  <2>3. Offered(o, audit[r], w)
    BY <1>1, <1>5, AcceptedPass DEF Offer, Accepted
  <2>4. Offered(k, audit'[r], w)
    BY <1>5, <2>1, <2>3 DEF Offered
  <2>5. Offer(k, audit'[r], w, "AWAITING_FINAL_APPROVAL")
    BY <1>1, <2>1, <2>4 DEF Offer, Offers
  <2> QED  BY <1>1, <2>1, <2>2, <2>5, OfferAdvances
<1>6. CASE Continue(r, [o EXCEPT !.pc = "reworking"]) /\ UNCHANGED tableVars
  <2> DEFINE k == [o EXCEPT !.pc = "reworking"]
  <2>1. k.pc = "reworking"
    BY <1>1 DEF IsPipeline, Fields
  <2>2. Continue(r, k) /\ UNCHANGED tableVars
    BY <1>6
  <2> HIDE DEF k
  <2> QED  BY <1>1, <2>1, <2>2, PlainContinue
<1> QED  BY <1>2, <1>3, <1>4, <1>5, <1>6 DEF conclude, rework

LEMMA OfferAnswered ==
  ASSUME OfferInv, NEW r \in Run, AuditOf(r), final_answered(r)
  PROVE  OfferOnward(r)
<1> DEFINE o == orch[r]
           w == worktree[r]
           k == [o EXCEPT !.pc = "returned"]
<1>1. /\ IsPipeline(o) /\ Offer(o, audit[r], w, runs[r].state) /\ OfferShapes
      /\ o.pc = "awaiting_final" /\ LeftAs(r, w) /\ UNCHANGED audit
  BY DEF OfferInv, OfferShapes, Pipeline, LeftAs, final_answered, At
<1>2. /\ IsPipeline(k) /\ k.pc = "returned" /\ k.frozen = o.frozen
      /\ k.baseline = o.baseline /\ k.grants = o.grants
  BY <1>1 DEF IsPipeline, Fields
<1>3. PICK target \in {"READY_FOR_MERGE", "REWORK_CONTRACTING"} : _advance(r, target, k)
  BY DEF final_answered
<1> HIDE DEF k
<1>4. Offered(k, audit'[r], w)
  BY <1>1, <1>2 DEF Offer, Offered
<1>5. Offer(k, audit'[r], w, target)
  BY <1>2, <1>4 DEF Offer, Regating, Gate, Working, Reworking
<1> QED  BY <1>1, <1>2, <1>3, <1>5, OfferAdvances

LEMMA OfferReworks ==
  ASSUME OfferInv, NEW r \in Run, AuditOf(r),
         enter_rework_contracting(r) \/ reenter_contract_validating(r) \/ reenter_preparing(r)
  PROVE  OfferOnward(r)
<1> DEFINE o == orch[r]
           w == worktree[r]
<1>1. /\ IsPipeline(o) /\ Offer(o, audit[r], w, runs[r].state) /\ OfferShapes
      /\ o.pc \in Reworking /\ LeftAs(r, w)
  BY DEF OfferInv, OfferShapes, Pipeline, LeftAs, enter_rework_contracting,
         reenter_contract_validating, reenter_preparing, At, Reworking
<1>2. w \in Manifest
  BY <1>1 DEF Offer
<1>3. ASSUME NEW k, IsPipeline(k), NEW target \in {"REWORK_CONTRACTING", "CONTRACT_VALIDATING",
                                                   "PREPARING_WORKSPACE"},
             _advance(r, target, k),
             k.pc \notin {"verifying", "verified", "awaiting_final"}
      PROVE  OfferOnward(r)
  BY <1>1, <1>2, <1>3, PlainAdvance DEF Offers
<1>4. CASE enter_rework_contracting(r)
  <2> DEFINE k == [o EXCEPT !.pc = "revalidating"]
  <2>1. IsPipeline(k) /\ k.pc = "revalidating"
    BY <1>1 DEF IsPipeline, Fields
  <2>2. _advance(r, "REWORK_CONTRACTING", k)
    BY <1>4 DEF enter_rework_contracting
  <2> HIDE DEF k
  <2> QED  BY <1>3, <2>1, <2>2
<1>5. CASE reenter_contract_validating(r)
  <2> DEFINE merged == merge_requested_capabilities(o.active, o.wanted)
             same == [o EXCEPT !.pc = "repreparing"]
             more == [o EXCEPT !.pc = "gating", !.subject = "rework", !.request = merged]
  <2>1. _advance(r, "CONTRACT_VALIDATING", IF o.wanted = None THEN same ELSE more)
    BY <1>5 DEF reenter_contract_validating
  <2> HIDE DEF merged
  <2>2. /\ IsPipeline(same) /\ same.pc = "repreparing"
        /\ IsPipeline(more) /\ more.pc = "gating"
    BY <1>1 DEF IsPipeline, Fields
  <2> HIDE DEF same, more
  <2> QED  BY <1>3, <2>1, <2>2
<1>6. CASE reenter_preparing(r)
  BY <1>1, <1>3, <1>6, AttemptPoint, NextAttemptShape DEF reenter_preparing
<1> QED  BY <1>4, <1>5, <1>6

LEMMA OfferSteps ==
  ASSUME OfferInv, TrailInv', NEW r \in Run, start(r) \/ Step(r) \/ HumanAnswers(r)
  PROVE  OfferInv'
<1>1. OfferOnward(r)
  <2>1. CASE start(r)
    BY <2>1, OfferStarts
  <2>2. CASE Step(r) \/ HumanAnswers(r)
    BY <2>2, Inserts, OfferPlans, OfferGates, OfferWorks, OfferChecks, OfferVerifies,
       OfferConcludes, OfferAnswered, OfferReworks DEF Step, HumanAnswers
  <2> QED  BY <2>1, <2>2
<1>2. \A x \in Run : Offer(orch'[x], audit'[x], worktree'[x], runs'[x].state)
  BY <1>1 DEF OfferInv, OfferOnward
<1>3. OfferShapes'
  BY <1>1 DEF TrailInv, Shapes, Trails, Trail, OfferShapes, OfferOnward
<1> QED  BY <1>2, <1>3 DEF OfferInv

LEMMA InitOffer == Init => OfferInv
<1> SUFFICES ASSUME Init
             PROVE  OfferInv
  OBVIOUS
<1>1. /\ orch = [r \in Run |-> Unstarted] /\ audit = [r \in Run |-> NoAudit]
      /\ worktree = [r \in Run |-> None] /\ runs = [r \in Run |-> NoRow]
  BY DEF Init, TableInit, OrchestratorInit
<1>2. IsPipeline(Unstarted) /\ Unstarted.pc = "idle" /\ IsAudit(NoAudit) /\ NoRow.state = "ABSENT"
  BY DEF IsPipeline, Fields, Unstarted, IsAudit, AuditFields, NoAudit, NoRow
<1> DEFINE k == Unstarted
           a == NoAudit
           row == NoRow
<1>3. OfferShapes
  BY <1>1, <1>2 DEF OfferShapes, Pipeline
<1>4. \A r \in Run : /\ orch[r] = k /\ audit[r] = a /\ worktree[r] = None /\ runs[r] = row
  BY <1>1
<1>5. k.pc = "idle" /\ row.state = "ABSENT"
  BY <1>2
<1> HIDE DEF k, a, row
<1>6. Offer(k, a, None, row.state)
  BY <1>5 DEF Offer, Offers, Regating, Gate, Working, Reworking
<1> QED  BY <1>3, <1>4, <1>6 DEF OfferInv

\* For whatever Workers, checks and Verifiers do: what a pipeline offers for
\* final approval is the worktree its checks and the stored verdict are about
\* (orchestrator.py accepted_decision, host_validation.py freeze_and_validate).
THEOREM OnlyVerifiedOffered == Spec => []OfferedResultIsVerified
<1>1. OfferInv /\ TrailInv /\ [Next]_vars => OfferInv'
  <2> SUFFICES ASSUME OfferInv, TrailInv, [Next]_vars
               PROVE  OfferInv'
    OBVIOUS
  <2>1. TrailInv'
    BY AloneTrail
  <2>2. CASE Next
    BY <2>1, <2>2, OfferSteps DEF Next
  <2>3. CASE UNCHANGED vars
    BY <2>3 DEF vars, tableVars, OfferInv, OfferShapes, Pipeline
  <2> QED  BY <2>2, <2>3
<1>2. OfferInv => OfferedResultIsVerified
  BY DEF OfferInv, Offer, Offers, Offered, OfferedResultIsVerified
<1> QED  BY <1>1, <1>2, InitOffer, InitTrail, AloneTrail, PTL DEF Spec
=============================================================================
