# Formal model of the agent harness

TLA+ specifications of the harness in `src/agent_harness`, the TLC runs that
check them and the TLAPS proofs about them. Paths below are relative to
`src/agent_harness` unless they start with `tests/` or `docs/`.

The harness drives a *Run*: a Planner writes a task contract, a policy gate
grants it capabilities, a Worker changes a git worktree, the Harness freezes and
checks the result, a Verifier judges it, and humans approve. Every process that
takes part (the pipeline, the CLI commands, the recovery scan) shares only one
SQLite file, the worktrees and the blob directory. So the questions are: who may
move a Run when, what is on disk after any failure, and whether what a human is
offered is really what was checked.

## 1. Inventory

| Component (source) | State | Operations | Talks to |
|---|---|---|---|
| State machine kernel (`application/transitions.py`) | none (pure) | `can_transition`, `validate_transition`, `transition_run` | called inside `apply_transition` |
| SQLite store (`persistence/sqlite.py`, `migrations.py`) | tables `runs`, `journal_entries`, `failure_records`, audit tables, `artifacts`, `evidence` | `insert_*`, `get_*`, `list_*`, `apply_transition` | every process, through one write lock |
| Orchestrator (`application/orchestrator.py`, `usage.py`, `rework.py`) | local variables of one coroutine | `run_task_pipeline`, `_gate_policy`, `_invoke_role` | store, providers, worktree, human callbacks |
| Policy (`policy/*`) | none | `evaluate_policy`, `intersect_scope`, approvals | orchestrator |
| Scope rules (`execution/scope_guard.py`, `domain/validation.py`) | none | `find_scope_violations`, `is_scope_subset` | policy, verification, rework |
| Host validation, verification (`execution/evidence.py`, `validation.py`, `application/verification.py`) | manifests, frozen result | `freeze_and_validate`, `run_verification` | worktree, command broker, Verifier |
| Provider adapters (`providers/claude.py`, `codex.py`) | sessions, invocations, event lists | `start_invocation`, drain task, `stream_events`, `await_result`, `cancel`, `close_session` | vendor SDKs, orchestrator |
| Process runner (`execution/process.py`) | child, its tree, two pipes, two threads | `run_process` | operating system |
| Command broker, sandbox (`execution/command_broker.py`, `sandbox.py`) | none | `execute_command` | process runner, artifact store |
| Artifact store (`persistence/artifacts.py`, `execution/incident.py`, `cli._purge_evidence`) | blob files, tombstones, staging files | `write_blob`, purge, quarantine | store, broker, CLI |
| Workspace (`execution/workspace.py`, `git_client.py`) | worktrees, branches, lock file | `create_worktree`, `cleanup_worktree` | git, as a child process |
| CLI (`interfaces/cli.py`) | the row and journal entry it read | `approve`, `reject`, `resume`, `cancel`, `cleanup`, `status`, `report` | store, worktrees, blobs |
| Recovery (`application/recovery.py`) | the list of stale Runs it read | `run_recovery_scan` | store |
| MCP gateway (`execution/mcp_gateway.py`) | catalogue, rate-limit windows, audit blobs | `register`, `invoke_mcp_tool` | credential broker, transport; nothing under `src/` calls it yet |
| Registry, events (`providers/registry.py`, `capabilities.py`, `event_stream.py`) | providers, capability cache | `register`, `probe`, `probe_all`, `require_capabilities`, `normalize_events` | providers, callers |
| Reporting (`application/reporting.py`) | none | `build_final_manifest` | store, CLI |
| Retention | none | predicates | nothing |

What is hard:

* **Concurrency.** Several processes decide from rows they read earlier; the only
  thing between them is `expected_state_version`. Inside a process, asyncio tasks
  (drain, reader, deadline) and threads (`_drain`) interleave.
* **Failure.** Any statement may raise, any process may die between two steps: in
  the transaction, between audit inserts and the step they allow, between staging
  and renaming a blob, between a tombstone and an unlink.
* **Ordering.** Checks run between two freezes; a rework's baseline rolls on; a
  cancel may fall between two turns of a schema retry.
* **Time.** Stale thresholds, provider deadlines, process timeouts and caps race
  with late answers; a rate window forgets calls while limits change.
* **What is read before an await and used after it.** A tool's spec, a role's
  provider, a Run's row.

What makes each part correct (the properties named are the checked ones):
journal, row and failure record always agree (`JournalMatchesRun`,
`FailureRecorded`) and nobody commits from a stale row (`NoStaleCommit`); a fenced
pipeline never writes again (`NoZombieWrites`); no Worker runs with more than was
granted and consented to (`GrantsAuthorised`, `GrantNeverWider`) or without its
audit trail (`AuditedBeforeWork`); what is offered for approval is what was checked
(`OfferedResultIsVerified`, `BaselineIsCurrent`); loops and budgets end
(`BudgetsHold`, `Terminates`); no Run is abandoned
(`AbandonedRunsSettle`); an address never holds a partial blob (`BlobsAreWhole`);
output is reported exactly and nothing killed survives (`OutputReportedExactly`,
`KilledTreeIsDead`); no event is lost, no rejected answer returned, no retry after
a cancel (`ReaderMissesNothing`, `ResultIsOfLastTurn`, `CancelStopsRetries`); git is
never run twice at a time in a repository and a lease is only given for a whole
worktree (`AddsExclusive`, `ImplementsWorktrees`); a tool call goes out under an
approval of its very spec, within the limit, and is audited (`SentAsApproved`,
`RateHolds`, `AnswersAreAudited`); capability negotiation fails closed
(`NeverDowngraded`); a report is never torn backwards (`ReportReachesItsRun`).

## 2. Modules

```
Lifecycle ── RunLifecycle            table and kernel; the promise about one Run
                  │
             AtomicStore             one step, on a row the caller knew
               ▲  ▲  implement
SqliteStore ───┘  │                  statements of apply_transition
   └── Reporting  │                  a report read beside them           ── SqliteStoreProofs
                  └── System         everything that moves Runs          ── SystemProofs
RunTable ── Orchestrator ──┤         apply_transition as one step
   │ (Policy, Verification,│
   │  Scope)               │
   ├────── Cli ────────────┤
   └────── Recovery ───────┘
Scope ── ScopeGate                   request, ceiling, rework scopes     ── ScopeGateProofs
Worktrees ◄── Workspace              lock file, git's steps, clean-up    ── WorkspaceProofs
CheckedCommand ◄── ProcessRunner     one child process tree              ── ProcessRunnerProofs
BlobStore ◄── ArtifactStore          blobs, tombstones, rows             ── ArtifactStoreProofs
ProviderInvocation                   one invocation and its deadline     ─┐
ProviderRegistry                     capability cache and negotiation    ─┴ ProviderProofs
McpGateway                           calls of one tool                   ── McpGatewayProofs
```

An arrow is a refinement, stated with `INSTANCE ... WITH` and checked as a property:
`ImplementsAtomicStore` (in SqliteStore and in System), `ImplementsWorktrees`,
`ImplementsCheckedCommand` and `ImplementsBlobStore`. Each abstract module says what
the callers of a component rely on, with the component's own steps out of sight.

* **Lifecycle** is the transition table, `TransitionLegal` (everything
  `transition_run` refuses) and `TransitionedRow`. A row keeps state, version and
  disposition. **RunLifecycle** is the abstract specification: a Run is inserted
  new, moves along the table one version at a time and rests in terminal states.
  **AtomicStore** adds its callers: who remembers which row (`known`), and that a
  transition replaces a row its caller knew. It never mentions `expected_state_version`:
  that comparing versions comes to this is what has to be shown, by SqliteStore where
  a caller is a connection that holds one row between statements, and by System where a
  caller is a pipeline, a command or a scan (which remembers a list). `Known` in either
  module says what of its state stands for `known`.
* **SqliteStore** has one action per statement of `apply_transition`. A
  connection's uncommitted view of the tables is in `conn[c]`, the committed one in
  `runs`, `journal`, `failures`; `held` is the Run object its caller decides from,
  so that a caller can reuse what an earlier transition returned, as the pipeline
  does. `entry_hash` is modelled by the fields that tell entries apart (`Digest`).
* **RunTable** is the same store with `apply_transition` as one step (`Move` when
  `Applicable`). It is what the components above it use; that the store's transaction
  is one step to its callers is what AtomicStore states and SqliteStore is shown to
  implement.
* **Scope**: a glob is a model value with the set of paths it matches;
  `find_scope_violations`, `intersect_scope` and `is_scope_subset` work on that.
  `max_changed_bytes` is left out: it is `max_changed_files` weighted by size.
* **Policy**, **Verification**: operators without state, translated rule by rule.
* **Orchestrator**: `orch[r]` are the local variables of `run_task_pipeline`,
  `pc` its place, `audit[r]` the four audit tables. A step reaches from one
  database write or await to the next. `held` is the Run object the coroutine holds;
  `_advance` applies a transition with its version, and any refusal ends the
  process (`Die`). Providers and humans answer freely from small sets.
* **Cli**: each command reads the Run, perhaps the journal entry it shows, then
  applies; `cancel` and `cleanup` then remove the worktree. **Recovery**: the scan
  lists stale Runs at once and reconciles them one by one; it stops at the first
  conflict, as the code does. **System** composes them with a pipeline that may
  crash anywhere and a clock (`Age`).
* **ProcessRunner**: the child, one descendant (which may join the group or
  job, and inherit any of the pipes), both `_drain` threads, and `run_process`
  as the steps assign, poll, check limits, kill, wait, collect. Both platforms are
  initial states. A byte is counted, not named. **CheckedCommand** is what its caller
  sees: a command that writes, and one step that returns or raises. What is returned is
  final, exact about what is missing, and names a limit only if it was passed.
* **ArtifactStore**: each `write_blob` call is exists, stage, sync, rename, return,
  and then its metadata inserts; a deleter is `cleanup --purge` (list, count,
  tombstone, unlink) or the incident response (tombstone, unlink). **BlobStore** is what
  they come to: storing is one step, takes effect with the rename (or when the file is
  found), and a content goes only behind a tombstone of something that was stored.
* **ProviderInvocation**: `_invoke_role` with either adapter. An action is what
  happens between two awaits. The SDK is a turn that sends messages and ends with
  one of the answers the adapters distinguish. The reader is `stream_events` behind
  `normalize_events`; it may lose its stream and open it again further back.
* **Reporting**: the three reads of `build_final_manifest` that are compared with each
  other (Run, journal, failure records), each a statement of its own beside the
  transactions of SqliteStore.
* **Workspace**: `create_worktree` is resolve, open the lock file, write the process
  id, run git, return from git, unlink; `git worktree add` is a process of its own
  that makes the branch, then the directory, then checks files out; a cleaner is
  `cancel`'s and `cleanup`'s `_best_effort_worktree_cleanup`, which takes no lock. Any of them may
  be killed, git may fail at any step. **Worktrees** is what Orchestrator and Cli take
  all that for: a worktree comes into being whole, once, before its lease.
* **McpGateway**: calls of one tool. `invoke_mcp_tool` up to its first await is one
  action, the credential and the transport are awaited, and `register` may change
  the spec at any time. An approval is bound to the digest of a spec, here to the
  spec itself. `admitted` is a history variable: the calls the limiter let pass.
* **ProviderRegistry**: a probe runs without interruption but for the provider's
  answer; `probe_all` is a comprehension over the registry's own dict. `since` and
  `overlapped` are history variables: what a role's provider reported since it was
  registered, and whether that overlapped a probe.

`map` in PROJECT.json names the lines of every definition. Definitions named
`Mutant...` are deliberately wrong versions used to see that each property can fail.

## 3. Runs

| Run | Shows | Bounds |
|---|---|---|
| `sqlite_store` | Two callers of one Run and a report of it, any statement raising, any process dying: the tables agree, no stale commit, the lock is always given back, AtomicStore is implemented, a report is never torn backwards | 2 connections that come back (one wins, one is stale), `MaxVersion` 4: long enough for a Run to fail, be cancelled or come back to a state it was in |
| `grants` | What a policy decision grants, put to use. *Path rules*: for every contract, ceiling and rework scope over two overlapping patterns, grants are never wider than either side, nor a rework than its contract. *Tools*: calls of one MCP tool whose spec changes | 2 paths, 2 patterns, one matching both, all rule combinations; 3 calls, 2 specs opposite in every setting, an approval that expires and a refusal, a minute of 1 tick and a clock of 2: calls at, inside and outside the boundary |
| `orchestrator` | All a pipeline can do by itself; it ends or waits for a human | 1 Run, rework budgets 0 and 2, 2 paths (in and out of scope), 4 kinds of capability, 2 criteria; `MaxVersion` 30 never binds |
| `orchestrator_scope` | a disagreement with the documentation, section 6 | as above |
| `system` | One Run, its pipeline that may crash, two human processes (one with two commands, one with one) and a scan, in every order; AtomicStore is implemented; the Run settles if the scan is run again and again | thin data: what matters is who moves the Run; `MaxVersion` 40 never binds |
| `process_runner` | `run_process` always comes back, kills what it says, and implements CheckedCommand: its report is final and exact | cap 3, chunk 2, 5 and 3 bytes: chunks end before, at, across and after the cap |
| `process_outlives` | section 6 | as above |
| `artifact_store` | Writers and deleters at one or two contents: whole files, no silent loss, BlobStore is implemented | 3 writers in 2 Runs, 2 contents, 2 deleters |
| `provider` | *Invocation*: both adapters, retries, turns that hang, deadline, cancel, reader. *Registry*: probes of one role or all against registrations and restarts | 2 schema retries, one message before the last, readers from the start or (Claude) after the first event; 2 roles, 2 providers, 2 callers, 2 axes, drivers that differ on both |
| `provider_deadline` | section 6 | 1 schema retry |
| `workspace` | Creations, git processes and cleaners in one repository | 3 Runs (one holds the lock, one waits and gives up, one comes after), 2 cleaners |
| `mcp_audit` | section 6 | as `grants`, 2 calls |

`grants` and `provider` each hold two parts that share no state (`MCGrants`,
`MCProvider`). Interleaving the steps of both would show nothing that neither shows
alone, so each behaviour is one of a single part, chosen in the initial state; the
fairness of an invocation asks nothing of a behaviour in which none starts.

Every type invariant is a theorem (section 4), as are `FailureRecorded`,
`CopiesAreVersioned`, `SlotsOnlyForAuthorised`, `CachedPerRegistration`,
`OutputReportedExactly` (which `ImplementsCheckedCommand` contains) and
`ImplementsRunLifecycle`, which follows from `ImplementsAtomicStore`; that of
Orchestrator, whose states are the largest, is also checked with TLC.

Fairness, and why the code justifies it:

* `sqlite_store`: `WF(Statement(c))`. `apply_transition` is straight-line
  synchronous code: a begun transaction runs its next statement, or raises, or dies.
* `orchestrator`: `WF(Step(r))`, not of the human's answers. A provider step returns
  because `_invoke_role` bounds it. That is `InvocationEnds`, with its two exceptions
  and its assumption on the SDK (below and section 6), and that starting an invocation,
  which has no deadline, returns.
* `system`: `WF(Time)` and `WF(Scans)`: time passes, and whoever operates the
  harness keeps running the scan. Nothing under `src/` schedules it; without that
  assumption a crashed Run stays where it is.
* `workspace`: `WF(Step(r))` and `WF(GitStep(r))`: straight-line code and its deadline
  go on, and git ends by itself. Nobody is bound to start, to clean up or to stay alive.
* `process_runner`: the loop, the two threads and the clock go on; nothing is
  assumed of the child and its descendant.
* `provider`, `provider_deadline` (`Fairness`): the harness's coroutines and clock go
  on; the SDK answers the calls an invocation makes of it (the next turn, the interrupt)
  and ends a turn that it was told to interrupt. Nothing makes any other turn end: only
  the deadline and the cancel do, which is what `InvocationEnds` is about. Without the
  assumption on interrupted turns nothing could be said, since `cancel` waits for the
  turn without a deadline of its own.

Some runs say `CHECK_DEADLOCK FALSE`: there the system may really stop (a Run that
rests in a terminal state, an invocation that has ended, commands used up).

## 4. Proofs

All theorems hold for every value of the constants that satisfies the named
assumptions of the modules. The inductive invariant is given where it is not the
property itself.

`SqliteStoreProofs`, for every set of Runs and connections and every `MaxVersion`,
from `StoreAssumption` alone (`NoConn` is no connection, `NoRun` no Run):

* `TypeCorrect`, `JournalAlwaysMatches`, `FailureAlwaysRecorded`, `NeverStale`;
* `Refinement`: `Spec => ImplementsAtomicStore`, and `LifecycleRefinement`:
  `Spec => ImplementsRunLifecycle`.
* `ReportsOnlyRead`: `ReportSpec => Spec`, so that all of these hold while reports are
  built; `ReportTypeCorrect` and `ReportsReach`;
* `TransactionsAdvance`: nobody takes the write lock from its holder, and each step of
  the holder is the next of the five statements or gives the lock up. This is the part
  of `WriteLockReleased` that needs no fairness.

The properties of the committed tables are not inductive: `Commit` publishes
whatever the connection accumulated. The invariant `IInv` adds what that is:
`LockInv` (exactly the holder of the write lock is inside a transaction), `HeldInv`
(what a caller holds is never ahead of the committed row, and is that row at the
same version) and `TransactionInv` (at each point of the transaction, the
connection's view is the committed one plus exactly the statements executed so far,
of a move the kernel allows from the committed row). Each action has its lemma
(`SelectRunStep` ... `CommitStep`); steps that change only one connection share
`LocalStep`. `AccountsExtended` is the core: appending the entry of a legal move and
moving the row keeps the journal an account of it. `NeverStale` and `Refinement`
follow because only `insert_run` and `Commit` change a row. For `Refinement` the
committing connection must have known the row it replaces: it held a row of the same
version, and by `HeldInv` that is the row. What any other statement leaves in `held` is
committed or was there before (`LearnsRow`, `KeepsRow`). `ReportsReach` rests on
`TablesGrow`: journals and failure records are only ever extended, so what a report
reads later reaches at least to the Run it read first (`CommittedReached`).

`ScopeGateProofs`, for every finite set of paths, every set of patterns and whatever
they match, and every set of contracts and ceilings, from `ScopeAssumption` (paths
are finitely many, `NoLimit` is no number) and `GateAssumption`:

* `GrantsNeverWider` and `ReworksNeverWider`.

The invariant says only that `granted` is the meet of what is in effect and the
ceiling, and that what is in effect is a subset of the contract's scope. The work is
in the lemmas about the rules: `PathsShrink` (path rules), `BudgetsShrink` (with
fewer exempt paths a smaller limit is exceeded earlier), `NarrowerPermits` (a scope
narrower rule by rule permits no change the wider one refuses) and `MeetIsNarrower`
(`intersect_scope` is narrower than both its arguments). `NarrowerPermits` needs the
generated paths to shrink as well, which `is_scope_subset` does not ask for: hence
`ReworksNeverWider` speaks of all changes only for a rework that declares no more paths
generated, and of single paths for any (section 6).

`SystemProofs`, for any number of Runs, commands and scans, whatever providers and
humans answer, and crashes anywhere. About what they do to each other's Runs:

* `TypeCorrect`, `Versioned`, `NoZombies`, `ScanSpares`, `ShownIsDecided`,
  `RemovedWhenOver`;
* `Refinement`: `SystemSpec => ImplementsAtomicStore`, and `LifecycleRefinement`:
  `SystemSpec => ImplementsRunLifecycle`;
* by that refinement, from RunLifecycle alone: `RecordsAccount` (one failure record
  exactly for a Run that FAILED, and the disposition names the terminal state) and
  `OverForGood` (neither the row nor the failure records of a Run that is over change).

`CopiesAreVersioned` is the core of the invariant `IInv`: a copy of a row is the
committed one or has an older version. Each actor needs one more fact about its copy:
nobody else has moved the row a pipeline holds while the versions agree (`Owner`),
what a command shows is no older than what it applies (`Commander`), what a scan
listed was untouched at that version (`Listing`). All that matters of a pipeline's
step to the others is `PipelineStep`, which every action is shown to be. `Refinement`
turns `CopiesAreVersioned` into knowledge: a row moved with the current version is one
the mover read or was returned (`PipelineAtomic`, `CommandAtomic`, `ScanAtomic`), and no
step leaves anyone with a row that is neither committed nor known before (`Learning`).

About a pipeline, its audit rows and its worktree:

* `PipelineTypes`, `AlwaysAuthorised`, `AuditedFirst`, `BudgetsRespected`,
  `BaselineCurrent`, all of `SystemSpec`; `Alone`, the same of Orchestrator's `Spec`;
* `OnlyVerifiedOffered`, of `Spec`: once a Run is READY_FOR_MERGE a human may remove
  its worktree, so in the composition it does not hold.

The properties speak of one point (where a Worker runs, where a result is offered);
the invariant `TrailInv` says what holds at every point on the way there: how many
contracts, rework contracts and invocations there are at attempt n (`Counts`), that
the decision being acted on is the recorded one on exactly the request (`Authority`),
and that a worktree that still exists is the baseline, or the frozen post-test
manifest the baseline will be (`Baseline`). For `OnlyVerifiedOffered`, `OfferInv` adds
that the frozen result is of this attempt and this worktree (`Frozen`), and
`AcceptedPass` that a PASS the Harness lets stand means all the property says.
`OrchestratorAssumption` asks for a number of turns an invocation can use.

`WorkspaceProofs`, for any number of Runs and cleaners:

* `TypeCorrect`, `Exclusive`, `LockLeft`, and `Implements`:
  `Spec => ImplementsWorktrees`; from module Worktrees alone, `LeasesWereMade` (no lease is
  out for a worktree that was never whole) and `RemovedForGood` (a worktree that is gone
  is not made again).

The invariant ties the lock file to its owner and the owner to its git process: a git
process only runs under a lock file that its creation made, alive or dead. That a
killed creation leaves its lock behind is what makes `Exclusive` hold.

`McpGatewayProofs`, for any number of calls, specs and approvals:

* `TypeCorrect`, `Sent`, `Rate`, `Slots`, `Audited`.

For `Rate` the window in memory is not enough, since a check forgets what is older
than its own minute: the invariant says that all the calls admitted within a minute of
now are still in the window. For `Audited` the invariant also says that a call has no
record before it is answered, and none if it raised; that is how the code behaves, not
what it promises (section 6).

`ProviderProofs`, about the registry, from `RegistryAssumption` (among others, roles
are finitely many):

* `RegistryTypeCorrect`, `Cached`, `FailsClosed`, `AllProbed`. The second and third
  except a role that was registered anew while a probe of it waited (`overlapped`): there
  the cache, and with it the answer to a requirement, is the old provider's (section 6);

and about an invocation, for every number of retries and of messages, every reader
and every place it resumes from, from the assumptions ProviderInvocation names:

* `InvocationTypeCorrect`, `NothingMissed`, `LastTurnsResult`, `NothingRunsBehind`,
  `CancelStops`;
* `EventsAreFinal`: the list of events only grows at its end and is whole once the
  invocation is done, which is what every cursor rests on; after that only a cancel
  writes to the result.

These speak of an invocation that has ended or of a reader at the end of its list, so
the invariant has to say what holds on the way there. `TaskInv` says, for each place of
the task that drains the SDK, which turn runs and how many there were; `CallerInv` that
`_invoke_role` only has an outcome once the task is done, and only cancels while it
waits; `CancelInv` that after a cancel at most the turn being started may follow;
`ResultInv` that a result is only there once the last turn has ended. For the reader,
`Numbered` says the event at position i has number i-1, `ReaderHolds` that what the
reader has taken and not yet looked at is a part of that list, and `ReaderInStep` that
what it got is the part from its first number to its last. Resuming further back then
only repeats numbers the cursor filter drops.

`ProcessRunnerProofs`, for every cap, chunk size and amount of output, on both
platforms:

* `TypeCorrect`, `ReportedExactly` (per stream, kept, dropped and unread bytes add up to
  those written) and `KilledIsDead`;
* `Implements`: `Spec => ImplementsCheckedCommand`, and from the abstract command alone
  `ReportsAreFinal`: once it has returned, neither the report nor what it speaks of changes.

For `Implements`, `StopInv` adds why the command ended: a limit that is named was passed, and
a child has only been killed for one. That nothing is written after a result follows
from `Ended`: a thread only ends once nobody holds its pipe.

`ArtifactStoreProofs`, for any number of writers, contents, Runs and deleters, and
without any assumption on them:

* `TypeCorrect`, `BlobsAlwaysWhole` and `NothingEverLostSilently`;
* `Implements`: `Spec => ImplementsBlobStore`, and from the abstract store alone
  `GivenIsReadable`: an Artifact that was given out can be read, or its tombstone is
  there.

The invariant adds what is known at each place: a staging file is whole once it is
synced, so a rename publishes only whole files (`WriterInv`); a content that was
returned to a caller is `Accounted` for, by its blob or by its tombstone, and stays
so; a deleter unlinks only behind a tombstone (`DeleterInv`), and tombstones are
never removed. `BlobsAreWhole` is needed for itself: a writer that finds a file
trusts it.

Every safety property and action property of a passing run is a theorem.
Model-checked only: liveness under fairness (`WriteLockReleased`, `Terminates`, `AbandonedRunsSettle`, `RunProcessEnds`,
`InvocationEnds`, `CreationEnds`), which, like ENABLED and induction over data, is out
of the prover's reach.

## 5. What is not modelled

* `policy/approvals.py`: the pipeline uses it only with an approval it has just made,
  which `approval_answered` takes as given. The bindings of an approval are modelled
  where they can be wrong, in McpGateway.
* Command broker and sandboxes: a check is how it ended (`Execution`). The broker puts
  `run_process` and `write_blob` in sequence without state of its own; what it may rely
  on of either is CheckedCommand and BlobStore.
* Test doubles of providers, replay, and resuming a session.
* The Claude adapter's `can_use_tool` and its path checks.
* Retention predicates: nothing calls them.
* Texts, prompts, digest formats, JSON, printing, timestamps beyond fresh/stale.
* Claude's TIMED_OUT status, which depends on a stop reason (`claude.py:344`); an answer
  of a provider's probe that was computed before its driver restarted, within one await
  (`registry.py:51`).
* Redaction and the size quota of `write_blob`; `read_blob`, which only reads.
* Process ids that are reused by another process between the reap and the kill.

## 6. Findings

Checked by a run that finds the violation:

* **`orchestrator_scope`** (`orchestrator.py:876`). Scope violations only turn a PASS
  down. If the attempt that changed an out-of-scope path ends in REWORK, its final
  manifest becomes the next baseline; the change is in no later diff, and the Run can
  become READY_FOR_MERGE with it, although the Worker was told that changes outside
  its scope are rejected regardless.
* **`process_outlives`** (`process.py:265`). After a clean exit on POSIX the group is
  looked up through a process id already reaped, so it is never killed. Orchestrator takes a
  check to be over when it has ended: what such a descendant still writes into the
  worktree after the last freeze is not in the model. With ContainerSandbox the child is
  docker's client (`sandbox.py:200`); the container is no descendant of it, so a kill
  need not reach it either.

* **`provider_deadline`** (`codex.py:502`). `thread.turn` of a schema retry is awaited
  outside any `try`. If it raises, the task dies without setting `done`: the deadline
  passes, `cancel` interrupts the turn that is over and then waits for `done` for ever
  (`codex.py:622`), so the session is not closed and `PipelineTimeoutError` not raised,
  against the docstring of `_invoke_role` (`orchestrator.py:306`-`317`). The same happens if
  the cancel comes while `thread.turn` is awaited: it interrupts the old turn, and the new one
  may hang. These are the two exceptions of `InvocationEnds`.
* **`mcp_audit`** (`mcp_gateway.py:332`). A call that passed every gate and ends with any
  exception but an `McpGatewayError` (of the credential broker, the transport or the
  serialisation, or a cancelled task) leaves no record, although `_write_audit` (line 227),
  `invoke_mcp_tool` (line 277) and `docs/architecture/mcp-gateway.md` (line 49) promise one
  for every call. `AnswersAreAudited` is what holds: of calls that are answered.

Seen while modelling, present in the models unless said otherwise, with no run of
their own. Pipelines:

* The loop compares the attempt with the Planner's own `budget_request`; the ceiling's
  `max_rework_iterations` is compared with a counter that nothing increments
  (`orchestrator.py:829`).
* The cancel after the deadline waits for the SDK without a deadline
  (`orchestrator.py:361`), and so do the calls that start a session and an invocation,
  which come before `wait_for`. `Fairness` assumes that the interrupt works;
  `InvocationEnds` is about invocations that have started.
* A cancel that misses the new turn of a retry lets at most that one run on, which is
  what `CancelStopsRetries` says.
* `docs/architecture/rework-lifecycle.md:59` still names an attempt's *result* manifest as the
  next baseline; the code takes the post-test manifest (`orchestrator.py:868`-`876`), which
  is what `BaselineIsCurrent` needs.
* A repository that cannot be resolved asks for CREATED -> FAILED, which the table
  does not have: `IllegalTransition` leaves the pipeline and the Run stays CREATED,
  which the scan never looks at (`resolve_repository` in Orchestrator dies).
* A REWORK answer with no failed criterion makes `build_rework_contract` raise; the Run
  stays VERIFYING until the scan fails it (`rework`).
* A pipeline between PREPARING_WORKSPACE and the worktree when its Run is cancelled
  still creates the worktree (`orchestrator.py:642`); only a later `cleanup` removes it.
* `is_scope_subset` does not compare `declared_generated_paths`, so a scope it accepts
  may permit changes its parent refuses. The only caller passes the parent's scope;
  `ReworkNeverWider` is what holds in general.

Humans and the scan:

* A PASS with violations becomes a manual review; one `approve` takes it to final
  approval and a second to READY_FOR_MERGE (`cli.py:121`). `OfferedResultIsVerified`
  therefore speaks of what the pipeline itself offers (`mover = "orchestrator"`).
* A Run a human rejects at final approval rests in REWORK_CONTRACTING; nothing drives
  it, and the next scan makes it FAILED.
* `harness approve` while a pipeline waits in its own callback moves the Run on; the
  pipeline dies of the conflict when its callback answers.
* A report may be torn forwards: it shows a Run and a journal that is already longer.
  A reader can tell by comparing the count with the version.

Worktrees and blobs:

* The lock file of a creation that was killed, or could not write its process id, is
  never reclaimed (`docs/CODEX_REVIEW_RESPONSE.md` says so): every later creation in
  that repository times out. It is also what keeps a git process that outlives its
  creation from running beside the next one.
* A `git worktree add` that fails or is killed leaves its branch; `cleanup` finds no
  worktree and does not delete it. The half-made worktree of a killed git stays locked
  by git, so that `--force` clean-up is refused.
* Purge reads the reference count and unlinks later; another Run's writer may have found
  the blob and recorded its Artifact in between. The blob goes, its tombstone stays,
  which is what `NothingLostSilently` says; the promise in
  `count_artifacts_with_content_digest`'s docstring, that a purge never deletes a blob
  another row refers to, does not hold under that race. (Nothing under `src/` inserts
  Artifact rows yet; the model takes the inserts from the tests.)

Processes, events, tools:

* A descendant that keeps a pipe open makes `run_process` raise `queue.Empty` after 5 s
  although the check itself ended; on Windows a check that exits before it is assigned to
  the job makes it raise `AttributeError` (`gives_up`, `kill_rest`).
* `event_stream.py`'s docstring calls a different event at a number already seen a hard
  error; the code compares only the numbers. That is enough as long as adapters number
  their events without gaps, which they do.
* A provider registered for a role while the old one is being probed finds the old
  one's answer in the cache and may be told to meet what it does not; an answer stays
  cached when the driver restarts (`registry.py:51`). `probe_all` iterates the live dict: a role added meanwhile
  makes it raise.
* An MCP call is counted before its credential is awaited, so that calls may be sent
  closer together than they were counted; that await has no deadline; `single_use` is not
  enforced.

## 7. Plan

1. `execute_command` over CheckedCommand and BlobStore, which put its two components'
   promises together.
2. `create_approval` and `resolve_decision_with_approval` with approvals that come from
   outside, once something under `src/` accepts such approvals.
