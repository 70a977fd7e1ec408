------------------------------- MODULE System -------------------------------
(***************************************************************************)
(* Everything that moves Runs, together: pipelines, which may crash, the   *)
(* commands of humans and the recovery scan, sharing nothing but the       *)
(* tables and the worktrees.  What keeps them apart is the version each    *)
(* passes with the transition it asks for.                                 *)
(***************************************************************************)
EXTENDS Orchestrator, Cli, Recovery

systemVars == <<tableVars, worktree, orch, audit, cli, listed>>

SystemInit == Init /\ CliInit /\ RecoveryInit

Pipelines == /\ \/ Next
                \/ \E r \in Run : crash(r)
             /\ UNCHANGED <<cli, listed>>

Humans == (\E c \in Cli : CliStep(c)) /\ UNCHANGED <<orch, audit, listed>>

Scans == (\E s \in Scanner : ScanStep(s)) /\ UNCHANGED <<orch, audit, cli>>

Time == (\E r \in Run : Age(r)) /\ UNCHANGED <<orch, audit, cli, listed>>

SystemNext == Pipelines \/ Humans \/ Scans \/ Time

\* Time passes, and whoever operates the harness keeps running the scan.
Fairness == WF_systemVars(Time) /\ WF_systemVars(Scans)

SystemSpec == SystemInit /\ [][SystemNext]_systemVars /\ Fairness

-----------------------------------------------------------------------------
(* Properties.                                                             *)

SystemTypeOK ==
    /\ TableTypeOK
    /\ \A r \in Run : orch[r].held \in Row \union {NoRow}
    /\ CliTypeOK
    /\ worktree \in [Run -> Manifest \union {None}]
    /\ listed \in [Scanner -> [Run -> Row \union {NoRow}]]

\* A row held in memory is one the table had: never ahead of it, and the very
\* same row while the version is the same.
OneOf(held, r) ==
    held = NoRow \/ (/\ runs[r] # NoRow
                     /\ held.version <= runs[r].version
                     /\ held.version = runs[r].version => held = runs[r])

\* Comparing versions is enough to know that nothing has changed: every copy
\* any process acts on, however old, is told from the committed row by it.
CopiesAreVersioned ==
    /\ \A r \in Run : OneOf(orch[r].held, r)
    /\ \A c \in Cli : cli[c].run # None => OneOf(cli[c].held, cli[c].run)
    /\ \A s \in Scanner, r \in Run : OneOf(listed[s][r], r)

Moved(r, actor) == /\ runs[r] # NoRow
                   /\ runs'[r] # runs[r]
                   /\ mover'[r] = actor

\* Once a human or the scan has moved a Run, its pipeline never moves it again,
\* even if the Run is brought back to the state the pipeline last saw.
NoZombieWrites ==
    [][\A r \in Run : Moved(r, "orchestrator") => mover[r] \in {"nobody", "orchestrator"}]_systemVars

\* The scan never moves a Run that was touched within stale_after, though it
\* looked at the clock and the row some steps before.
ScanNeverMovesFreshRun ==
    [][\A r \in Run : Moved(r, "recovery-coordinator") => ~fresh[r]]_systemVars

\* A human approves or rejects what was described to them: the pending action
\* shown is the one of the row the decision moves.
DecidesWhatWasShown ==
    [][\A c \in Cli :
         cli[c].shown # None /\ Moved(cli[c].run, "cli") /\ cli'[c].pc = "idle" =>
             cli[c].shown = runs[cli[c].run].version]_systemVars

\* A worktree is only removed once its Run has reached a terminal state.
WorktreeOnlyRemovedWhenOver ==
    [][\A r \in Run : worktree[r] # None /\ worktree'[r] = None =>
                          runs[r].state \in TERMINAL_LIFECYCLE_STATES]_systemVars

\* The rows that pipelines, commands and scans hold.
Known ==
    UNION {{<<<<"pipeline", r>>, <<r, orch[r].held>>>> :
               r \in {x \in Run : orch[x].held # NoRow}},
           {<<<<"command", c>>, <<cli[c].run, cli[c].held>>>> :
               c \in {x \in Cli : cli[x].held # NoRow}},
           {<<<<"scan", s[1]>>, <<s[2], listed[s[1]][s[2]]>>>> :
               s \in {x \in Scanner \X Run : listed[x[1]][x[2]] # NoRow}}}

Callers == ({"pipeline"} \X Run) \union ({"command"} \X Cli) \union ({"scan"} \X Scanner)

Atomic == INSTANCE AtomicStore WITH Caller <- Callers, known <- Known

\* Each moves a Run only from a row it has read itself and nobody has replaced
\* since: all any of them needs of the store is AtomicStore, which SqliteStore
\* implements.
ImplementsAtomicStore == Atomic!AtomicSpec

\* Together they move Runs only as the persistence layer promises.
ImplementsRunLifecycle == Atomic!Spec

\* Where a Run may rest: it is over, or a human is expected to act on it.
Settled == TERMINAL_LIFECYCLE_STATES \union PENDING_ACTION_REQUIRED_STATES \union {"CREATED"}

\* No Run is left behind in an active state: when its pipeline is gone, the
\* scan takes it to where a human sees it.
AbandonedRunsSettle ==
    \A r \in Run :
        orch[r].pc \in {"dead", "returned"} ~> runs[r].state \in Settled
=============================================================================
