-------------------------------- MODULE Cli --------------------------------
(***************************************************************************)
(* The harness commands that change a Run, each its own process: read the  *)
(* Run, perhaps show what it waits on, then apply a transition with the    *)
(* version read.  approve and reject act on whatever the Run waits on,     *)
(* resume takes it out of RECOVERY_REQUIRED, cancel stops it and removes   *)
(* its worktree, cleanup removes the worktree of a finished Run.  Other    *)
(* actors may act between any two of these steps.                          *)
(***************************************************************************)
EXTENDS RunTable

CONSTANTS Cli,         \* processes a human runs commands in
          MaxCommands  \* bound: commands run in each of them

ASSUME CliAssumption == MaxCommands \in [Cli -> Nat]

VARIABLE cli

NoCommand(left) ==
    [pc |-> "idle", run |-> None, verb |-> None, target |-> None,
     held |-> NoRow,      \* run, as read
     shown |-> None,      \* to_version of the journal entry described to the human
     left |-> left]

CliInit == cli = [c \in Cli |-> NoCommand(MaxCommands[c])]

_AWAITING_APPROVE_TARGET ==
    [AWAITING_APPROVAL |-> "PREPARING_WORKSPACE",
     AWAITING_FINAL_APPROVAL |-> "READY_FOR_MERGE",
     AWAITING_MANUAL_REVIEW |-> "AWAITING_FINAL_APPROVAL"]

_AWAITING_REJECT_TARGET ==
    [AWAITING_APPROVAL |-> "FAILED",
     AWAITING_FINAL_APPROVAL |-> "REWORK_CONTRACTING",
     AWAITING_MANUAL_REVIEW |-> "REWORK_CONTRACTING"]

\* A command reads the Run and does not refuse it.
Begin(c, r, pc, verb, target) ==
    /\ cli[c].pc = "idle" /\ cli[c].left > 0
    /\ runs[r] # NoRow
    /\ cli' = [cli EXCEPT ![c] = [NoCommand(@.left - 1) EXCEPT
                 !.pc = pc, !.run = r, !.verb = verb, !.target = target, !.held = runs[r]]]
    /\ UNCHANGED <<tableVars, worktree>>

approve(c, r) ==
    /\ runs[r].state \in DOMAIN _AWAITING_APPROVE_TARGET
    /\ Begin(c, r, "showing", "approve", _AWAITING_APPROVE_TARGET[runs[r].state])

reject(c, r) ==
    /\ runs[r].state \in DOMAIN _AWAITING_REJECT_TARGET
    /\ Begin(c, r, "showing", "reject", _AWAITING_REJECT_TARGET[runs[r].state])

resume(c, r) ==
    /\ runs[r].state = "RECOVERY_REQUIRED"
    /\ \E to \in RECOVERY_RESTART_TARGETS : Begin(c, r, "applying", "resume", to)

cancel(c, r) ==
    /\ runs[r].state \notin TERMINAL_LIFECYCLE_STATES
    /\ Begin(c, r, "applying", "cancel", "CANCELLED")

cleanup(c, r) ==
    /\ runs[r].state \in TERMINAL_LIFECYCLE_STATES
    /\ Begin(c, r, "removing", "cleanup", None)

\* The last journal entry's pending action is described; it may be later than
\* the Run that was read.
list_journal_entries(c) ==
    /\ cli[c].pc = "showing"
    /\ cli' = [cli EXCEPT ![c].pc = "applying", ![c].shown = runs[cli[c].run].version]
    /\ UNCHANGED <<tableVars, worktree>>

\* The process ends, whatever it did; so it does when it is killed.
Exit(c) == cli' = [cli EXCEPT ![c] = NoCommand(@.left)]

MutantApply(c) ==
    /\ cli[c].pc = "applying"
    /\ IF Applicable(cli[c].run, cli[c].held, cli[c].target)
       THEN Move(cli[c].run, cli[c].target, "cli") ELSE UNCHANGED tableVars
    /\ \/ Exit(c)
       \/ cli[c].verb = "cancel" /\ cli' = [cli EXCEPT ![c].pc = "removing"]
    /\ UNCHANGED worktree

\* apply_transition moves the Run or raises; cancel goes on to the worktree if
\* --source-repo was given.
apply(c) ==
    /\ cli[c].pc = "applying"
    /\ IF Applicable(cli[c].run, cli[c].held, cli[c].target)
       THEN /\ Move(cli[c].run, cli[c].target, "cli")
            /\ \/ Exit(c)
               \/ cli[c].verb = "cancel" /\ cli' = [cli EXCEPT ![c].pc = "removing"]
       ELSE UNCHANGED tableVars /\ Exit(c)
    /\ UNCHANGED worktree

\* Nothing to remove, a removal that git refuses, or one it makes.
_best_effort_worktree_cleanup(c) ==
    /\ cli[c].pc = "removing"
    /\ \/ UNCHANGED worktree
       \/ worktree' = [worktree EXCEPT ![cli[c].run] = None]
    /\ Exit(c)
    /\ UNCHANGED tableVars

kill(c) ==
    /\ cli[c].pc # "idle"
    /\ Exit(c)
    /\ UNCHANGED <<tableVars, worktree>>

CliStep(c) ==
    \/ \E r \in Run : \/ approve(c, r) \/ reject(c, r) \/ resume(c, r)
                      \/ cancel(c, r) \/ cleanup(c, r)
    \/ list_journal_entries(c) \/ apply(c)
    \/ _best_effort_worktree_cleanup(c) \/ kill(c)

CliState ==
    [pc : {"idle", "showing", "applying", "removing"}, run : Run \union {None},
     verb : {"approve", "reject", "resume", "cancel", "cleanup", None},
     target : LifecycleState \union {None}, held : Row \union {NoRow},
     shown : Nat \union {None}, left : Nat]

CliTypeOK ==
    /\ cli \in [Cli -> CliState]
    /\ \A c \in Cli : cli[c].left <= MaxCommands[c]
=============================================================================
