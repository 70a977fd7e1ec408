------------------------------ MODULE Workspace ------------------------------
(***************************************************************************)
(* How a worktree is made and removed: create_worktree under the lock file *)
(* of its repository id, the `git worktree add` it runs as a child         *)
(* process, and the clean-up of `harness cancel` and `harness cleanup`,    *)
(* which takes no lock.  A process may be killed anywhere; its git child   *)
(* goes on without it, and its lock file stays.                            *)
(***************************************************************************)
EXTENDS Naturals

CONSTANTS Run,         \* Runs; each has one pipeline, which creates one worktree
          Repository,  \* repository ids
          RepoOf,      \* the repository id of each Run
          Cleaner,     \* processes that run cancel or cleanup
          None

ASSUME WorkspaceAssumption ==
    /\ RepoOf \in [Run -> Repository]
    /\ None \notin Run

VARIABLES lockfile,  \* locks/<repository_id>.lock: the Run whose process made it
          creating,  \* where each pipeline is in create_worktree
          git,       \* its `git worktree add`
          branch,    \* the Runs whose branch exists
          dir,       \* the directory at worktree_path_for
          cleaning   \* what each cleaner is doing

vars == <<lockfile, creating, git, branch, dir, cleaning>>
onDisk == <<branch, dir>>

Idle == [pc |-> "idle", run |-> None]

Init ==
    /\ lockfile = [k \in Repository |-> None]
    /\ creating = [r \in Run |-> "not yet"]
    /\ git = [r \in Run |-> "not started"]
    /\ branch = {}
    /\ dir = [r \in Run |-> "absent"]
    /\ cleaning = [c \in Cleaner |-> Idle]

GoesTo(r, pc) == creating' = [creating EXCEPT ![r] = pc]

LockOf(r) == lockfile[RepoOf[r]]

-----------------------------------------------------------------------------
(* create_worktree and RepoLock.                                            *)

\* The base commit resolves, or does not, before the lock is asked for.
create_worktree(r) ==
    /\ creating[r] = "not yet"
    /\ GoesTo(r, "waiting") \/ GoesTo(r, "raised")
    /\ UNCHANGED <<lockfile, git, onDisk, cleaning>>

\* O_CREAT | O_EXCL.  While the file is there the loop sleeps and tries again.
open_lock(r) ==
    /\ creating[r] = "waiting"
    /\ LockOf(r) = None
    /\ lockfile' = [lockfile EXCEPT ![RepoOf[r]] = r]
    /\ GoesTo(r, "opened")
    /\ UNCHANGED <<git, onDisk, cleaning>>

MutantTimesOut(r) ==
    /\ creating[r] = "waiting"
    /\ LockOf(r) # None
    /\ lockfile' = [lockfile EXCEPT ![RepoOf[r]] = None]
    /\ GoesTo(r, "raised")
    /\ UNCHANGED <<git, onDisk, cleaning>>

MutantNeverTimesOut(r) ==
    /\ creating[r] = "waiting" /\ LockOf(r) = r
    /\ GoesTo(r, "raised")
    /\ UNCHANGED <<lockfile, git, onDisk, cleaning>>

\* The deadline passed and the last try found the file: WorkspaceLockTimeoutError.
times_out(r) ==
    /\ creating[r] = "waiting"
    /\ LockOf(r) # None
    /\ GoesTo(r, "raised")
    /\ UNCHANGED <<lockfile, git, onDisk, cleaning>>

\* os.write of the process id.  If it raises, so does __enter__, and the file
\* is left: __exit__ only runs once __enter__ has returned.
write_pid(r) ==
    /\ creating[r] = "opened"
    /\ GoesTo(r, "holding") \/ GoesTo(r, "stranded")
    /\ UNCHANGED <<lockfile, git, onDisk, cleaning>>

\* The parent directory cannot be made, or git is started.
run_git(r) ==
    /\ creating[r] = "holding"
    /\ \/ GoesTo(r, "failing") /\ UNCHANGED git
       \/ GoesTo(r, "adding") /\ git' = [git EXCEPT ![r] = "started"]
    /\ UNCHANGED <<lockfile, onDisk, cleaning>>

MutantGitReturns(r) ==
    /\ creating[r] = "adding"
    /\ git[r] \in {"succeeded", "failed", "killed"}
    /\ GoesTo(r, "succeeding")
    /\ UNCHANGED <<lockfile, git, onDisk, cleaning>>

\* check=True turns git's return code into GitCommandError.
git_returns(r) ==
    /\ creating[r] = "adding"
    /\ \/ git[r] = "succeeded" /\ GoesTo(r, "succeeding")
       \/ git[r] \in {"failed", "killed"} /\ GoesTo(r, "failing")
    /\ UNCHANGED <<lockfile, git, onDisk, cleaning>>

\* Ctrl-C: subprocess.run kills the child and waits for it before it raises.
interrupt(r) ==
    /\ creating[r] = "adding"
    /\ GoesTo(r, "failing")
    /\ git' = [git EXCEPT ![r] = IF @ \in {"started", "checking out"} THEN "killed" ELSE @]
    /\ UNCHANGED <<lockfile, onDisk, cleaning>>

MutantExit(r) ==
    /\ creating[r] \in {"succeeding", "failing"}
    /\ lockfile' = IF creating[r] = "failing" THEN lockfile
                   ELSE [lockfile EXCEPT ![RepoOf[r]] = None]
    /\ GoesTo(r, IF creating[r] = "succeeding" THEN "leased" ELSE "raised")
    /\ UNCHANGED <<git, onDisk, cleaning>>

\* __exit__, whether or not the body raised; then the lease is returned.
exit(r) ==
    /\ creating[r] \in {"succeeding", "failing"}
    /\ lockfile' = [lockfile EXCEPT ![RepoOf[r]] = None]
    /\ GoesTo(r, IF creating[r] = "succeeding" THEN "leased" ELSE "raised")
    /\ UNCHANGED <<git, onDisk, cleaning>>

Ended == {"leased", "raised", "stranded", "killed"}

\* The process is killed: nothing is unwound, and git is not told.
kill(r) ==
    /\ creating[r] \notin Ended \union {"not yet"}
    /\ GoesTo(r, "killed")
    /\ UNCHANGED <<lockfile, git, onDisk, cleaning>>

-----------------------------------------------------------------------------
(* git (external): `worktree add -b` makes the branch, then the directory,  *)
(* which it keeps locked while it checks files out; when it fails it        *)
(* removes the directory, not the branch.  (It would refuse a branch that   *)
(* is there already, but nobody else makes the branch of this Run.)         *)

worktree_add(r) ==
    /\ git[r] = "started"
    /\ branch' = branch \union {r}
    /\ \/ git' = [git EXCEPT ![r] = "checking out"] /\ dir' = [dir EXCEPT ![r] = "partial"]
       \/ git' = [git EXCEPT ![r] = "failed"] /\ UNCHANGED dir
    /\ UNCHANGED <<lockfile, creating, cleaning>>

checkout(r) ==
    /\ git[r] = "checking out"
    /\ \/ git' = [git EXCEPT ![r] = "succeeded"] /\ dir' = [dir EXCEPT ![r] = "whole"]
       \/ git' = [git EXCEPT ![r] = "failed"] /\ dir' = [dir EXCEPT ![r] = "absent"]
    /\ UNCHANGED <<lockfile, creating, branch, cleaning>>

Running(r) == git[r] \in {"started", "checking out"}

kill_git(r) ==
    /\ Running(r)
    /\ git' = [git EXCEPT ![r] = "killed"]
    /\ UNCHANGED <<lockfile, creating, onDisk, cleaning>>

\* The lock `worktree add` holds on its worktree outlives it when it is killed.
LockedByGit(r) == dir[r] = "partial" /\ git[r] \in {"checking out", "killed"}

-----------------------------------------------------------------------------
(* A cleaner.                                                               *)

\* worktree_path.exists(), for whichever Run; where there is none it ends.
_best_effort_worktree_cleanup(c, r) ==
    /\ cleaning[c] = Idle
    /\ dir[r] # "absent"
    /\ cleaning' = [cleaning EXCEPT ![c] = [pc |-> "removing", run |-> r]]
    /\ UNCHANGED <<lockfile, creating, git, onDisk>>

\* `git worktree remove --force` refuses a locked worktree and one that another
\* cleaner removed, may fail, even half-way, or removes the directory.
worktree_remove(c) ==
    LET r == cleaning[c].run IN
    /\ cleaning[c].pc = "removing"
    /\ \/ cleaning' = [cleaning EXCEPT ![c] = Idle] /\ UNCHANGED dir
       \/ /\ dir[r] # "absent" /\ ~LockedByGit(r)
          /\ \/ /\ dir' = [dir EXCEPT ![r] = "absent"]
                /\ cleaning' = [cleaning EXCEPT ![c] = [pc |-> "unbranching", run |-> r]]
             \/ /\ dir' = [dir EXCEPT ![r] = "partial"]
                /\ cleaning' = [cleaning EXCEPT ![c] = Idle]
    /\ UNCHANGED <<lockfile, creating, git, branch>>

\* `git branch -D`, check=False.
branch_delete(c) ==
    /\ cleaning[c].pc = "unbranching"
    /\ branch' \in {branch, branch \ {cleaning[c].run}}
    /\ cleaning' = [cleaning EXCEPT ![c] = Idle]
    /\ UNCHANGED <<lockfile, creating, git, dir>>

kill_cleaner(c) ==
    /\ cleaning[c] # Idle
    /\ cleaning' = [cleaning EXCEPT ![c] = Idle]
    /\ UNCHANGED <<lockfile, creating, git, onDisk>>

-----------------------------------------------------------------------------
\* The process goes on, whatever befalls it.
Step(r) ==
    \/ open_lock(r) \/ times_out(r) \/ write_pid(r) \/ run_git(r)
    \/ git_returns(r) \/ exit(r)

GitStep(r) == worktree_add(r) \/ checkout(r)

Clean(c) ==
    \/ \E r \in Run : _best_effort_worktree_cleanup(c, r)
    \/ worktree_remove(c) \/ branch_delete(c) \/ kill_cleaner(c)

Next ==
    \/ \E r \in Run : \/ create_worktree(r) \/ Step(r) \/ interrupt(r) \/ kill(r)
                      \/ GitStep(r) \/ kill_git(r)
    \/ \E c \in Cleaner : Clean(c)

\* Straight-line code goes on and git ends by itself; nobody is bound to start.
Fairness == \A r \in Run : WF_vars(Step(r)) /\ WF_vars(GitStep(r))

Spec == Init /\ [][Next]_vars /\ Fairness

-----------------------------------------------------------------------------
(* Properties.                                                              *)

Holding == {"opened", "holding", "adding", "succeeding", "failing"}

TypeOK ==
    /\ lockfile \in [Repository -> Run \union {None}]
    /\ creating \in [Run -> {"not yet", "waiting"} \union Holding \union Ended]
    /\ git \in [Run -> {"not started", "started", "checking out", "succeeded", "failed", "killed"}]
    /\ branch \in SUBSET Run
    /\ dir \in [Run -> {"absent", "partial", "whole"}]
    /\ cleaning \in [Cleaner -> [pc : {"idle", "removing", "unbranching"},
                                 run : Run \union {None}]]

\* What the lock is for: in one repository no two `git worktree add` ever run
\* at a time, not even when the process that started one was killed and its
\* child goes on, or when a waiter gives up.
AddsExclusive ==
    \A r, q \in Run :
        r # q /\ RepoOf[r] = RepoOf[q] => ~(Running(r) /\ Running(q))

\* RepoLock is held "only for the duration of worktree creation": a lock file
\* that stays behind is that of a process that was killed, or that could not
\* write its process id.
LockOnlyLeftByCasualties ==
    \A k \in Repository :
        LET r == lockfile[k] IN
        r # None => creating[r] \in Holding \union {"killed", "stranded"}

\* Whoever asks for a worktree gets a lease or an exception, unless killed: no
\* waiter waits for ever, whatever became of the lock's holder.
CreationEnds == \A r \in Run : creating[r] = "waiting" ~> creating[r] \in Ended

\* To the components above, which take no part in any of this, create_worktree
\* is one step that makes a whole worktree, and removal one that takes it away.
Above == INSTANCE Worktrees WITH
    worktree <- [r \in Run |-> CASE git[r] # "succeeded" -> "never made"
                                 [] git[r] = "succeeded" /\ dir[r] = "whole" -> "whole"
                                 [] OTHER -> "removed"],
    leased   <- {r \in Run : creating[r] = "leased"}

ImplementsWorktrees == Above!WorktreesSpec
=============================================================================
