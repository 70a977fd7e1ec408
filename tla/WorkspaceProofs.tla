--------------------------- MODULE WorkspaceProofs ---------------------------
(***************************************************************************)
(* Proofs about Workspace, for any number of Runs, repositories and        *)
(* cleaners.  The inductive invariant says who owns a lock file: whoever   *)
(* is inside the `with` block, and, when that process was killed, still    *)
(* the git it started.                                                     *)
(***************************************************************************)
EXTENDS Workspace, TLAPS

\* Inside the block the lock file is one's own.
HoldersOwn == \A r \in Run : creating[r] \in Holding => LockOf(r) = r

\* A lock file is of a Run of its repository that has not left the block.
OwnersHold ==
    \A k \in Repository :
        lockfile[k] # None =>
            /\ RepoOf[lockfile[k]] = k
            /\ creating[lockfile[k]] \in Holding \union {"killed", "stranded"}

\* A git that runs does so under the lock of its Run.
GitIsLocked ==
    \A r \in Run : Running(r) => LockOf(r) = r /\ creating[r] \in {"adding", "killed"}

\* What create_worktree knows of its git.
GitIsKnown ==
    \A r \in Run :
        /\ creating[r] \in {"not yet", "waiting", "opened", "holding", "stranded"} =>
             git[r] = "not started"
        /\ creating[r] \in {"succeeding", "leased"} => git[r] = "succeeded"

CleanersKnowTheirRun == \A c \in Cleaner : cleaning[c].pc # "idle" => cleaning[c].run \in Run

IInv ==
    /\ TypeOK
    /\ HoldersOwn
    /\ OwnersHold
    /\ GitIsLocked
    /\ GitIsKnown
    /\ CleanersKnowTheirRun

-----------------------------------------------------------------------------
LEMMA InitIInv == Init => IInv
<1> SUFFICES ASSUME Init PROVE IInv
  OBVIOUS
<1> USE WorkspaceAssumption DEF Init
<1>1. TypeOK
  BY DEF TypeOK, Idle, Holding, Ended
<1>2. HoldersOwn /\ OwnersHold /\ GitIsLocked /\ GitIsKnown
  BY DEF HoldersOwn, OwnersHold, GitIsLocked, GitIsKnown, Running, Holding
<1>3. CleanersKnowTheirRun
  BY DEF CleanersKnowTheirRun, Idle
<1> QED  BY <1>1, <1>2, <1>3 DEF IInv

\* What a cleaner does concerns no lock and no git.
LEMMA CleaningKeeps ==
  ASSUME IInv, NEW c \in Cleaner, Clean(c)
  PROVE  IInv'
<1>1. UNCHANGED <<lockfile, creating, git>>
  BY DEF Clean, _best_effort_worktree_cleanup, worktree_remove, branch_delete, kill_cleaner
<1>2. /\ branch' \in SUBSET Run
      /\ dir' \in [Run -> {"absent", "partial", "whole"}]
  BY DEF IInv, TypeOK, CleanersKnowTheirRun, Clean, _best_effort_worktree_cleanup, worktree_remove,
         branch_delete, kill_cleaner, onDisk
<1>3. \/ cleaning' = [cleaning EXCEPT ![c] = Idle]
      \/ \E r \in Run, pc \in {"removing", "unbranching"} :
           cleaning' = [cleaning EXCEPT ![c] = [pc |-> pc, run |-> r]]
  <2>1. CASE \E r \in Run : _best_effort_worktree_cleanup(c, r)
    BY <2>1 DEF _best_effort_worktree_cleanup
  <2>2. CASE worktree_remove(c)
    <3>1. cleaning[c].run \in Run
      BY <2>2 DEF worktree_remove, IInv, CleanersKnowTheirRun
    <3> QED  BY <2>2, <3>1 DEF worktree_remove
  <2>3. CASE branch_delete(c) \/ kill_cleaner(c)
    BY <2>3 DEF branch_delete, kill_cleaner
  <2> QED  BY <2>1, <2>2, <2>3 DEF Clean
<1>4. /\ cleaning' \in [Cleaner -> [pc : {"idle", "removing", "unbranching"},
                                    run : Run \union {None}]]
      /\ CleanersKnowTheirRun'
  <2>1. cleaning \in [Cleaner -> [pc : {"idle", "removing", "unbranching"},
                                  run : Run \union {None}]]
    BY DEF IInv, TypeOK
  <2>2. CASE cleaning' = [cleaning EXCEPT ![c] = Idle]
    BY <2>1, <2>2 DEF IInv, CleanersKnowTheirRun, Idle
  <2>3. ASSUME NEW r \in Run, NEW pc \in {"removing", "unbranching"},
               cleaning' = [cleaning EXCEPT ![c] = [pc |-> pc, run |-> r]]
        PROVE  /\ cleaning' \in [Cleaner -> [pc : {"idle", "removing", "unbranching"},
                                             run : Run \union {None}]]
               /\ CleanersKnowTheirRun'
    BY <2>1, <2>3 DEF IInv, CleanersKnowTheirRun
  <2> QED  BY <1>3, <2>2, <2>3
<1>5. TypeOK'
  BY <1>1, <1>2, <1>4 DEF IInv, TypeOK
<1> QED
  BY <1>1, <1>4, <1>5 DEF IInv, HoldersOwn, OwnersHold, GitIsLocked, GitIsKnown, LockOf, Running

\* A step of a pipeline that neither makes nor removes a lock file, or of git.
LEMMA StepKeeps ==
  ASSUME IInv, NEW r \in Run,
         NEW pc \in {"waiting", "raised", "holding", "adding", "stranded", "succeeding",
                     "failing", "killed"} \union {creating[r]},
         NEW g \in {"started", "checking out", "succeeded", "failed", "killed"} \union {git[r]},
         UNCHANGED <<lockfile, cleaning>>,
         branch' \in SUBSET Run, dir' \in [Run -> {"absent", "partial", "whole"}],
         creating' = [creating EXCEPT ![r] = pc], git' = [git EXCEPT ![r] = g],
         pc \in Holding => creating[r] \in Holding,
         creating[r] \in Holding \union {"stranded", "killed"} =>
             pc \in Holding \union {"stranded", "killed"},
         g \in {"started", "checking out"} =>
             LockOf(r) = r /\ pc \in {"adding", "killed"},
         pc \in {"not yet", "waiting", "opened", "holding", "stranded"} => g = "not started",
         pc \in {"succeeding", "leased"} => g = "succeeded"
  PROVE  IInv'
<1> USE WorkspaceAssumption DEF IInv
<1>1. /\ creating'[r] = pc /\ git'[r] = g
      /\ \A q \in Run \ {r} : creating'[q] = creating[q] /\ git'[q] = git[q]
  BY DEF TypeOK
<1>2. TypeOK'
  <2>1. git[r] \in {"not started", "started", "checking out", "succeeded", "failed", "killed"}
        /\ creating[r] \in {"not yet", "waiting"} \union Holding \union Ended
    BY DEF TypeOK
  <2>2. pc \in {"not yet", "waiting"} \union Holding \union Ended
    BY <2>1 DEF Holding, Ended
  <2>3. g \in {"not started", "started", "checking out", "succeeded", "failed", "killed"}
    BY <2>1
  <2> QED  BY <2>2, <2>3 DEF TypeOK
<1>3. HoldersOwn'
  BY <1>1, ZenonT(30) DEF HoldersOwn, LockOf
<1>4. OwnersHold'
  <2> SUFFICES ASSUME NEW k \in Repository, lockfile[k] # None
               PROVE  /\ RepoOf[lockfile[k]] = k
                      /\ creating'[lockfile[k]] \in Holding \union {"killed", "stranded"}
    BY DEF OwnersHold
  <2> DEFINE owner == lockfile[k]
  <2>1. owner \in Run
    BY DEF TypeOK
  <2>2. RepoOf[owner] = k /\ creating[owner] \in Holding \union {"killed", "stranded"}
    BY DEF OwnersHold
  <2> HIDE DEF owner, IInv
  <2>3. creating'[owner] \in Holding \union {"killed", "stranded"}
    <3>1. CASE owner = r
      BY <1>1, <2>2, <3>1
    <3>2. CASE owner # r
      BY <1>1, <2>1, <2>2, <3>2
    <3> QED  BY <3>1, <3>2
  <2> QED  BY <2>2, <2>3 DEF owner
<1>5. GitIsLocked'
  BY <1>1 DEF GitIsLocked, LockOf, Running
<1>6. GitIsKnown'
  BY <1>1 DEF GitIsKnown
<1> QED  BY <1>2, <1>3, <1>4, <1>5, <1>6 DEF CleanersKnowTheirRun

LEMMA PipelineKeeps ==
  ASSUME IInv, NEW r \in Run,
         \/ create_worktree(r) \/ times_out(r) \/ write_pid(r) \/ run_git(r)
         \/ git_returns(r) \/ interrupt(r) \/ kill(r) \/ GitStep(r) \/ kill_git(r)
  PROVE  IInv'
<1> DEFINE pc == creating'[r]
           g == git'[r]
<1>1. /\ creating \in [Run -> {"not yet", "waiting"} \union Holding \union Ended]
      /\ git \in [Run -> {"not started", "started", "checking out", "succeeded", "failed",
                          "killed"}]
      /\ dir \in [Run -> {"absent", "partial", "whole"}] /\ branch \in SUBSET Run
      /\ creating[r] \in Holding => LockOf(r) = r
      /\ Running(r) => LockOf(r) = r /\ creating[r] \in {"adding", "killed"}
      /\ creating[r] \in {"not yet", "waiting", "opened", "holding", "stranded"} =>
             git[r] = "not started"
      /\ creating[r] \in {"succeeding", "leased"} => git[r] = "succeeded"
  BY DEF IInv, TypeOK, HoldersOwn, GitIsLocked, GitIsKnown
<1>2. CASE create_worktree(r) \/ times_out(r) \/ write_pid(r)
  <2>1. UNCHANGED <<lockfile, cleaning, branch, dir>> /\ git' = [git EXCEPT ![r] = git[r]]
    BY <1>1, <1>2 DEF create_worktree, times_out, write_pid, onDisk
  <2>2. creating' = [creating EXCEPT ![r] = pc] /\ pc \in {"waiting", "raised", "holding", "stranded"}
    BY <1>1, <1>2 DEF create_worktree, times_out, write_pid, GoesTo
  <2>3. /\ pc \in Holding => creating[r] = "opened"
        /\ creating[r] \in {"not yet", "waiting", "opened"}
        /\ creating[r] = "opened" => pc \in {"holding", "stranded"}
    BY <1>1, <1>2 DEF create_worktree, times_out, write_pid, GoesTo, Holding
  <2>4. /\ git[r] = "not started"
        /\ pc \in Holding => creating[r] \in Holding
        /\ creating[r] \in Holding \union {"stranded", "killed"} =>
             pc \in Holding \union {"stranded", "killed"}
    BY <1>1, <2>3 DEF Holding
  <2> DEFINE g0 == git[r]
  <2> HIDE DEF g0, pc
  <2>5. /\ pc \in {"waiting", "raised", "holding", "adding", "stranded", "succeeding",
                    "failing", "killed"} \union {creating[r]}
        /\ pc \notin {"succeeding", "leased"}
    BY <2>2
  <2>6. g0 = "not started" /\ git' = [git EXCEPT ![r] = g0] /\ g0 \in {git[r]}
    BY <2>1, <2>4 DEF g0
  <2> QED  BY <1>1, <2>1, <2>2, <2>4, <2>5, <2>6, StepKeeps
<1>3. CASE run_git(r)
  <2>1. /\ UNCHANGED <<lockfile, cleaning, branch, dir>>
        /\ creating' = [creating EXCEPT ![r] = pc] /\ git' = [git EXCEPT ![r] = g]
        /\ creating[r] = "holding" /\ LockOf(r) = r
        /\ \/ pc = "failing" /\ g = git[r]
           \/ pc = "adding" /\ g = "started"
    BY <1>1, <1>3 DEF run_git, GoesTo, onDisk, Holding
  <2> HIDE DEF pc, g
  <2> QED  BY <1>1, <2>1, StepKeeps DEF Holding, Ended
<1>4. CASE git_returns(r)
  <2>1. /\ UNCHANGED <<lockfile, cleaning, branch, dir>>
        /\ creating' = [creating EXCEPT ![r] = pc] /\ git' = [git EXCEPT ![r] = g]
        /\ creating[r] = "adding" /\ g = git[r]
        /\ \/ pc = "succeeding" /\ g = "succeeded"
           \/ pc = "failing" /\ g \in {"failed", "killed"}
    BY <1>1, <1>4 DEF git_returns, GoesTo, onDisk
  <2> HIDE DEF pc, g
  <2> QED  BY <1>1, <2>1, StepKeeps DEF Holding, Ended
<1>5. CASE interrupt(r)
  <2>1. /\ UNCHANGED <<lockfile, cleaning, branch, dir>>
        /\ creating' = [creating EXCEPT ![r] = pc] /\ git' = [git EXCEPT ![r] = g]
        /\ creating[r] = "adding" /\ pc = "failing"
        /\ \/ g = "killed"
           \/ g = git[r] /\ g \notin {"started", "checking out"}
    BY <1>1, <1>5 DEF interrupt, GoesTo, onDisk
  <2> HIDE DEF pc, g
  <2> QED  BY <1>1, <2>1, StepKeeps DEF Holding, Ended
<1>6. CASE kill(r)
  <2>1. /\ UNCHANGED <<lockfile, cleaning, branch, dir>>
        /\ creating' = [creating EXCEPT ![r] = pc] /\ git' = [git EXCEPT ![r] = g]
        /\ pc = "killed" /\ g = git[r] /\ creating[r] \notin Ended
    BY <1>1, <1>6 DEF kill, GoesTo, onDisk
  <2> HIDE DEF pc, g
  <2> QED  BY <1>1, <2>1, StepKeeps DEF Holding, Ended, Running
<1>7. CASE GitStep(r) \/ kill_git(r)
  <2>1. /\ UNCHANGED <<lockfile, cleaning>>
        /\ branch' \in SUBSET Run /\ dir' \in [Run -> {"absent", "partial", "whole"}]
        /\ creating' = [creating EXCEPT ![r] = pc] /\ git' = [git EXCEPT ![r] = g]
        /\ pc = creating[r] /\ Running(r)
        /\ g \in {"checking out", "succeeded", "failed", "killed"}
    BY <1>1, <1>7 DEF GitStep, worktree_add, checkout, kill_git, onDisk, Running
  <2> HIDE DEF pc, g
  <2> QED  BY <1>1, <2>1, StepKeeps DEF Holding, Ended
<1> QED  BY <1>2, <1>3, <1>4, <1>5, <1>6, <1>7

\* In one repository whoever is inside the block, or lets a git run, is one.
LEMMA OneHolder ==
  ASSUME IInv, NEW r \in Run, NEW q \in Run, RepoOf[q] = RepoOf[r],
         creating[q] \in Holding \/ Running(q), LockOf(r) \in {None, r}
  PROVE  q = r
  BY WorkspaceAssumption DEF IInv, HoldersOwn, GitIsLocked, LockOf

LEMMA LockFileKeeps ==
  ASSUME IInv, NEW r \in Run, open_lock(r) \/ exit(r)
  PROVE  IInv'
<1> USE WorkspaceAssumption
<1> DEFINE pc == creating'[r]
           owner == lockfile'[RepoOf[r]]
<1>1. /\ creating \in [Run -> {"not yet", "waiting"} \union Holding \union Ended]
      /\ lockfile \in [Repository -> Run \union {None}] /\ RepoOf[r] \in Repository
  BY DEF IInv, TypeOK
<1>2. /\ UNCHANGED <<git, branch, dir, cleaning>>
      /\ creating' = [creating EXCEPT ![r] = pc]
      /\ lockfile' = [lockfile EXCEPT ![RepoOf[r]] = owner]
  BY <1>1 DEF open_lock, exit, GoesTo, onDisk
<1>3. \/ creating[r] = "waiting" /\ pc = "opened" /\ owner = r /\ LockOf(r) = None
      \/ creating[r] = "succeeding" /\ pc = "leased" /\ owner = None /\ LockOf(r) = r
      \/ creating[r] = "failing" /\ pc = "raised" /\ owner = None /\ LockOf(r) = r
  BY <1>1 DEF IInv, HoldersOwn, open_lock, exit, GoesTo, Holding
<1>4. \A q \in Run \ {r} :
        /\ creating'[q] = creating[q]
        /\ creating[q] \in Holding \/ Running(q) => RepoOf[q] # RepoOf[r]
  BY <1>1, <1>2, <1>3, OneHolder, ZenonT(30)
<1>5. ~Running(r)
  BY <1>3 DEF IInv, GitIsLocked
<1> HIDE DEF pc, owner
<1>6. TypeOK'
  BY <1>1, <1>2, <1>3 DEF IInv, TypeOK, Holding, Ended
<1>7. HoldersOwn'
  BY <1>1, <1>2, <1>3, <1>4 DEF IInv, HoldersOwn, LockOf, Holding
<1>8. OwnersHold'
  <2> SUFFICES ASSUME NEW k \in Repository, lockfile'[k] # None
               PROVE  /\ RepoOf[lockfile'[k]] = k
                      /\ creating'[lockfile'[k]] \in Holding \union {"killed", "stranded"}
    BY DEF OwnersHold
  <2>1. CASE k = RepoOf[r]
    BY <1>1, <1>2, <1>3, <2>1 DEF Holding
  <2>2. CASE k # RepoOf[r]
    <3>1. lockfile'[k] = lockfile[k] /\ lockfile[k] \in Run /\ RepoOf[lockfile[k]] = k
          /\ creating[lockfile[k]] \in Holding \union {"killed", "stranded"}
      BY <1>1, <1>2, <2>2 DEF IInv, OwnersHold
    <3>2. lockfile[k] # r
      BY <2>2, <3>1
    <3>3. creating'[lockfile[k]] = creating[lockfile[k]]
      BY <1>4, <3>1, <3>2
    <3> QED  BY <3>1, <3>3
  <2> QED  BY <2>1, <2>2
<1>9. GitIsLocked'
  BY <1>1, <1>2, <1>4, <1>5 DEF IInv, GitIsLocked, LockOf, Running
<1>10. GitIsKnown'
  BY <1>1, <1>2, <1>3, <1>4 DEF IInv, GitIsKnown
<1> QED  BY <1>2, <1>6, <1>7, <1>8, <1>9, <1>10 DEF IInv, CleanersKnowTheirRun

LEMMA NextIInv == IInv /\ [Next]_vars => IInv'
<1> SUFFICES ASSUME IInv, [Next]_vars PROVE IInv'
  OBVIOUS
<1>1. CASE \E r \in Run : \/ create_worktree(r) \/ times_out(r) \/ write_pid(r) \/ run_git(r)
                            \/ git_returns(r) \/ interrupt(r) \/ kill(r) \/ GitStep(r)
                            \/ kill_git(r)
  BY <1>1, PipelineKeeps
<1>2. CASE \E r \in Run : open_lock(r) \/ exit(r)
  BY <1>2, LockFileKeeps
<1>5. CASE \E c \in Cleaner : Clean(c)
  BY <1>5, CleaningKeeps
<1>6. CASE UNCHANGED vars
  BY <1>6 DEF vars, onDisk, IInv, TypeOK, HoldersOwn, OwnersHold, GitIsLocked, GitIsKnown,
              CleanersKnowTheirRun, LockOf, Running
<1> QED  BY <1>1, <1>2, <1>5, <1>6 DEF Next, Step

LEMMA Invariant == Spec => []IInv
  BY InitIInv, NextIInv, PTL DEF Spec

\* The variables keep their types.
THEOREM TypeCorrect == Spec => []TypeOK
  BY Invariant, PTL DEF IInv

\* No two `git worktree add` ever run at a time in one repository, whatever was
\* killed and whoever gave up.
THEOREM Exclusive == Spec => []AddsExclusive
<1>1. IInv => AddsExclusive
  BY DEF IInv, GitIsLocked, LockOf, AddsExclusive
<1> QED  BY <1>1, Invariant, PTL

\* A lock file stays behind only when its process was killed or could not write
\* into it.
THEOREM LockLeft == Spec => []LockOnlyLeftByCasualties
<1>1. IInv => LockOnlyLeftByCasualties
  BY DEF IInv, OwnersHold, LockOnlyLeftByCasualties
<1> QED  BY <1>1, Invariant, PTL

-----------------------------------------------------------------------------
(* Refinement: every step makes, leases or removes one whole worktree, or   *)
(* none.                                                                    *)

\* The worktree of a Run as the components above see it.
Seen(r) == CASE git[r] # "succeeded" -> "never made"
             [] git[r] = "succeeded" /\ dir[r] = "whole" -> "whole"
             [] OTHER -> "removed"
Leased == {r \in Run : creating[r] = "leased"}

LEMMA SeenOnly ==
  /\ (\A r \in Run : Seen(r)' = Seen(r)) /\ Leased' = Leased => UNCHANGED Above!worktreeVars
  /\ Init => Above!WorktreesInit
  BY DEF Above!worktreeVars, Seen, Leased, Init, Above!WorktreesInit

\* A step that shows nothing.
LEMMA Hidden ==
  ASSUME IInv, NEW r \in Run,
         \/ create_worktree(r) \/ open_lock(r) \/ times_out(r) \/ write_pid(r) \/ run_git(r)
         \/ git_returns(r) \/ interrupt(r) \/ kill(r) \/ worktree_add(r) \/ kill_git(r)
  PROVE  UNCHANGED Above!worktreeVars
<1>1. /\ creating \in [Run -> {"not yet", "waiting"} \union Holding \union Ended]
      /\ git \in [Run -> {"not started", "started", "checking out", "succeeded", "failed",
                          "killed"}]
      /\ creating[r] = "holding" => git[r] = "not started"
  BY DEF IInv, TypeOK, GitIsKnown
<1>2. \A q \in Run : creating'[q] = "leased" <=> creating[q] = "leased"
  BY <1>1 DEF create_worktree, open_lock, times_out, write_pid, run_git, git_returns, interrupt,
              kill, worktree_add, kill_git, GoesTo, Ended
<1>3. \A q \in Run : /\ git'[q] = "succeeded" <=> git[q] = "succeeded"
                     /\ git[q] = "succeeded" => dir'[q] = dir[q]
  <2>1. CASE UNCHANGED <<git, dir>>
    BY <2>1
  <2>2. CASE run_git(r) \/ interrupt(r) \/ kill_git(r)
    <3>1. UNCHANGED dir
      BY <2>2 DEF run_git, interrupt, kill_git, onDisk
    <3>2. \/ UNCHANGED git
          \/ /\ git[r] # "succeeded"
             /\ \E g \in {"started", "killed"} : git' = [git EXCEPT ![r] = g]
      BY <1>1, <2>2 DEF run_git, interrupt, kill_git, Running
    <3> QED  BY <1>1, <3>1, <3>2
  <2>3. CASE worktree_add(r)
    <3>1. dir \in [Run -> {"absent", "partial", "whole"}]
      BY DEF IInv, TypeOK
    <3> QED  BY <1>1, <2>3, <3>1 DEF worktree_add
  <2> QED
    BY <2>1, <2>2, <2>3 DEF create_worktree, open_lock, times_out, write_pid, git_returns, kill,
                            onDisk
<1>4. (\A q \in Run : Seen(q)' = Seen(q)) /\ Leased' = Leased
  BY <1>2, <1>3 DEF Seen, Leased
<1> QED  BY <1>4, SeenOnly

LEMMA CheckoutMakes ==
  ASSUME IInv, NEW r \in Run, checkout(r)
  PROVE  Above!Make(r) \/ UNCHANGED Above!worktreeVars
<1>1. /\ git \in [Run -> {"not started", "started", "checking out", "succeeded", "failed",
                          "killed"}]
      /\ dir \in [Run -> {"absent", "partial", "whole"}]
  BY DEF IInv, TypeOK
<1>2. Leased' = Leased /\ git[r] = "checking out"
  BY DEF checkout, Leased
<1>3. CASE git'[r] = "succeeded"
  <2>1. /\ git'[r] = "succeeded" /\ dir'[r] = "whole"
        /\ \A q \in Run \ {r} : git'[q] = git[q] /\ dir'[q] = dir[q]
    BY <1>1, <1>2, <1>3 DEF checkout
  <2>2. Seen(r) = "never made" /\ Seen(r)' = "whole"
    BY <1>2, <2>1 DEF Seen
  <2>3. \A q \in Run \ {r} : Seen(q)' = Seen(q)
    BY <2>1 DEF Seen
  <2>4. [q \in Run |-> Seen(q)]' = [[q \in Run |-> Seen(q)] EXCEPT ![r] = "whole"]
    BY <2>2, <2>3, Zenon
  <2>5. [q \in Run |-> Seen(q)][r] = "never made"
    BY <2>2
  <2> QED  BY <1>2, <2>4, <2>5, Zenon DEF Above!Make, Seen, Leased
<1>4. CASE git'[r] # "succeeded"
  <2>1. \A q \in Run : Seen(q)' = Seen(q)
    BY <1>1, <1>2, <1>4 DEF checkout, Seen
  <2> QED  BY <1>2, <2>1, SeenOnly
<1> QED  BY <1>3, <1>4

LEMMA ExitLeases ==
  ASSUME IInv, NEW r \in Run, exit(r)
  PROVE  Above!Lease(r) \/ UNCHANGED Above!worktreeVars
<1>1. /\ creating \in [Run -> {"not yet", "waiting"} \union Holding \union Ended]
      /\ creating[r] = "succeeding" => git[r] = "succeeded"
      /\ UNCHANGED <<git, dir>>
  BY DEF IInv, TypeOK, GitIsKnown, exit, onDisk
<1>2. CASE creating[r] = "succeeding"
  <2>1. Leased' = Leased \union {r}
    BY <1>1, <1>2 DEF exit, GoesTo, Leased
  <2> QED  BY <1>1, <1>2, <2>1 DEF Above!Lease, Leased
<1>3. CASE creating[r] = "failing"
  <2>1. Leased' = Leased
    BY <1>1, <1>3 DEF exit, GoesTo, Leased
  <2>2. \A q \in Run : Seen(q)' = Seen(q)
    BY <1>1 DEF Seen
  <2> QED  BY <2>1, <2>2, SeenOnly
<1> QED  BY <1>2, <1>3 DEF exit

LEMMA CleaningRemoves ==
  ASSUME IInv, NEW c \in Cleaner, Clean(c)
  PROVE  Above!WorktreesNext \/ UNCHANGED Above!worktreeVars
<1>1. /\ UNCHANGED <<git, creating>> /\ Leased' = Leased
      /\ dir \in [Run -> {"absent", "partial", "whole"}]
  BY DEF IInv, TypeOK, Leased, Clean, _best_effort_worktree_cleanup, worktree_remove,
         branch_delete, kill_cleaner
<1>2. CASE UNCHANGED dir
  <2>1. \A q \in Run : Seen(q)' = Seen(q)
    BY <1>1, <1>2 DEF Seen
  <2> QED  BY <1>1, <2>1, SeenOnly
<1>3. CASE worktree_remove(c) /\ dir' # dir
  <2>1. PICK r \in Run, left \in {"absent", "partial"} : dir' = [dir EXCEPT ![r] = left]
    BY <1>3 DEF IInv, CleanersKnowTheirRun, worktree_remove
  <2>2. CASE git[r] = "succeeded" /\ dir[r] = "whole"
    <3>1. Above!Remove(r)
      BY <1>1, <2>1, <2>2 DEF Above!Remove, Leased
    <3> QED  BY <3>1 DEF Above!WorktreesNext
  <2>3. CASE ~(git[r] = "succeeded" /\ dir[r] = "whole")
    <3>1. \A q \in Run : Seen(q)' = Seen(q)
      BY <1>1, <2>1, <2>3 DEF Seen
    <3> QED  BY <1>1, <3>1, SeenOnly
  <2> QED  BY <2>2, <2>3
<1> QED  BY <1>2, <1>3 DEF Clean, _best_effort_worktree_cleanup, branch_delete, kill_cleaner, onDisk

LEMMA NextImplements == IInv /\ [Next]_vars => [Above!WorktreesNext]_(Above!worktreeVars)
<1> SUFFICES ASSUME IInv, [Next]_vars
             PROVE  Above!WorktreesNext \/ UNCHANGED Above!worktreeVars
  OBVIOUS
<1>1. CASE \E r \in Run : \/ create_worktree(r) \/ open_lock(r) \/ times_out(r) \/ write_pid(r)
                            \/ run_git(r) \/ git_returns(r) \/ interrupt(r) \/ kill(r)
                            \/ worktree_add(r) \/ kill_git(r)
  BY <1>1, Hidden
<1>2. CASE \E r \in Run : checkout(r)
  BY <1>2, CheckoutMakes DEF Above!WorktreesNext
<1>3. CASE \E r \in Run : exit(r)
  BY <1>3, ExitLeases DEF Above!WorktreesNext
<1>4. CASE \E c \in Cleaner : Clean(c)
  BY <1>4, CleaningRemoves
<1>5. CASE UNCHANGED vars
  BY <1>5 DEF vars, onDisk, Above!worktreeVars
<1> QED  BY <1>1, <1>2, <1>3, <1>4, <1>5 DEF Next, Step, GitStep

\* create_worktree and its clean-up are, to all others, the worktrees of module
\* Worktrees.
THEOREM Implements == Spec => ImplementsWorktrees
  BY SeenOnly, NextImplements, Invariant, PTL
  DEF Spec, ImplementsWorktrees, Above!WorktreesSpec
\* What the steps of module Worktrees are in terms of Seen and Leased.
LEMMA AboveSteps ==
  ASSUME NEW r \in Run
  PROVE  /\ Above!Make(r) => /\ Seen(r) = "never made" /\ Seen(r)' = "whole"
                             /\ \A q \in Run \ {r} : Seen(q)' = Seen(q)
                             /\ Leased' = Leased
         /\ Above!Lease(r) => /\ Seen(r) # "never made"
                              /\ \A q \in Run : Seen(q)' = Seen(q)
                              /\ Leased' = Leased \union {r}
         /\ Above!Remove(r) => /\ Seen(r) = "whole" /\ Seen(r)' = "removed"
                               /\ \A q \in Run \ {r} : Seen(q)' = Seen(q)
                               /\ Leased' = Leased
<1> DEFINE worktreeOf == [q \in Run |-> Seen(q)]
<1>1. (\A q \in Run : worktreeOf[q] = Seen(q)) /\ (\A q \in Run : worktreeOf'[q] = Seen(q)')
  OBVIOUS
<1>2. /\ Above!Make(r) => /\ worktreeOf[r] = "never made" /\ Leased' = Leased
                          /\ worktreeOf' = [worktreeOf EXCEPT ![r] = "whole"]
      /\ Above!Lease(r) => /\ worktreeOf[r] # "never made" /\ Leased' = Leased \union {r}
                           /\ worktreeOf' = worktreeOf
      /\ Above!Remove(r) => /\ worktreeOf[r] = "whole" /\ Leased' = Leased
                            /\ worktreeOf' = [worktreeOf EXCEPT ![r] = "removed"]
  BY Zenon DEF Above!Make, Above!Lease, Above!Remove, Seen, Leased
<1>3. DOMAIN worktreeOf = Run
  OBVIOUS
<1> HIDE DEF worktreeOf
<1> QED  BY <1>1, <1>2, <1>3

\* A step of module Worktrees, or none, in these terms.
LEMMA AboveNext ==
  ASSUME [Above!WorktreesNext]_(Above!worktreeVars)
  PROVE  \/ (\A q \in Run : Seen(q)' = Seen(q)) /\ Leased' = Leased
         \/ \E r \in Run : Above!Make(r) \/ Above!Lease(r) \/ Above!Remove(r)
<1>1. CASE UNCHANGED Above!worktreeVars
  <2>1. [q \in Run |-> Seen(q)]' = [q \in Run |-> Seen(q)] /\ Leased' = Leased
    BY <1>1, Zenon DEF Above!worktreeVars, Seen, Leased
  <2>2. \A q \in Run : /\ [x \in Run |-> Seen(x)]'[q] = Seen(q)'
                       /\ [x \in Run |-> Seen(x)][q] = Seen(q)
    OBVIOUS
  <2> QED  BY <2>1, <2>2
<1> QED  BY <1>1 DEF Above!WorktreesNext

\* From module Worktrees alone: whoever has a lease was given a whole worktree,
\* which is there or was removed.
THEOREM LeasesWereMade == Spec => []Above!LeasedWereMade
<1>1. /\ Above!LeasedWereMade <=> \A q \in Leased : Seen(q) \in {"whole", "removed"}
      /\ Above!LeasedWereMade' <=> \A q \in Leased' : Seen(q)' \in {"whole", "removed"}
  BY DEF Above!LeasedWereMade, Seen, Leased
<1>2. Above!WorktreesInit => Above!LeasedWereMade
  BY DEF Above!WorktreesInit, Above!LeasedWereMade
<1>3. ASSUME Above!LeasedWereMade, [Above!WorktreesNext]_(Above!worktreeVars)
      PROVE  Above!LeasedWereMade'
  <2>1. \A q \in Leased : q \in Run /\ Seen(q) \in {"whole", "removed"}
    BY <1>1, <1>3 DEF Leased
  <2>2. \A q \in Run : Seen(q) \in {"never made", "whole", "removed"}
    BY DEF Seen
  <2>3. \A q \in Leased' : Seen(q)' \in {"whole", "removed"}
    BY <1>3, <2>1, <2>2, AboveNext, AboveSteps
  <2> QED  BY <1>1, <2>3
<1> QED  BY <1>2, <1>3, Implements, PTL DEF ImplementsWorktrees, Above!WorktreesSpec

\* And what a human removed is not made again behind their back: a worktree that
\* is gone stays so, for all creations, cleaners and git processes there are.
THEOREM RemovedForGood == Spec => Above!GoneForGood
<1>1. ASSUME [Above!WorktreesNext]_(Above!worktreeVars)
      PROVE  Above!StaysGone
  <2>1. /\ \A q \in Run : Seen(q) = "removed" => Seen(q)' = "removed"
        /\ Leased \subseteq Leased'
    BY <1>1, AboveNext, AboveSteps
  <2> QED  BY <2>1 DEF Above!StaysGone, Seen, Leased
<1>2. [Above!WorktreesNext]_(Above!worktreeVars) => [Above!StaysGone]_(Above!worktreeVars)
  BY <1>1
<1> QED  BY <1>2, Implements, PTL
         DEF ImplementsWorktrees, Above!WorktreesSpec, Above!GoneForGood
=============================================================================
