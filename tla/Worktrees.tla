------------------------------ MODULE Worktrees ------------------------------
(***************************************************************************)
(* What the rest of the harness takes a worktree for: it comes into being  *)
(* whole and once, its lease is given out only after that, and it goes by  *)
(* explicit removal alone and does not come back.                          *)
(***************************************************************************)
CONSTANT Run

VARIABLES worktree,  \* each Run's worktree
          leased     \* the Runs that were given a WorkspaceLease

worktreeVars == <<worktree, leased>>

WorktreesInit ==
    /\ worktree = [r \in Run |-> "never made"]
    /\ leased = {}

Make(r) ==
    /\ worktree[r] = "never made"
    /\ worktree' = [worktree EXCEPT ![r] = "whole"]
    /\ UNCHANGED leased

Lease(r) ==
    /\ worktree[r] # "never made"
    /\ leased' = leased \union {r}
    /\ UNCHANGED worktree

Remove(r) ==
    /\ worktree[r] = "whole"
    /\ worktree' = [worktree EXCEPT ![r] = "removed"]
    /\ UNCHANGED leased

WorktreesNext == \E r \in Run : Make(r) \/ Lease(r) \/ Remove(r)

WorktreesSpec == WorktreesInit /\ [][WorktreesNext]_worktreeVars
-----------------------------------------------------------------------------
\* No lease is out for a worktree that was never whole.
LeasedWereMade == \A r \in leased : worktree[r] \in {"whole", "removed"}

\* A worktree that was removed stays so, and a lease is never taken back.
StaysGone ==
    /\ \A r \in Run : worktree[r] = "removed" => worktree'[r] = "removed"
    /\ leased \subseteq leased'

GoneForGood == [][StaysGone]_worktreeVars
==============================================================================
