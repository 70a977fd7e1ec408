----------------------------- MODULE MCWorkspace -----------------------------
(* All Runs are of one repository: one holds the lock, one waits and gives  *)
(* up, one comes after.                                                     *)
EXTENDS Workspace, TLC

CONSTANTS r1, r2, r3, k1

MCRepoOf == [r \in {r1, r2, r3} |-> k1]
=============================================================================
