\* Three Runs contend for one repository, beside two clean-ups.
SPECIFICATION Spec
CONSTANTS
    r1 = r1
    r2 = r2
    r3 = r3
    k1 = k1
    None = None
    Run = {r1, r2, r3}
    Repository = {k1}
    RepoOf <- MCRepoOf
    Cleaner = {c1, c2}
INVARIANTS
    AddsExclusive
    LockOnlyLeftByCasualties
PROPERTIES
    ImplementsWorktrees
    CreationEnds
CHECK_DEADLOCK FALSE
