\* Can the policy gate let a change through that request or ceiling refuses?
\* Three calls of one tool that is registered anew; the system stops when they
\* have ended.
SPECIFICATION GrantsSpec
CONSTANTS
    src = src
    lock = lock
    all = all
    lockfile = lockfile
    NoLimit = NoLimit
    Path <- MCPath
    Pattern <- MCPattern
    Matches <- MCMatches
    Contracts <- MCContracts
    Ceilings <- MCCeilings
    worker = worker
    planner = planner
    None = None
    Call = {c1, c2, c3}
    Role = {worker, planner}
    Specs <- MCSpecs
    Approvals <- MCApprovals
    Minute = 1
    MaxTime = 2
INVARIANTS
    GrantNeverWider
    ReworkNeverWider
    SentAsApproved
    RateHolds
    AnswersAreAudited
CHECK_DEADLOCK FALSE
