\* Does a call that was let through and then failed leave a record?
SPECIFICATION Spec
CONSTANTS
    worker = worker
    planner = planner
    None = None
    Call = {c1, c2}
    Role = {worker, planner}
    Specs <- MCSpecs
    Approvals <- MCApprovals
    Minute = 1
    MaxTime = 2
INVARIANT
    AuthorisedCallsAreAudited
CHECK_DEADLOCK FALSE
