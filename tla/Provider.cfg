\* Two coroutines probe while two providers are registered for two roles; or one
\* invocation of either adapter, an SDK whose turns may hang, and a reader.  The
\* system stops when the invocation has ended.
SPECIFICATION ProviderSpec
CONSTANTS
    MaxSchemaRetries = 2
    MaxMessages = 1
    Cursors <- MCCursors
    native_cancel = native_cancel
    session_resume = session_resume
    None = None
    Role = {planner, worker}
    Provider = {p1, p2}
    Axis = {native_cancel, session_resume}
    Offers <- MCOffers
    Requirements <- MCRequirements
    Prober = {c1, c2}
INVARIANTS
    ReaderMissesNothing
    ResultIsOfLastTurn
    NothingRunsAfterwards
PROPERTIES
    CancelStopsRetries
    InvocationEnds
    NeverDowngraded
    ProbesAll
CHECK_DEADLOCK FALSE
