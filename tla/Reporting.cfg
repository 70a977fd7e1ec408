\* Two callers of one Run and a report of it, safety and implementation of the lifecycle.  The
\* Run may rest in a terminal state, or reach MaxVersion: the system may stop.
SPECIFICATION ReportSpec
CONSTANTS
    Run = {r1}
    Conn = {c1, c2}
    NoConn = NoConn
    NoRun = NoRun
    MaxVersion = 4
INVARIANTS
    ReportReachesItsRun
    JournalMatchesRun
PROPERTIES
    NoStaleCommit
    WriteLockReleased
    ImplementsAtomicStore
CHECK_DEADLOCK FALSE
