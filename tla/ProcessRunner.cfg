\* One check, its descendant, both drain threads.  The system stops when
\* run_process has come back and the processes are gone.
SPECIFICATION FairSpec
CONSTANTS
    MaxBytes = 3
    Chunk = 2
    MaxWritten <- MCWritten
INVARIANTS
    KilledTreeIsDead
PROPERTIES
    ImplementsCheckedCommand
    RunProcessEnds
CHECK_DEADLOCK FALSE
