\* Does anything the check started outlive the invocation?
SPECIFICATION Spec
CONSTANTS
    MaxBytes = 3
    Chunk = 2
    MaxWritten <- MCWritten
INVARIANT
    NothingOutlives
CHECK_DEADLOCK FALSE
