\* Does the deadline end every invocation whose turn hangs?
SPECIFICATION FairSpec
CONSTANTS
    MaxSchemaRetries = 1
    MaxMessages = 0
    Cursors <- MCFirst
PROPERTY
    DeadlineIsEnforced
CHECK_DEADLOCK FALSE
