SPECIFICATION Spec
CONSTANTS
    EntriesSize = 2
    BatchEntriesNum = 2
    MaxEntries = 5
INVARIANTS
    TypeOK
    PendingInOrder
    PostsAreBatches
    TimerAlive
    ShutDownFlushes
PROPERTIES
    EventuallyPosted
    ShutDownEnds
CHECK_DEADLOCK FALSE
