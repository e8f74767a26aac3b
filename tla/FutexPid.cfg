SPECIFICATION Spec
CONSTANTS
    Threads = {11, 12}
    Process <- MCProcess
    Locks = {l1}
    Pid = 11
    Tid = 0
    MaxLockHoldUsers = 1
    MinDur = 0
    MaxDur = 10
    StartSize = 2
    LockMapSize = 1
    HistsSize = 2
    Word = 4
    Durations = {0, 1, 2}
    MaxCalls = 4
INVARIANTS
    PidTraced
