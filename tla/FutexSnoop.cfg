SPECIFICATION Spec
CONSTANTS
    Threads = {11, 12, 21}
    Process <- MCProcess
    Locks = {l1, l2}
    Pid = 0
    Tid = 0
    MaxLockHoldUsers = 1
    MinDur = 0
    MaxDur = 10
    StartSize = 2
    LockMapSize = 1
    HistsSize = 2
    Word = 4
    Durations = {0, 1, 2}
    MaxCalls = 4
SYMMETRY LockSymmetry
INVARIANTS
    TypeOK
    CountExact
    NoFalseAlarm
    StartPaired
    HistsExact
