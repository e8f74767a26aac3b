SPECIFICATION Spec
CONSTANTS
    Tids = {1, 2}
    read = read
    unknown = unknown
    Clone = Clone
    Execve = Execve
    SigReturn = SigReturn
    Exit = Exit
    Ids = {read, Clone, Execve, SigReturn, Exit}
    Nothing = Nothing
    Options <- MCOptions
    MinDurMs = 1
    MaxDurMs = 2
    PerMs = 2
    StartSize = 1
    MaxTime = 6
    MaxCalls = 4
INVARIANTS
    TypeOK
    EventTrue
    NothingMissed
