SPECIFICATION Spec
CONSTANTS
    Cpus = {c1, c2}
    Tasks = {t1, t2}
    Idle = Idle
    All = All
    Nobody = Nobody
    Process <- MCProcess
    Tgids <- MCTgids
    MinOffcpu = 1
    MaxOffcpu = 2
    RqDur = 1
    StartSize = 2
    CacheSize = 2
    MaxTime = 3
    MaxSwitches = 4
    MaxWakes = 2
SYMMETRY Symmetry
INVARIANTS
    TypeOK
    
    
    NothingMissed
    
