SPECIFICATION Spec
CONSTANTS
    Cpus = {c1, c2}
    u1 = u1
    u2 = u2
    k1 = k1
    NoStack = NoStack
    Free = Free
    Stacks = {u1, u2, k1}
    Tasks <- MCTasks
    Bucket <- MCBucket
    CountsSize = 2
    FullEvery = 2
    MaxSamples = 3
    MaxRounds = 2
SYMMETRY CpuSymmetry
INVARIANTS
    TypeOK
    NoOvercount
    
    StacksReclaimed
    ResetCompletes
