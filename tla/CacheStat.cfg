SPECIFICATION Spec
CONSTANTS
    Cpus = {c1, c2, c3}
    Every = Every
    f1 = f1
    f2 = f2
    Accesses <- MCAccesses
    Options <- MCOptions
    Free = Free
    Half = 2
    MapSize = 2
    MaxAccesses = 5
    MaxRounds = 1
SYMMETRY Symmetry
INVARIANTS
    TypeOK
    NoOvercount
    Undisturbed
    
