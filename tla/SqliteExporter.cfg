SPECIFICATION Spec
CONSTANTS
    Tables = {"OFFCPU", "SYSCALL"}
    DatasSize = 2
    BatchEntriesNum = 1
    MaxItems = 4
INVARIANTS
    TypeOK
    
    TablesInOrder
PROPERTIES
    EventuallyWritten
