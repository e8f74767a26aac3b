SPECIFICATION Spec
CONSTANTS
    Tools = {"oncpu", "cachestat"}
    Server = ""
    EventChSize = 1
    EventChanSize = 2
    EntriesSize = 2
    MaxBurst = 2
    MaxEvents = 2
INVARIANTS
    TypeOK
    
    Conservation
    NoSilentDrop
    OrderWithOneTool
PROPERTIES
    DeliverySafety
    EventuallySettled
