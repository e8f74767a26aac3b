SPECIFICATION Spec
CONSTANTS
    Tables = {"OFFCPU"}
    DatasSize = 1
    BatchEntriesNum = 1
    MaxItems = 2
PROPERTIES
    ShutDownEnds
