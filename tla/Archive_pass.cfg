SPECIFICATION Spec
CONSTANTS
    Levels = {INFO, ERROR}
    BufferSize = 2
    FileSize = 1
    Retention = 1
    OtherProcesses = {0}
    MaxEntries = 3
    MaxTime = 2
    MaxRuns = 2
INVARIANTS LossesAreTold WindowAgreesWithArchive
PROPERTIES RowsAreKept
SYMMETRY Severities
CHECK_DEADLOCK FALSE
