SPECIFICATION FairSpec
CONSTANTS
    N = 3
    AdapterOf <- MCAdapterOf
    Deps <- MCDeps
    MayNotLoad = {3}
    Found = {"absent", "unversioned", "old", "fit"}
    Initially = {"absent", "fit"}
    MaxCommands = 2
    MaxChanges = 1
INVARIANTS InstalledIsPresent RollbackIsComplete
PROPERTIES OnlyObservationBreaksDependencies CallsReturn
CHECK_DEADLOCK FALSE
