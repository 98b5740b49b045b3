SPECIFICATION Spec
CONSTANTS
    N = 3
    AdapterOf <- MCAdapterOf
    Deps <- MCDeps
    MayNotLoad = {3}
    Found = {"absent", "unversioned", "old", "fit"}
    Initially = {"absent", "fit"}
    MaxCommands = 2
    MaxChanges = 1
INVARIANT UninstallCommandRemoves
CHECK_DEADLOCK FALSE
