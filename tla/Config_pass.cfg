SPECIFICATION Spec
CONSTANTS
    Keys = {"nothing", "servers"}
    NoKeys = "nothing"
    Launchers = {"venv", "global"}
    MaxCommands = 4
    MaxEdits = 1
    MaxTime = 1
INVARIANTS UninstallUndoesInstall OwnTextSurvives
PROPERTIES InstallKeepsKeys StaysReadable
CHECK_DEADLOCK FALSE
