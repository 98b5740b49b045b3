SPECIFICATION Spec
CONSTANTS
    Modules <- MCModules
    Pulse = "pulse"
    Owners <- MCOwners
    Names <- MCNames
    ToolsOf <- MCToolsOf
    Prefixed <- MCPrefixed
    Plugins = {"plugin"}
    Tellers = {"coordinator", "legacy"}
    MaxCalls = 8
INVARIANTS EveryToolCallable StopLeavesNothing 
CHECK_DEADLOCK FALSE
