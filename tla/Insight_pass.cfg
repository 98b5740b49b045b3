SPECIFICATION PulseSpec
CONSTANTS
    Samples <- MCSamples
    SystemModel = "system"
    Pricing <- MCPricing
    Limit = 10
    Earlier = 9
    MaxRecords = 4
    Steps = {22}
    MaxHours = 44
INVARIANTS TrendAddsUp  FewAreNeverCritical
PROPERTIES AppendOnly
CHECK_DEADLOCK FALSE
