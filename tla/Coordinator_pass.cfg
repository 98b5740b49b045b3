SPECIFICATION FairSpec
CONSTANTS
    Concurrent = 2
    Entries <- MCEntries
    Loadouts <- MCLoadouts
    Varied = {"oracle.recommendations", "optimizer.hypotheses"}
    Modules = {"m1"}
    Low = 2
    Before = 1
    MaxCalls = 2
INVARIANTS AnswersAreFresh EventsTellTheAnswer
PROPERTIES CallsReturn
CHECK_DEADLOCK FALSE
