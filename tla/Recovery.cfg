SPECIFICATION FairSpec
CONSTANTS
    MSS = 2
    mssdflt = 1
    Window = 12
    InitialCwnd = 8
    tcprexmtthresh = 3
    Limit = 2
    MaxShift = 12
    MaxFail = 2
    MaxLate = 1
    MaxExpired = 1
    Scenarios <- AllScenarios
INVARIANTS InductiveInv SenderOrder TimerGuardsData CliffIsBudget ClassifyNamesMechanism LadderRestartsOnce
PROPERTIES WindowSender Delivers
CHECK_DEADLOCK FALSE
