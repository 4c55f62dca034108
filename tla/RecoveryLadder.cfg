SPECIFICATION Spec
CONSTANTS
    MSS = 2
    mssdflt = 1
    Window = 12
    InitialCwnd = 8
    tcprexmtthresh = 3
    Limit = 3
    MaxShift = 12
    MaxFail = 0
    MaxLate = 0
    MaxExpired = 0
    Scenarios <- Ladder
INVARIANT LadderIsBackoff
CHECK_DEADLOCK FALSE
