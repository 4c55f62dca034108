\* The last byte is lost twice; control frames, a RST and a failed write may
\* come in between; the deadline is one tick away or out of reach.
SPECIFICATION ReturnSpec
CONSTANTS
    Half = 8
    Isn = 15
    Window = 4
    StreamLen = 2
    MaxLen = 2
    MaxBlocks = 4
    Targets <- ShortCall
    Policies <- LoseTailTwice
    SendSack = TRUE
    AckDelay = 0
    Timeouts = {1, 9}
    Slice = 1
    MaxTime = 1
    MaxRexmt = 1
    MaxControl = 1
    MaxRst = 1
    MaxFail = 1
INVARIANTS EveryAckAccounted HolFromFirstDrop
PROPERTIES ReceiveReturns EventuallyCompletes
CHECK_DEADLOCK FALSE
