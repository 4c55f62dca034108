\* Two calls on one connection, each with its own loss and deadline; one ACK
\* cannot be written, one retransmission is spurious.
SPECIFICATION Spec
CONSTANTS
    Half = 8
    Isn = 14
    Window = 4
    StreamLen = 5
    MaxLen = 2
    MaxBlocks = 4
    Targets <- TwoCalls
    Policies <- LosePerCall
    SendSack = TRUE
    AckDelay = 1
    Timeouts = {2}
    Slice = 1
    MaxTime = 3
    MaxRexmt = 1
    MaxControl = 0
    MaxRst = 0
    MaxFail = 1
INVARIANTS TypeOK KernelToldTruth HoleIsReal StallIsPolicy DupCountExact EveryAckAccounted ValidRunHasHol
PROPERTY AcksNeverRegress
CHECK_DEADLOCK FALSE
