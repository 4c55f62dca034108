\* All kinds of frames arriving at any time, around two timeouts.
SPECIFICATION FairSpec
CONSTANTS
    NoSeg = NoSeg
    FrameCap = 1504
    Capacity = 2
    Slices = {0, 1}
    MaxFrames = 3
    MaxTime = 2
    Traffic <- MCTraffic
    Segs <- MCSegs
INVARIANTS OutFaithful WireRoundTrip
PROPERTY DrainReturns
CHECK_DEADLOCK FALSE
