\* Frames that arrive one by one while a drain is running.
SPECIFICATION Spec
CONSTANTS
    NoSeg = NoSeg
    FrameCap = 1504
    Capacity = 2
    Slices = {2}
    MaxFrames = 3
    MaxTime = 3
    Traffic <- OneSegment
    Segs <- OneSegmentSent
INVARIANT PeakIsLowerBound
CHECK_DEADLOCK FALSE
