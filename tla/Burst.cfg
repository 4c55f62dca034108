\* The whole experiment, with a late kernel, a stalled process and a failed write.
SPECIFICATION Spec
CONSTANTS
    kProbes = 3
    ChallengeLimit = 2
    Second = 4
    CollectTicks = 1
    PauseTicks = 5
    StartNow = {1, 60}
    NowMod = 64
    Starts = {3, 6, 9}
    MaxBursts = 3
    MaxFail = 1
    MaxStall = 3
INVARIANTS FreshBurstExact SameWindowSilent NextWindowExact CountsOwnReplies
CHECK_DEADLOCK FALSE
