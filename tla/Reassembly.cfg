\* Short segments in every order, on a stream longer than the sequence space.
SPECIFICATION Spec
CONSTANTS
    Half = 7
    Isn = 11
    Window = 6
    StreamLen = 15
    MaxLen = 3
    MaxBlocks = 2
    MaxAccepts = 5
INVARIANTS InductiveInv HeldSorted MergeSorted FrontierExact HeldExact TimeReachedExact
PROPERTY ImplementsContract
CHECK_DEADLOCK FALSE
