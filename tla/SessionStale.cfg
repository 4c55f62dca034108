\* One establish() gives up on a connection the kernel completes.
SPECIFICATION Spec
CONSTANTS
    Sizes <- TwoScenarios
    SendBuffer = 2
    sendspace = 2
    MaxFaults = 1
INVARIANT WrongPortNeverSent
CHECK_DEADLOCK FALSE
