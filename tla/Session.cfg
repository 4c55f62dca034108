\* Four scenarios, one of them larger than the send buffer; any three faults.
SPECIFICATION FairSpec
CONSTANTS
    Sizes <- FourScenarios
    SendBuffer = 2
    sendspace = 2
    MaxFaults = 3
INVARIANTS TypeOK OwnConnection CleanPort
PROPERTY ScenariosEnd
CHECK_DEADLOCK FALSE
