\* A signal may also arrive inside the constructor.
SPECIFICATION Spec
CONSTANTS
    Initial <- Machine
    Values <- Probes
    MaxGuards = 2
    SignalAt <- AllPlaces
INVARIANT RestoredAtDeath
CHECK_DEADLOCK FALSE
