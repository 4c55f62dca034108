\* Nested guards; exit() and signals between the experiment's statements.
SPECIFICATION Spec
CONSTANTS
    Initial <- Machine
    Values <- Probes
    MaxGuards = 4
    SignalAt <- SafePlaces
INVARIANTS RestoredAtDeath ScopeValue
CHECK_DEADLOCK FALSE
