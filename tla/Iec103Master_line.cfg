SPECIFICATION FairSpec
CONSTANTS
    Lines <- SomeLines
    Asdus <- SomeAsdus
    MaxEvents = 1
    MaxFaults = 2
INVARIANTS InStep
PROPERTIES Recovered Stops
CHECK_DEADLOCK FALSE
