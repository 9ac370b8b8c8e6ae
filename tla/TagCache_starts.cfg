SPECIFICATION Spec
CONSTANTS
    Own = {o1}
    User = {u1, u2}
    Configs <- SomeConfigs
    MaxEdits = 2
    MaxCrashes = 1
INVARIANTS
    OneVersion
    CompleteIfFinished
PROPERTIES
    ReloadTakesEffect
CHECK_DEADLOCK FALSE
