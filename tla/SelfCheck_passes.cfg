SPECIFICATION Spec
CONSTANTS
    TagLists <- SomeLists
    SkippedVisits = 1
    MaxDatagrams = 2
INVARIANTS
    EveryTagOnce
PROPERTIES
    ReloadObeyed
CHECK_DEADLOCK FALSE
