SPECIFICATION ConfigSpec
CONSTANTS
    MaxText = 6
    Words <- MCWords
    Installed <- MCInstalled
    MaxFaults = 1
    MaxStarts = 2
INVARIANTS
    UserSettingsKept
PROPERTIES
    KeepsStore
CHECK_DEADLOCK FALSE
