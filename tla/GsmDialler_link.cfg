SPECIFICATION DialSpec
CONSTANTS
    DialTimes <- SomeTimes
    MaxFaults = 6
INVARIANTS
    OnePppd
PROPERTIES
    StaysOnline
