SPECIFICATION ClientSpec
CONSTANTS
    Max_w = 2
    MaxRecv = 4
    MaxConnects = 2
INVARIANTS
    AckTruthful
PROPERTIES
    AcknowledgedInTheEnd
CHECK_DEADLOCK FALSE
