\* Every outcome of write(), frames of up to two objects, one stale object.
SPECIFICATION ControlSpec
CONSTANTS
    MAX_W = 2
    W_MOD = 3
    NUM_MOD = 8
    MaxItems = 2
    Outcomes <- MCOutcomes
    Own <- MCOwn
    Attr <- MCAttr
    DevOf <- MCDevOf
    Devices = {11, 12}
    NoId = 0
    Tries = 2
    Stale = 1
INVARIANTS AckedBetweenControls Consecutive RightDevice AckMeansDone
PROPERTY ControlEnds
