\* Every small table of tags, one other user of the line; requests of two registers at most.
SPECIFICATION Spec
CONSTANTS
    check = check
    Users <- OneUser
    Tables <- SmallTables
    MAX_DATE_LEN = 2
    REAL_VAL_TAG_COUNT = 2
    N = 2
    ModbusType <- Types
    Readings <- ReadingOf
    Scaling <- ScalingOf
    Values <- ValuesOf
    Junk = Junk
INVARIANTS Optimized OneOnPort UploadsTrue AverageOfTag
PROPERTY Collected
CHECK_DEADLOCK FALSE
