SPECIFICATION Spec
CONSTANTS
    loop = loop
    u1 = u1
    Uploaders <- OneUploader
    Commanders <- OneUploader
    Max_w = 3
    Outcomes <- MCOutcomes
INVARIANTS NoZombie FramesWhole OrderlyUntilRaced
PROPERTY AcknowledgedInTheEnd
CHECK_DEADLOCK FALSE
