\* Three threads, a queue of two samples.
SPECIFICATION Spec
CONSTANTS
    c1 = c1
    c2 = c2
    c3 = c3
    Threads <- ThreeThreads
    COUNT = 2
    MaxTags = 2
    NoTag = NoTag
    Nobody = Nobody
INVARIANTS AcceptedNeverLost OnlyAcceptedUploaded ExactUntilRaced
PROPERTY PushReturns
CHECK_DEADLOCK FALSE
