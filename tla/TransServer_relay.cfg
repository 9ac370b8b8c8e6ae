\* Two connections of one RTU and two clients; one of each may go away.
SPECIFICATION Spec
CONSTANTS
    r1 = r1
    r2 = r2
    c1 = c1
    c2 = c2
    RtuConns <- TwoRtus
    ClientConns <- TwoClients
    Sns <- Serials
    StartSn = 1
    Sn <- Numbers
    Kinds <- SomeKinds
    MaxFrames <- FewFrames
    Parts <- CutFrames
    Guises <- Looks
    MayHangUp <- Leavers
INVARIANT MissedAtMostErased
PROPERTIES OnlySubscribersServed OnlyFailedErased HandlerReturns
CHECK_DEADLOCK FALSE
