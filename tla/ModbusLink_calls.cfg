SPECIFICATION FairLinkSpec
CONSTANTS
    Slaves <- SomeSlaves
    Models <- Devices
    States = 521
    Programs <- AllPrograms
    Coms = {"RTU", "TCP"}
    TableSize <- Sizes
    MaxPending = 2
INVARIANTS InStep ReadsWhatWasWritten
PROPERTY Reconnected
