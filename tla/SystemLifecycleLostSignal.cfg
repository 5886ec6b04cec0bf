SPECIFICATION FairSpec
CONSTANTS
    N = 4
    Uses <- MCUses
    Derefs <- MCDerefs
    ShutdownSignals = {"INT", "TERM"}
    OtherSignals = {"HUP"}
    ResetHand = TRUE
PROPERTY
    ShutdownSignalEndsProcess
CHECK_DEADLOCK FALSE
