SPECIFICATION FairSpec
CONSTANTS
    N = 4
    Uses <- MCUses
    Derefs <- MCDerefs
    ShutdownSignals = {"INT", "TERM"}
    OtherSignals = {"HUP"}
    ResetHand = TRUE
INVARIANTS
    TypeOK
    RunningIsComplete
    NoUseAfterFree
    StoppedBeforeDestroy
PROPERTIES
    StopsInReverseDependencyOrder
    SignalInPauseEndsProcess
    ShutdownCompletes
CHECK_DEADLOCK FALSE
