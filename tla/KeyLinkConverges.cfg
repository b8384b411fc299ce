SPECIFICATION FairSpec
CONSTANTS
    Position = {k1}
    Covered = {k1}
    TxFifoSize = 1
    RxQueueSize = 1
    EventQueueSize = 1
    PidCount = 2
    TxRestartsMax = 1
    TimeoutTicks = 1
    MaxTransitions = 2
    MaxReboots = 1
INVARIANTS TypeOK TrackedIsHeld SilentPipeHoldsNothing StreamAlternates PressIsNew
PROPERTIES Converges ImplementsKeySync
