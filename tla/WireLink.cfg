SPECIFICATION FairSpec
CONSTANTS
    EventRingBytes = 6
    InputRingBytes = 3
    KeepaliveRingBytes = 4
    RxRingBytes = 3
    ChunkBytes = 2
    UartBytes = 2
    AccumulatorBytes = 4
    MaxTransitions = 2
    MaxTroubles = 1
INVARIANTS TypeOK LossIsLocal
PROPERTIES KeysInOrder WireConverges
