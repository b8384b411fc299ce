SPECIFICATION FairSpec
CONSTANTS
    Axes = {x, y}
    Deltas <- MCDeltas
    Starts <- MCStarts
    Total = 32
    Short = 16
    Resync = 2
    MotionSlots = 2
    MotionTracks = 2
    BatchMax = 2
    TxFifoSize = 2
    MaxMoves = 2
    MaxReboots = 1
INVARIANTS TypeOK MotionExact
PROPERTIES NeverStepsBack MotionConverges
