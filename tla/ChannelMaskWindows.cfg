SPECIFICATION FairSpec
CONSTANTS
    PoolCount = 3
    Anchor = {1}
    MinActive = 2
    MaskThreshold = 2
    RestoreWindows = 2
    RetestLevelMax = 1
    Penalty = {0, 2}
    ScoreMax = 3
    WindowMax = 3
    EpochCount = 3
    Energies = {0, 1, 2}
    SurveyThreshold = 1
    MaxReboots = 1
INVARIANTS TypeOK AnchorsKept FloorKept LiveChannelActive
PROPERTIES MaskRidesEpoch EveryChannelRetested
