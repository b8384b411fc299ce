SPECIFICATION FairSpec
CONSTANTS
    PoolCount = 2
    Anchor = {1}
    EpochCount = 4
    IdlePeriod = 2
    RepeatWindows = 2
    RefreshWindows = 2
    BootMasks = {{0, 1}}
    DownTimes = {1}
    MaxHidChanges = 1
    MaxVotes = 1
    MaxMaskChanges = 1
    MaxTroubles = 0
    MaxReboots = 0
INVARIANTS TypeOK TwoRepliesAtMost
PROPERTY MaskConverges
