SPECIFICATION FairSpec
CONSTANTS
    PoolCount = 3
    Anchor = {1}
    EpochCount = 3
    IdlePeriod = 2
    RepeatWindows = 2
    RefreshWindows = 2
    BootMasks = {{1, 2}}
    DownTimes = {10}
    MaxHidChanges = 0
    MaxVotes = 0
    MaxMaskChanges = 0
    MaxTroubles = 1
    MaxReboots = 1
PROPERTY Rejoins
