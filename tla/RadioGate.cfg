SPECIFICATION FairSpec
CONSTANTS
    FifoSize = 2
    MaxRequests = 2
INVARIANT NewestSettingWins
INVARIANT ActiveKeepsClock
PROPERTY SettingReachesRadio
PROPERTY IdleLetsClockGo
