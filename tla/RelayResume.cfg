SPECIFICATION FairSpec
CONSTANTS
    QueueDepth = 1
    ReplyRoom = 2
    MaxKeys = 0
    MaxClicks = 1
    MaxMotion = 0
    MaxEndpoints = 2
PROPERTY HeldButtonReturns
