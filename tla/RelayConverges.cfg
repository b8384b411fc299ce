SPECIFICATION FairSpec
CONSTANTS
    QueueDepth = 1
    ReplyRoom = 2
    MaxKeys = 1
    MaxClicks = 1
    MaxMotion = 1
    MaxEndpoints = 1
PROPERTY RelayConverges
