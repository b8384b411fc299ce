SPECIFICATION Spec
CONSTANTS
    QueueDepth = 2
    ReplyRoom = 2
    MaxKeys = 1
    MaxClicks = 2
    MaxMotion = 1
    MaxEndpoints = 1
INVARIANT QueueAccounted
PROPERTIES KeysNeverBackwards ButtonsInOrder MotionOnce
