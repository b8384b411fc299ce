SPECIFICATION LatchSpec
CONSTANT MaxPublishes = 6
INVARIANTS NoTornRead NoLostPublication
CHECK_DEADLOCK FALSE
