SPECIFICATION FairSpec
CONSTANTS
    b1 = b1
    b2 = b2
    Keys <- MCKeys
    RegOf <- MCRegOf
    RegMax = 2
    HeldKeysMax = 2
    HeldAtOnce = 2
    TxFifoSize = 3
    MaxTransitions = 4
    MaxReboots = 1
INVARIANTS TrackedInputIsHeld NoRepeatedPress StalePipeHoldsNoButton
PROPERTY InputConverges
