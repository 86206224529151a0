CONSTANTS
    Temps = {1, 2, 3, 4}
    LocalTypes <- MC_LocalTypes
    Labels = {"L1", "L2"}
    Alphabet <- MC_Alphabet
    MaxCode = 5
SPECIFICATION Spec
INVARIANT TypeOK
INVARIANT InfiniteLoopFlagsExactly
INVARIANT PrecisionLossFlagsExactly
\* Once analysed the function is final: the run stops there.
CHECK_DEADLOCK FALSE
