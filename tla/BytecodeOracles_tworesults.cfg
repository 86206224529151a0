CONSTANTS
    Temps = {1, 2, 3, 4}
    LocalTypes <- MC_LocalTypes
    Labels = {"L1", "L2"}
    Alphabet <- MC_AlphabetTwoResults
    MaxCode = 4
SPECIFICATION Spec
INVARIANT BoolJudgementFlagsExactly
\* Once analysed the function is final: the run stops there.
CHECK_DEADLOCK FALSE
