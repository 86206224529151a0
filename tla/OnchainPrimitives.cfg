CONSTANTS
    MaxCkpt = 3
    EpochOf <- MC_EpochOf
    EpochStart <- MC_EpochStart
    NoArg = NoArg
SPECIFICATION Spec
INVARIANT TypeOK
INVARIANT GivenArgumentsKept
INVARIANT InferredConsistent
INVARIANT ArgumentErrorsExact
\* The function has returned: nothing follows.
CHECK_DEADLOCK FALSE
