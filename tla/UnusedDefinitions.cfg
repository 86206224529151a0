CONSTANTS
    m1 = m1  m2 = m2  f1 = f1  f2 = f2  s1 = s1  e1 = e1
    p1 = p1  p2 = p2
    Packages <- MC_Packages
    ModulesOf <- MC_ModulesOf
    FunctionsOf <- MC_FunctionsOf
    Constants = {0, 1}
    Structs = {s1}
    Enums = {e1}
    SigTokens <- MC_SigTokens
    MaxParams = 1
    BadConstantChoices = {{}, {1}}
    LookupChoices <- MC_LookupChoices
SPECIFICATION FairSpec
INVARIANT TypeOK
INVARIANT ConstReportExact
INVARIANT DatatypeReportExact
INVARIANT ErrorOnlyOnStoreOrConstantError
PROPERTY FailsOnStoreOrConstantError
\* run_all has returned, with its reports or with the error.
CHECK_DEADLOCK FALSE
