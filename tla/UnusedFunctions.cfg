CONSTANTS
    m1 = m1  m2 = m2  f1 = f1  f2 = f2  g1 = g1
    Modules <- MC_Modules
    Functions = {f1, f2, g1}
    ModuleOf <- MC_ModuleOf
    InitFunctions = {g1}
SPECIFICATION Spec
INVARIANT TypeOK
INVARIANT PrivateReportExact
INVARIANT FriendReportExact
PROPERTY RefinesUnusedReports
\* analyze returns once: the behaviour ends there.
CHECK_DEADLOCK FALSE
