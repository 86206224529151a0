CONSTANTS
    A = A  B = B  C = C  S = S  swap = swap  deposit = deposit  mint = mint  route = route
    split = split  join = join  T1 = T1  T2 = T2
    Analyses <- MC_Analyses
    StdModules = {S}
    MaxAdds = 5
SPECIFICATION CmdSpec
INVARIANT CmdTypeOK
INVARIANT NodesDeduplicated
INVARIANT EdgesUnique
INVARIANT GraphOfGlobPrefix
PROPERTY RefinesCallRelation
\* The command returns once the graph is written.
CHECK_DEADLOCK FALSE
