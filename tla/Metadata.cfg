CONSTANTS
    p1 = p1  p2 = p2  p3 = p3  ma = ma  mb = mb  f = f  g = g  s = s  t = t  u = u  o1 = o1
    T1 = T1  T2 = T2
    PkgOrder <- MC_PkgOrder
    ModAddrs = {p1, p3}
    ModNames = {ma, mb}
    FnNames = {f, g}
    StructDefs <- MC_StructDefs
    AbiChoices <- MC_AbiChoices
    LocalIds = {p2}
    Versions = {1, 2}
    Abilities = {"copy", "drop", "store", "key"}
    Objects = {o1}
    TypeTags = {T1, T2}
    VersionErrChoices = {{}, {p1}, {p2}, {p3}}
    IncludeChoices <- MC_IncludeChoices
    ExcludeChoices <- MC_ExcludeChoices
SPECIFICATION Spec
INVARIANT TypeOK
INVARIANT LatestPackageWins
INVARIANT FailsOnlyOnStoreError
INVARIANT PackageMetadataIsLatest
INVARIANT AbilityMapExact
INVARIANT TypesPoolFiltered
\* Construction ends, built or failed.
CHECK_DEADLOCK FALSE
