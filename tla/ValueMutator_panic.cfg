CONSTANTS
  ByteBits = 1
  SmallIntBound = 5
  IntTags = {"U8", "U16", "U32", "U64", "U128"}
  VecElemTags = {"U8", "U16"}
  MaxVecLen = 2
  Addresses = {a1, a2}
  Callers = {c1}
  MagicCandidates <- MC_MagicCandidates

SPECIFICATION Spec

INVARIANT NoPanic

\* a panic in commit aborts the fuzzer: no step follows it
CHECK_DEADLOCK FALSE
