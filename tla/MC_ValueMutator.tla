--------------------------- MODULE MC_ValueMutator ---------------------------
(* Instantiation of ValueMutator for TLC: one-bit bytes, so that a U128   *)
(* still fits TLC's integers, and a pool of bit strings of lengths 0, 1,  *)
(* 2 and 4 (the widths of U8, U16, a 2-element U8 vector and U32).        *)
EXTENDS ValueMutator

MC_MagicCandidates == {<<>>, <<1>>, <<0, 1>>, <<1, 0, 1, 1>>}
==============================================================================
