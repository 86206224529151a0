------------------------- MODULE MC_BytecodeOracles -------------------------
EXTENDS BytecodeOracles, TLC

(* Temporaries 1 and 2 are booleans, 3 and 4 are u64 values.               *)
MC_LocalTypes == (1 :> "Bool") @@ (2 :> "Bool") @@ (3 :> "U64") @@ (4 :> "U64")

Ld(t, v) == [op |-> "Load", dst |-> t, c |-> v]
Op(d, f, s) == [op |-> "Call", dsts |-> d, fn |-> f, srcs |-> s]
Br(th, el, t) == [op |-> "Branch", then |-> th, else |-> el, cond |-> t]
Lbl(l) == [op |-> "Label", label |-> l]

(* Well-typed instructions: boolean and u64 constants, a copy, a boolean   *)
(* call, a comparison, division, sqrt, a product, and two branches over    *)
(* two labels.                                                             *)
MC_Alphabet ==
    { Ld(1, "true"), Ld(1, "false"), Ld(3, "int"),
      [op |-> "Assign", dst |-> 2, src |-> 1],
      Op(<<2>>, "is_empty", <<>>),
      Op(<<2>>, "Eq", <<1, 1>>), Op(<<1>>, "Neq", <<2, 1>>),
      Op(<<4>>, "Div", <<3, 3>>),
      Op(<<4>>, "sqrt", <<3>>),
      Op(<<3>>, "Mul", <<3, 4>>),
      Br("L1", "L2", 1), Br("L2", "L1", 1),
      Lbl("L1"), Lbl("L2") }

(* The same, with a call of two results, a u64 then a boolean (say a       *)
(* function returning (u64, bool)).                                        *)
MC_AlphabetTwoResults == MC_Alphabet \cup { Op(<<3, 2>>, "try_get", <<>>) }
=============================================================================
