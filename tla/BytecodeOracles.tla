--------------------------- MODULE BytecodeOracles ---------------------------
(***************************************************************************)
(* The per-function static oracles of movy-static-analysis/src/sui:        *)
(* bool_judgement, infinite_loop and precision_loss.  Each scans the       *)
(* stackless bytecode of every non-native function of a module and, for    *)
(* the operands of one instruction, looks up the instruction that defines *)
(* them (common::get_def_bytecode).                                        *)
(*                                                                         *)
(* The function under analysis is built one instruction at a time from a  *)
(* small alphabet, so that every short body over that alphabet is checked; *)
(* Analyze then runs the three passes of run_all over it.  Offsets are     *)
(* 1-based here and 0-based in the code; only their order matters.        *)
(***************************************************************************)
EXTENDS Integers, Sequences, SequencesExt

CONSTANTS
    Temps,        \* stackless temporaries (locals and parameters)
    LocalTypes,   \* [Temps -> {"Bool", "U64"}]: FunctionInfo.local_types
    Labels,       \* branch labels
    Alphabet,     \* the instructions a body is built from
    MaxCode       \* bound on the length of a body

None == [op |-> "None"]

(* Constant::Bool(true), Constant::Bool(false), and any other constant.   *)
BoolConst == [b \in BOOLEAN |-> IF b THEN "true" ELSE "false"]
IsBoolConst(c) == c \in {"true", "false"}

VARIABLES code, native, phase, reports
vars == <<code, native, phase, reports>>

(* SLBytecode::label_offsets: the offset of each Label instruction.         *)
LabelsOf(c) == {c[o].label : o \in {p \in 1..Len(c) : c[p].op = "Label"}}
LabelOffset(c, l) ==
    CHOOSE o \in 1..Len(c) : c[o].op = "Label" /\ c[o].label = l

(* The temporaries an instruction assigns.                                 *)
Dsts(i) ==
    CASE i.op \in {"Load", "Assign"} -> {i.dst}
      [] i.op = "Call"               -> ToSet(i.dsts)
      [] OTHER                       -> {}

(* common::get_def_bytecode (not in this tree): the nearest instruction    *)
(* before the use at `offset` that assigns `temp`, or None.                *)
GetDef(c, temp, offset) ==
    LET defs == {o \in 1..(offset - 1) : temp \in Dsts(c[o])}
    IN IF defs = {} THEN None
       ELSE c[CHOOSE o \in defs : \A p \in defs : p <= o]

-----------------------------------------------------------------------------
(* infinite_loop.rs                                                        *)

(* Mutant form: the branch taken on a constant is the other one.         *)
TakenLabel_Swapped(i, v) == IF v THEN i.else ELSE i.then

(* The label a branch jumps to when its condition is the constant v.       *)
TakenLabel(i, v) == IF v THEN i.then ELSE i.else

detect_infinite_loop(c) ==
    \E o \in 1..Len(c) :
        LET i == c[o]
            d == GetDef(c, i.cond, o)
        IN /\ i.op = "Branch"
           /\ d.op = "Load" /\ IsBoolConst(d.c)
           /\ i.then \in LabelsOf(c) /\ i.else \in LabelsOf(c)
           /\ LabelOffset(c, TakenLabel(i, d.c = "true")) <= o

-----------------------------------------------------------------------------
(* bool_judgement.rs                                                       *)

is_ld_bool(d) == d.op = "Load" /\ IsBoolConst(d.c)

(* A call counts by the type of its first destination only.                *)
ret_is_bool(d) ==
    \/ d.op = "Call" /\ d.dsts # <<>> /\ LocalTypes[d.dsts[1]] = "Bool"
    \/ d.op \in {"Assign", "Load"} /\ LocalTypes[d.dst] = "Bool"

detect_bool_judgement(c) ==
    \E o \in 1..Len(c) :
        LET i == c[o] IN
        /\ i.op = "Call" /\ i.fn \in {"Eq", "Neq"}
        /\ Len(i.srcs) = 2
        /\ LET l == GetDef(c, i.srcs[1], o)
               r == GetDef(c, i.srcs[2], o)
           IN /\ l # None /\ r # None
              /\ \/ is_ld_bool(l) /\ ret_is_bool(r)
                 \/ is_ld_bool(r) /\ ret_is_bool(l)

-----------------------------------------------------------------------------
(* precision_loss.rs                                                       *)

is_div(d) == d.op = "Call" /\ d.fn = "Div"

(* A call of a function named "sqrt", whatever its module.                 *)
is_sqrt(d) == d.op = "Call" /\ d.fn = "sqrt"

(* Mutant form: only the first operand of the product is inspected.        *)
detect_precision_loss_FirstOnly(c) ==
    \E o \in 1..Len(c) :
        /\ c[o].op = "Call" /\ c[o].fn = "Mul" /\ Len(c[o].srcs) = 2
        /\ LET a == GetDef(c, c[o].srcs[1], o) IN is_div(a) \/ is_sqrt(a)

detect_precision_loss(c) ==
    \E o \in 1..Len(c) :
        LET i == c[o] IN
        /\ i.op = "Call" /\ i.fn = "Mul" /\ Len(i.srcs) = 2
        /\ LET a == GetDef(c, i.srcs[1], o)
               b == GetDef(c, i.srcs[2], o)
           IN /\ a # None /\ b # None
              /\ is_div(a) \/ is_div(b) \/ is_sqrt(a) \/ is_sqrt(b)

-----------------------------------------------------------------------------
(* The analyze function of each oracle: skip native functions, report the *)
(* function when its detector fires, in run_all's order.                  *)
Finding(oracle, severity) == [oracle |-> oracle, severity |-> severity]

(* The order run_all extends its report list in.                           *)
RunAllOrder == <<"StaticBoolJudgement", "StaticInfiniteLoop", "StaticPrecisionLoss">>

(* Each oracle's analyze: skip a native function, else push one finding  *)
(* when the detector fires.                                                *)
bool_judgement_analyze(c, isNative) ==
    IF isNative \/ ~detect_bool_judgement(c) THEN <<>>
    ELSE <<Finding("StaticBoolJudgement", "Minor")>>

infinite_loop_analyze(c, isNative) ==
    IF isNative \/ ~detect_infinite_loop(c) THEN <<>>
    ELSE <<Finding("StaticInfiniteLoop", "Major")>>

precision_loss_analyze(c, isNative) ==
    IF isNative \/ ~detect_precision_loss(c) THEN <<>>
    ELSE <<Finding("StaticPrecisionLoss", "Medium")>>

(* Mutant form: precision loss is reported before the other two.           *)
analyze_Swapped(c, isNative) ==
    precision_loss_analyze(c, isNative) \o bool_judgement_analyze(c, isNative)
        \o infinite_loop_analyze(c, isNative)

(* run_all: the reports of the three oracles, one after the other.         *)
analyze(c, isNative) ==
    bool_judgement_analyze(c, isNative) \o infinite_loop_analyze(c, isNative)
        \o precision_loss_analyze(c, isNative)

(* The body grows by one instruction; a native function has no body.      *)
Emit ==
    /\ phase = "Gen" /\ ~native /\ Len(code) < MaxCode
    /\ \E i \in Alphabet : code' = Append(code, i)
    /\ UNCHANGED <<native, phase, reports>>

Analyze ==
    /\ phase = "Gen"
    /\ reports' = analyze(code, native)
    /\ phase' = "Done"
    /\ UNCHANGED <<code, native>>

Init ==
    /\ code = <<>>
    /\ native \in BOOLEAN
    /\ phase = "Gen"
    /\ reports = <<>>

Next == Emit \/ Analyze
Spec == Init /\ [][Next]_vars

-----------------------------------------------------------------------------
(* Properties.  The reference definitions restate the oracle descriptions *)
(* of spec sections 4.4 and 8 over the whole body, and are compared with  *)
(* the reports Analyze produced.                                           *)

Instr == [op : {"Load"}, dst : Temps, c : {"true", "false", "int"}]
          \cup [op : {"Assign"}, dst : Temps, src : Temps]
          \cup [op : {"Call"}, dsts : Seq(Temps), fn : STRING, srcs : Seq(Temps)]
          \cup [op : {"Branch"}, then : Labels, else : Labels, cond : Temps]
          \cup [op : {"Label"}, label : Labels]

Uses(i) ==
    CASE i.op = "Assign" -> {i.src}
      [] i.op = "Call"   -> ToSet(i.srcs)
      [] i.op = "Branch" -> {i.cond}
      [] OTHER           -> {}

(* Bodies a Move compiler emits: each label placed once, every branch      *)
(* target placed, every temporary assigned before it is read.              *)
WellFormed(c) ==
    /\ \A o, p \in 1..Len(c) :
          c[o].op = "Label" /\ c[p].op = "Label" /\ c[o].label = c[p].label => o = p
    /\ \A o \in 1..Len(c) :
          /\ c[o].op = "Branch" => {c[o].then, c[o].else} \subseteq LabelsOf(c)
          /\ \A t \in Uses(c[o]) : \E p \in 1..(o - 1) : t \in Dsts(c[p])

Reported(name) == \E k \in 1..Len(reports) : reports[k].oracle = name
Checked == phase = "Done" /\ ~native /\ WellFormed(code)

RankOf(name) == CHOOSE k \in 1..Len(RunAllOrder) : RunAllOrder[k] = name

TypeOK ==
    /\ code \in Seq(Instr) /\ Len(code) <= MaxCode
    /\ native \in BOOLEAN
    /\ phase \in {"Gen", "Done"}
    /\ reports \in Seq([oracle : ToSet(RunAllOrder),
                        severity : {"Major", "Medium", "Minor"}])
    /\ \A j, k \in 1..Len(reports) :
          j < k => RankOf(reports[j].oracle) < RankOf(reports[k].oracle)
    /\ native => reports = <<>>

(* Spec 8: a branch whose condition is locally defined as a boolean        *)
(* constant, and whose taken target lies at or before the branch, makes    *)
(* StaticInfiniteLoop flag the function; a strictly forward target does     *)
(* not.  Checks detect_infinite_loop's label lookup and constant dispatch. *)
LoopsBack(c) ==
    \E o \in 1..Len(c) :
        /\ c[o].op = "Branch"
        /\ \E v \in BOOLEAN :
              /\ GetDef(c, c[o].cond, o) = [op |-> "Load", dst |-> c[o].cond,
                                              c |-> BoolConst[v]]
              /\ \E p \in 1..o : c[p] = [op |-> "Label",
                                         label |-> IF v THEN c[o].then ELSE c[o].else]
InfiniteLoopFlagsExactly ==
    Checked => (Reported("StaticInfiniteLoop") <=> LoopsBack(code))

(* Spec 8: a function that compares, by == or !=, a loaded boolean        *)
(* constant with another boolean-typed value is flagged by                 *)
(* StaticBoolJudgement, and no other function is.                          *)
ComparesWithLiteral(c) ==
    \E o \in 1..Len(c) :
        /\ c[o].op = "Call" /\ c[o].fn \in {"Eq", "Neq"} /\ Len(c[o].srcs) = 2
        /\ \E k \in 1..2 :
              LET lit == c[o].srcs[k]
                  other == c[o].srcs[3 - k]
              IN /\ GetDef(c, lit, o).op = "Load"
                 /\ GetDef(c, lit, o).c \in {BoolConst[v] : v \in BOOLEAN}
                 /\ LocalTypes[other] = "Bool"
BoolJudgementFlagsExactly ==
    Checked => (Reported("StaticBoolJudgement") <=> ComparesWithLiteral(code))

(* Spec 4.4: a multiplication one of whose operands is the result of a    *)
(* division or of a square root makes StaticPrecisionLoss flag the          *)
(* function, and nothing else does.                                        *)
MultipliesQuotient(c) ==
    \E o \in 1..Len(c) :
        /\ c[o].op = "Call" /\ c[o].fn = "Mul"
        /\ \E t \in ToSet(c[o].srcs) : GetDef(c, t, o).op = "Call"
                                      /\ GetDef(c, t, o).fn \in {"Div", "sqrt"}
PrecisionLossFlagsExactly ==
    Checked => (Reported("StaticPrecisionLoss") <=> MultipliesQuotient(code))
=============================================================================
