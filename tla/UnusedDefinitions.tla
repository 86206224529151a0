-------------------------- MODULE UnusedDefinitions --------------------------
(***************************************************************************)
(* unused_const::analyze and unused_struct::analyze.  Each walks the      *)
(* target packages in order: a package whose object, package info or     *)
(* package data is missing is skipped, and a failed get_package_info      *)
(* returns the error.  Within a package it walks the modules in           *)
(* package_meta order, skips a module that does not deserialize, marks     *)
(* what the module's function definitions touch (LdConst; Pack,           *)
(* PackGeneric, PackVariant, PackVariantGeneric; a by-value struct         *)
(* parameter) and reports what is left unmarked.  run_all runs the        *)
(* constant pass before the struct pass.                                   *)
(***************************************************************************)
EXTENDS Integers, Sequences, SequencesExt, FiniteSets

CONSTANTS
    Packages,     \* target_packages, in order
    ModulesOf,    \* [ToSet(Packages) -> Seq(modules)]: package_meta order
    FunctionsOf,  \* [Modules -> SUBSET function definitions]
    Constants,    \* constant-pool indices of every module
    Structs,      \* struct definitions of every module
    Enums,        \* enum definitions of every module
    SigTokens,    \* parameter signature tokens: [kind, datatype]
    MaxParams,    \* bound on the parameters of one function
    BadConstantChoices, \* sets of constant indices deserialize_constant rejects
    LookupChoices \* [ToSet(Packages) -> {"Ok", "Skip", "InfoErr"}]: the store's answers

Modules == UNION {ToSet(ModulesOf[p]) : p \in ToSet(Packages)}
PkgOf(m) == CHOOSE p \in ToSet(Packages) : m \in ToSet(ModulesOf[p])

VARIABLES
    ld_const,     \* [Functions -> SUBSET Constants]: LdConst operands
    packs,        \* [Functions -> SUBSET (Structs \cup Enums)]: Pack* operands
    parameters,   \* [Functions -> SUBSET SigTokens]
    readable,     \* modules that deserialize_module_by_str accepts
    lookup,       \* [Packages -> outcome]: the three lookups of a package
    pkgs_pending, \* packages the current pass has yet to visit
    pending,      \* modules of the current package the pass has yet to visit
    undeserializable, \* constants whose deserialize_constant returns None
    pass,         \* "Const", "Struct", "Done", or "Error" when run_all returned Err
    reports
vars == <<ld_const, packs, parameters, readable, lookup, undeserializable, pkgs_pending,
          pending, pass, reports>>

Functions == UNION {FunctionsOf[m] : m \in Modules}

Report(oracle, m, items) == [oracle |-> oracle, module |-> m, items |-> items]

(* Mutant form: the is_empty check before the push is dropped.             *)
Push_Always(rs, oracle, m, items) == Append(rs, Report(oracle, m, items))

(* The reports one pass appends for a module, from what it left unmarked;   *)
(* an empty set gives no report.                                            *)
Push(rs, oracle, m, items) ==
    IF items = {} THEN rs ELSE Append(rs, Report(oracle, m, items))

-----------------------------------------------------------------------------
(* unused_const.rs                                                         *)

(* Mutant form: is_visited is rebuilt for each function instead of shared. *)
ConstVisited_LastOnly(fs) ==
    IF fs = {} THEN {} ELSE ld_const[CHOOSE f \in fs : TRUE]

(* is_visited: every constant an LdConst of some function loads.            *)
ConstVisited(fs) == UNION {ld_const[f] : f \in fs}

(* Mutant form: every constant of the pool is deserialized, used or not.   *)
FailsToDeserialize_AllConstants(m) == Constants \cap undeserializable # {}

(* The `?` on deserialize_constant: some unused constant fails, and        *)
(* analyze (and with it run_all) returns the error.                        *)
FailsToDeserialize(m) ==
    (Constants \ ConstVisited(FunctionsOf[m])) \cap undeserializable # {}

ScanConstants ==
    /\ pass = "Const" /\ pending # <<>>
    /\ LET m == Head(pending)
       IN IF m \in readable /\ FailsToDeserialize(m)
          THEN /\ pass' = "Error"
               /\ UNCHANGED <<pending, reports>>
          ELSE /\ pending' = Tail(pending)
               /\ reports' = IF m \in readable
                             THEN Push(reports, "StaticUnusedConstant", m,
                                       Constants \ ConstVisited(FunctionsOf[m]))
                             ELSE reports
               /\ UNCHANGED pass
    /\ UNCHANGED <<ld_const, packs, parameters, readable, lookup, undeserializable, pkgs_pending>>

-----------------------------------------------------------------------------
(* unused_struct.rs                                                        *)

(* Mutant form: a reference parameter also marks its struct.               *)
ParamMarks_WithRefs(f) ==
    {t.datatype : t \in {t \in parameters[f] : t.kind \in {"Datatype", "Ref"}}} \cap Structs

(* Only a parameter whose token is Datatype(idx) of a struct of the module *)
(* marks it; &S, vector<S> and generic instantiations do not, nor do enums. *)
ParamMarks(f) ==
    {t.datatype : t \in {t \in parameters[f] : t.kind = "Datatype"}} \cap Structs

StructVisited(fs) ==
    UNION {ParamMarks(f) \cup (packs[f] \cap Structs) : f \in fs}

EnumVisited(fs) == UNION {packs[f] \cap Enums : f \in fs}

ScanStructs ==
    /\ pass = "Struct" /\ pending # <<>>
    /\ LET m == Head(pending)
           f == FunctionsOf[m]
       IN /\ pending' = Tail(pending)
          /\ reports' = IF m \in readable
                        THEN Push(Push(reports, "StaticUnusedStruct", m,
                                       Structs \ StructVisited(f)),
                                  "StaticUnusedEnum", m, Enums \ EnumVisited(f))
                        ELSE reports
    /\ UNCHANGED <<ld_const, packs, parameters, readable, lookup, undeserializable,
                   pkgs_pending, pass>>

-----------------------------------------------------------------------------
(* The package loop both passes share.                                     *)

(* Mutant form: a failed package-info lookup is skipped like a missing one. *)
AbortsOn_Never(outcome) == FALSE

(* The `?` of get_package_info is the only lookup failure that is an      *)
(* error; a missing object, package info or package data is a `continue`.  *)
AbortsOn(outcome) == outcome = "InfoErr"

EnterPackage ==
    /\ pass \in {"Const", "Struct"} /\ pending = <<>> /\ pkgs_pending # <<>>
    /\ LET p == Head(pkgs_pending)
       IN IF AbortsOn(lookup[p])
          THEN /\ pass' = "Error"
               /\ UNCHANGED <<pkgs_pending, pending>>
          ELSE /\ pkgs_pending' = Tail(pkgs_pending)
               /\ pending' = IF lookup[p] = "Ok" THEN ModulesOf[p] ELSE <<>>
               /\ UNCHANGED pass
    /\ UNCHANGED <<ld_const, packs, parameters, readable, lookup, undeserializable, reports>>

(* run_all: one pass after the other.                                      *)
NextPass ==
    /\ pending = <<>> /\ pkgs_pending = <<>> /\ pass \in {"Const", "Struct"}
    /\ pass' = IF pass = "Const" THEN "Struct" ELSE "Done"
    /\ pkgs_pending' = IF pass = "Const" THEN Packages ELSE <<>>
    /\ UNCHANGED <<ld_const, packs, parameters, readable, lookup, undeserializable,
                   pending, reports>>

Init ==
    /\ ld_const \in [Functions -> SUBSET Constants]
    /\ packs \in [Functions -> SUBSET (Structs \cup Enums)]
    /\ parameters \in [Functions -> {ps \in SUBSET SigTokens : Cardinality(ps) <= MaxParams}]
    /\ readable \in SUBSET Modules
    /\ lookup \in LookupChoices
    /\ undeserializable \in BadConstantChoices
    /\ pkgs_pending = Packages
    /\ pending = <<>>
    /\ pass = "Const"
    /\ reports = <<>>

Next == EnterPackage \/ ScanConstants \/ ScanStructs \/ NextPass
Spec == Init /\ [][Next]_vars

(* run_all is a sequential function: once called it runs to its end.       *)
FairSpec == Spec /\ WF_vars(Next)

-----------------------------------------------------------------------------
(* Properties.                                                             *)

ReportedIn(oracle, m) ==
    UNION {reports[k].items : k \in {j \in 1..Len(reports) :
                                       reports[j].oracle = oracle /\ reports[j].module = m}}

TypeOK ==
    /\ ld_const \in [Functions -> SUBSET Constants]
    /\ packs \in [Functions -> SUBSET (Structs \cup Enums)]
    /\ parameters \in [Functions -> SUBSET SigTokens]
    /\ readable \subseteq Modules
    /\ lookup \in [ToSet(Packages) -> {"Ok", "Skip", "InfoErr"}]
    /\ pkgs_pending \in Seq(ToSet(Packages))
    /\ pending \in Seq(Modules)
    /\ undeserializable \subseteq Constants
    /\ pass \in {"Const", "Struct", "Done", "Error"}
    /\ reports \in Seq([oracle : {"StaticUnusedConstant", "StaticUnusedStruct", "StaticUnusedEnum"},
                        module : Modules,
                        items : SUBSET (Constants \cup Structs \cup Enums) \ {{}}])

(* The modules a pass analyses: deserialized, in a package all of whose   *)
(* lookups succeed.                                                        *)
Scanned == {m \in readable : lookup[PkgOf(m)] = "Ok"}

(* Once the constant pass is over, each analysed module has at most one    *)
(* constant report, listing exactly the constants no LdConst of any of the *)
(* module's functions loads; a module that does not deserialize, or whose  *)
(* package is skipped, has none.                                           *)
ConstReportExact ==
    pass \in {"Struct", "Done"} =>
        \A m \in Modules :
            /\ ReportedIn("StaticUnusedConstant", m)
                  = IF m \in Scanned
                    THEN {c \in Constants : \A f \in FunctionsOf[m] : c \notin ld_const[f]}
                    ELSE {}
            /\ Cardinality({k \in 1..Len(reports) : reports[k].oracle = "StaticUnusedConstant"
                                                  /\ reports[k].module = m}) <= 1

(* When both passes are over, a struct of an analysed module is reported   *)
(* unless some function packs it or takes it by value, and an enum unless  *)
(* some function packs one of its variants; other modules have no report.  *)
DatatypeReportExact ==
    pass = "Done" =>
        \A m \in Modules :
            /\ ReportedIn("StaticUnusedStruct", m)
                  = IF m \notin Scanned THEN {}
                    ELSE {s \in Structs : \A f \in FunctionsOf[m] :
                            s \notin packs[f] /\ [kind |-> "Datatype", datatype |-> s] \notin parameters[f]}
            /\ ReportedIn("StaticUnusedEnum", m)
                  = IF m \notin Scanned THEN {}
                    ELSE {e \in Enums : \A f \in FunctionsOf[m] : e \notin packs[f]}

(* An analysed module has a constant no function loads and that           *)
(* deserialize_constant rejects.                                           *)
BadUnusedConstant ==
    \E m \in Scanned : \E c \in undeserializable :
        \A f \in FunctionsOf[m] : c \notin ld_const[f]

(* The store fails to answer get_package_info for some target package.     *)
StoreError == \E p \in ToSet(Packages) : lookup[p] = "InfoErr"

(* run_all fails only on a store error or an unused constant that does not *)
(* deserialize: a rejected constant that some function loads is never      *)
(* deserialized, and a skipped module or package is never looked at.       *)
ErrorOnlyOnStoreOrConstantError ==
    pass = "Error" => StoreError \/ BadUnusedConstant

(* Conversely, either makes run_all fail, whichever package or constant it *)
(* is: the oracles do not return Ok with reports that leave out a package  *)
(* the store could not describe, or a constant they could not print.       *)
FailsOnStoreOrConstantError ==
    StoreError \/ BadUnusedConstant ~> pass = "Error"
=============================================================================
