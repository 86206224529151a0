--------------------------- MODULE UnusedFunctions ---------------------------
(***************************************************************************)
(* unused_private_fun::analyze for one target package.  The friend         *)
(* functions of every module that deserializes are collected first; then  *)
(* each module is scanned in turn: its private functions that no function  *)
(* of the module calls are reported at once, and every call (Call or       *)
(* CallGeneric, which are handled alike) removes its callee from both the *)
(* module's private set and the package-wide friend set.  The friend set   *)
(* is reported after the last module.                                      *)
(***************************************************************************)
EXTENDS Integers, Sequences, SequencesExt, FiniteSets, Graphs

CONSTANTS
    Modules,       \* the modules of the package, in package_meta order
    ModuleOf,      \* [Functions -> ToSet(Modules)]
    Functions,     \* function definitions, identified by (module, name)
    InitFunctions  \* the functions named "init"

Visibilities == {"Private", "Friend", "Public"}

VARIABLES
    visibility,    \* [Functions -> Visibilities]
    is_entry,      \* [Functions -> BOOLEAN]
    calls,         \* [Functions -> SUBSET Functions]: callees in the code
    readable,      \* modules that deserialize_module_by_str accepts
    pending,       \* modules not yet scanned
    unused_friend_functions,
    reports,
    finished       \* analyze has returned
vars == <<visibility, is_entry, calls, readable, pending,
          unused_friend_functions, reports, finished>>

FunctionsOf(m) == {f \in Functions : ModuleOf[f] = m}

(* The visibility rules the bytecode verifier enforces on a call: a       *)
(* private function is called from its own module only.                    *)
MayCall(g, f) == visibility[f] # "Private" \/ ModuleOf[f] = ModuleOf[g]

(* The friend, non-entry functions of the modules that deserialize.       *)
FriendFunctions(rd) ==
    {f \in Functions : ModuleOf[f] \in rd
                       /\ visibility[f] = "Friend" /\ ~is_entry[f]}

(* Mutant form: the check on the name init is dropped.                     *)
PrivateFunctions_KeepInit(m) ==
    {f \in FunctionsOf(m) : visibility[f] = "Private" /\ ~is_entry[f]}

(* Private functions other than init that are not entry functions.         *)
PrivateFunctions(m) ==
    {f \in FunctionsOf(m) : visibility[f] = "Private"
                            /\ f \notin InitFunctions /\ ~is_entry[f]}

(* Mutant form: only calls into the scanned module itself are seen.        *)
CalledFrom_SameModule(m) ==
    UNION {calls[g] \cap FunctionsOf(m) : g \in FunctionsOf(m)}

(* Every callee of a Call or CallGeneric in the module's function bodies. *)
CalledFrom(m) == UNION {calls[g] : g \in FunctionsOf(m)}

Report(oracle, fs) == [oracle |-> oracle, functions |-> fs]

(* Mutant form: the emptiness check before pushing a report is dropped.    *)
AddReport_Always(rs, oracle, fs) == Append(rs, Report(oracle, fs))

(* `if !unused.is_empty() { reports.push(...) }`                           *)
AddReport(rs, oracle, fs) ==
    IF fs = {} THEN rs ELSE Append(rs, Report(oracle, fs))

Init ==
    /\ visibility \in [Functions -> Visibilities]
    /\ is_entry \in [Functions -> BOOLEAN]
    /\ calls \in [Functions -> SUBSET Functions]
    /\ \A g \in Functions : \A f \in calls[g] : MayCall(g, f)
    /\ readable \in SUBSET ToSet(Modules)
    /\ pending = Modules
    /\ unused_friend_functions = FriendFunctions(readable)
    /\ reports = <<>>
    /\ finished = FALSE

(* One iteration of `for module in modules`: skipped when the module does  *)
(* not deserialize.                                                        *)
ScanModule ==
    /\ pending # <<>>
    /\ LET m == Head(pending)
           unused == PrivateFunctions(m) \ CalledFrom(m)
       IN /\ pending' = Tail(pending)
          /\ IF m \in readable
                THEN /\ unused_friend_functions' = unused_friend_functions \ CalledFrom(m)
                     /\ reports' = AddReport(reports, "StaticUnusedPrivateFunction", unused)
                ELSE UNCHANGED <<unused_friend_functions, reports>>
    /\ UNCHANGED <<visibility, is_entry, calls, readable, finished>>

(* Mutant form: the friend report is made inside the module loop.         *)
LoopDone_Early == TRUE

(* `for module in modules` has taken every module.                         *)
LoopDone == pending = <<>>

(* After the loop the remaining friend functions are reported together.    *)
ReportFriends ==
    /\ LoopDone /\ ~finished
    /\ reports' = AddReport(reports, "StaticUnusedFriendFunction", unused_friend_functions)
    /\ finished' = TRUE
    /\ UNCHANGED <<visibility, is_entry, calls, readable, pending,
                   unused_friend_functions>>

Next == ScanModule \/ ReportFriends
Spec == Init /\ [][Next]_vars

-----------------------------------------------------------------------------
(* Properties.                                                             *)

ReportedBy(oracle) ==
    UNION {reports[k].functions : k \in {j \in 1..Len(reports) : reports[j].oracle = oracle}}

TypeOK ==
    /\ visibility \in [Functions -> Visibilities]
    /\ is_entry \in [Functions -> BOOLEAN]
    /\ calls \in [Functions -> SUBSET Functions]
    /\ readable \subseteq ToSet(Modules)
    /\ pending \in Seq(ToSet(Modules))
    /\ unused_friend_functions \subseteq Functions
    /\ reports \in Seq([oracle : {"StaticUnusedPrivateFunction", "StaticUnusedFriendFunction"},
                        functions : SUBSET Functions \ {{}}])
    /\ finished \in BOOLEAN

(* Callers of f among the functions of the modules that deserialize.       *)
CallersOf(f) == {g \in Functions : ModuleOf[g] \in readable /\ f \in calls[g]}

(* Functions of the deserialized modules with a visibility, not entry and  *)
(* not named init.                                                         *)
Declared(vis) == {f \in Functions : /\ ModuleOf[f] \in readable
                                    /\ visibility[f] = vis /\ ~is_entry[f]
                                    /\ f \notin InitFunctions}

(* When analyze returns, the private report lists exactly the private,     *)
(* non-entry functions other than init of the deserialized modules that no *)
(* function calls; each module's report names that module's functions      *)
(* only.                                                                   *)
PrivateReportExact ==
    finished =>
        /\ ReportedBy("StaticUnusedPrivateFunction")
              = {f \in Declared("Private") : CallersOf(f) = {}}
        /\ \A k \in 1..Len(reports) :
              reports[k].oracle = "StaticUnusedPrivateFunction" =>
                  \E m \in readable : reports[k].functions \subseteq FunctionsOf(m)

(* When analyze returns, the friend report lists exactly the friend,       *)
(* non-entry functions of the deserialized modules that no function of any *)
(* deserialized module calls, whichever module the call is in and whether  *)
(* it is scanned before or after the callee's module.                      *)
FriendReportExact ==
    finished =>
        ReportedBy("StaticUnusedFriendFunction")
            = {f \in Functions : /\ ModuleOf[f] \in readable
                                 /\ visibility[f] = "Friend" /\ ~is_entry[f]
                                 /\ CallersOf(f) = {}}

(* The entry points of a package: everything but private non-entry         *)
(* functions, and init, which the runtime calls on publication.            *)
EntryPoints == {f \in Functions : visibility[f] # "Private" \/ is_entry[f]
                                  \/ f \in InitFunctions}
CallGraph == [node |-> Functions, edge |-> {<<g, f>> \in Functions \X Functions : f \in calls[g]}]
Invocable == EntryPoints \cup UNION {Descendants(CallGraph, e) : e \in EntryPoints}

(* The report's message says the private functions it lists are "never     *)
(* invoked": every private function of a deserialized module that no entry *)
(* point can reach through calls is listed, including one called only from *)
(* itself or from other unreachable functions.                             *)
DeadPrivateReported ==
    finished =>
        Declared("Private") \ Invocable \subseteq ReportedBy("StaticUnusedPrivateFunction")

(* Refinement: scanned in package order, the reports grow one module at a *)
(* time by exactly that module's uncalled private functions, and the      *)
(* uncalled friend functions are reported once, after the last module;    *)
(* no report is made early, late, twice or for a function that is called. *)
Abstract == INSTANCE UnusedReports WITH
    ModuleSet <- ToSet(Modules),
    privCandidates <- [m \in ToSet(Modules) |->
                          {f \in Declared("Private") : ModuleOf[f] = m /\ CallersOf(f) = {}}],
    friendCandidates <- {f \in Functions : /\ ModuleOf[f] \in readable
                                           /\ visibility[f] = "Friend" /\ ~is_entry[f]
                                           /\ CallersOf(f) = {}},
    privReported <- ReportedBy("StaticUnusedPrivateFunction"),
    friendReported <- ReportedBy("StaticUnusedFriendFunction"),
    taken <- ToSet(Modules) \ ToSet(pending),
    closed <- finished
RefinesUnusedReports == Abstract!AbsSpec
=============================================================================
