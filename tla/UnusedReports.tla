----------------------------- MODULE UnusedReports -----------------------------
(***************************************************************************)
(* What the unused private and friend function oracle promises for one     *)
(* package, without its sets and call scan: the modules are taken one at a *)
(* time, in any order, and each adds to the private report the private     *)
(* functions of that module nobody calls; once every module has been      *)
(* taken, the friend functions nobody calls are reported, once.  Which     *)
(* functions are uncalled is fixed for the run: privCandidates and         *)
(* friendCandidates never change.  UnusedFunctions is shown to implement  *)
(* this specification.                                                     *)
(***************************************************************************)
CONSTANTS ModuleSet   \* the modules of the package

VARIABLES
    privCandidates,    \* [ModuleSet -> SUBSET functions]: uncalled privates
    friendCandidates,  \* uncalled friend functions of the package
    privReported,      \* functions the private reports name so far
    friendReported,    \* functions the friend report names
    taken,             \* modules already taken
    closed             \* the friend report has been made
absvars == <<privCandidates, friendCandidates, privReported, friendReported, taken, closed>>

AbsInit ==
    /\ privReported = {}
    /\ friendReported = {}
    /\ taken = {}
    /\ closed = FALSE

(* Take a module: report its uncalled private functions.                   *)
TakeModule(m) ==
    /\ m \notin taken /\ ~closed
    /\ privReported' = privReported \cup privCandidates[m]
    /\ taken' = taken \cup {m}
    /\ UNCHANGED <<privCandidates, friendCandidates, friendReported, closed>>

(* After the last module: report the uncalled friend functions.            *)
CloseReport ==
    /\ taken = ModuleSet /\ ~closed
    /\ friendReported' = friendCandidates
    /\ closed' = TRUE
    /\ UNCHANGED <<privCandidates, friendCandidates, privReported, taken>>

AbsNext == (\E m \in ModuleSet : TakeModule(m)) \/ CloseReport
AbsSpec == AbsInit /\ [][AbsNext]_absvars
=============================================================================
