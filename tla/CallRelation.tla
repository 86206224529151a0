----------------------------- MODULE CallRelation -----------------------------
(***************************************************************************)
(* What MoveCallGraph promises, without its arena: a set of functions and  *)
(* a set of labelled calls between them.  Adding the analysis of a module *)
(* not seen before adds its callers, its callees and one call per distinct *)
(* (caller, callee, type arguments); adding a module seen before changes   *)
(* nothing.  CallGraph is shown to implement this specification.          *)
(***************************************************************************)
EXTENDS SequencesExt

CONSTANTS Analyses   \* [module, calls: Seq([caller, calls: Seq([module, function, tys])])]

VARIABLES
    functions,   \* the (module, function) pairs of the graph
    calls,       \* the set of [src, dst, tys] calls
    added        \* the module ids whose analysis has been taken
absvars == <<functions, calls, added>>

Fn(m, f) == [module |-> m, function |-> f]

(* The callers of an analysis and the functions they call.                 *)
CallersOf(r) == {Fn(r.module, c.caller) : c \in ToSet(r.calls)}
CalleesOf(r) == UNION {{Fn(x.module, x.function) : x \in ToSet(c.calls)} : c \in ToSet(r.calls)}

(* One call per caller, callee and list of type arguments.                 *)
CallsOf(r) == UNION {{[src |-> Fn(r.module, c.caller), dst |-> Fn(x.module, x.function),
                       tys |-> x.tys] : x \in ToSet(c.calls)} : c \in ToSet(r.calls)}

AbsInit ==
    /\ functions = {}
    /\ calls = {}
    /\ added = {}

(* Take the analysis of a module not yet in the graph.                     *)
AddModule(r) ==
    /\ r.module \notin added
    /\ functions' = functions \cup CallersOf(r) \cup CalleesOf(r)
    /\ calls' = calls \cup CallsOf(r)
    /\ added' = added \cup {r.module}

AbsNext == \E r \in Analyses : AddModule(r)
AbsSpec == AbsInit /\ [][AbsNext]_absvars
=============================================================================
