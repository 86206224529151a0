------------------------------ MODULE CallGraph ------------------------------
(***************************************************************************)
(* MoveCallGraph (movy-analysis/src/call_graph.rs): a petgraph arena of    *)
(* (module, function) nodes with an index map for deduplication, and      *)
(* edges labelled with the call's type arguments.  add_bytecode_analysis  *)
(* ignores a module it has already seen; otherwise, for each caller of the *)
(* analysis and each distinct call it makes, it looks up or adds both     *)
(* nodes and adds an edge.  Analyses arrive in any order, any number of   *)
(* times.                                                                  *)
(***************************************************************************)
EXTENDS Integers, Sequences, SequencesExt, FiniteSets, Functions

CONSTANTS
    Analyses,   \* MoveModuleBytecodeAnalysis values: [module, calls]
    MaxAdds     \* bound on the number of add_bytecode_analysis calls

(* An analysis: its module id, and for each caller in order the sequence of *)
(* its calls [module, function, tys], duplicates included.                  *)

VARIABLES
    nodes,      \* graph.node_weights: Seq of [module, function]
    functions,  \* the index map: [node -> position in nodes]
    edges,      \* graph edges in insertion order: Seq of [src, dst, tys]
    modules,    \* module ids already added
    adds        \* add_bytecode_analysis calls so far
vars == <<nodes, functions, edges, modules, adds>>

Node(m, f) == [module |-> m, function |-> f]

(* Mutant form: the index is recorded but the node is never pushed.       *)
may_add_function_NoPush(g, n) ==
    IF n \in DOMAIN g.functions THEN g
    ELSE [g EXCEPT !.functions = n :> Len(g.nodes) + 1 @@ g.functions]

(* Mutant form: the index map is not consulted and a node is always added. *)
may_add_function_Always(g, n) ==
    [g EXCEPT !.nodes = Append(@, n),
              !.functions = n :> Len(g.nodes) + 1 @@ g.functions]

(* Look the node up in the index map, or push it and record its index;     *)
(* g is the graph [nodes, functions, edges] threaded through the loop.      *)
may_add_function(g, n) ==
    IF n \in DOMAIN g.functions THEN g
    ELSE [g EXCEPT !.nodes = Append(@, n),
                   !.functions = n :> Len(g.nodes) + 1 @@ g.functions]

(* `calls.iter().unique()`: first occurrences, in order.                    *)
Unique(s) ==
    LET firsts == SelectSeq([i \in 1..Len(s) |-> i], LAMBDA i : \A j \in 1..(i - 1) : s[j] # s[i])
    IN [k \in 1..Len(firsts) |-> s[firsts[k]]]

(* One call: the callee's node, then the edge from the caller to it.       *)
AddCall(g, src, call) ==
    LET n == Node(call.module, call.function)
        g1 == may_add_function(g, n)
    IN [g1 EXCEPT !.edges = Append(@, [src |-> g1.functions[src],
                                       dst |-> g1.functions[n],
                                       tys |-> call.tys])]

RECURSIVE AddCalls(_, _, _)
AddCalls(g, src, cs) ==
    IF cs = <<>> THEN g ELSE AddCalls(AddCall(g, src, Head(cs)), src, Tail(cs))

(* Mutant form: a caller's node is added only through its first call.      *)
RECURSIVE AddCallers_CallsOnly(_, _, _)
AddCallers_CallsOnly(g, m, callers) ==
    IF callers = <<>> THEN g
    ELSE LET c == Head(callers)
             src == Node(m, c.caller)
             g1 == IF c.calls = <<>> THEN g ELSE may_add_function(g, src)
         IN AddCallers_CallsOnly(AddCalls(g1, src, Unique(c.calls)), m, Tail(callers))

RECURSIVE AddCallers(_, _, _)
AddCallers(g, m, callers) ==
    IF callers = <<>> THEN g
    ELSE LET c == Head(callers)
             src == Node(m, c.caller)
         IN AddCallers(AddCalls(may_add_function(g, src), src, Unique(c.calls)),
                       m, Tail(callers))

(* Mutant form: a module already added is added again.                     *)
AlreadyAdded_Never(r) == FALSE

AlreadyAdded(r) == r.module \in modules

add_bytecode_analysis(r) ==
    /\ adds < MaxAdds
    /\ adds' = adds + 1
    /\ IF AlreadyAdded(r)
          THEN UNCHANGED <<nodes, functions, edges, modules>>
          ELSE LET g == AddCallers([nodes |-> nodes, functions |-> functions,
                                    edges |-> edges], r.module, r.calls)
               IN /\ nodes' = g.nodes
                  /\ functions' = g.functions
                  /\ edges' = g.edges
                  /\ modules' = modules \cup {r.module}

Init ==
    /\ nodes = <<>>
    /\ functions = <<>>
    /\ edges = <<>>
    /\ modules = {}
    /\ adds = 0

Next == \E r \in Analyses : add_bytecode_analysis(r)
Spec == Init /\ [][Next]_vars

-----------------------------------------------------------------------------
(* Properties.                                                             *)

Calls == UNION {ToSet(c.calls) : c \in UNION {ToSet(r.calls) : r \in Analyses}}
AllNodes == {Node(r.module, c.caller) : <<r, c>> \in
                      {<<r, c>> \in Analyses \X UNION {ToSet(a.calls) : a \in Analyses} :
                          c \in ToSet(r.calls)}}
              \cup {Node(c.module, c.function) : c \in Calls}

(* The edge at position k, by the nodes it joins.                           *)
EdgeAt(k) == [src |-> nodes[edges[k].src], dst |-> nodes[edges[k].dst], tys |-> edges[k].tys]

TypeOK ==
    /\ nodes \in Seq(AllNodes)
    /\ DOMAIN functions \subseteq AllNodes
    /\ \A n \in DOMAIN functions : functions[n] \in 1..Len(nodes)
    /\ \A k \in 1..Len(edges) : {edges[k].src, edges[k].dst} \subseteq 1..Len(nodes)
    /\ modules \subseteq {r.module : r \in Analyses}
    /\ adds \in 0..MaxAdds

(* Spec 9: nodes are shared and deduplicated by (module, function): each   *)
(* node is in the arena once, and the index map sends it to its own slot,  *)
(* across any order and repetition of add_bytecode_analysis calls.         *)
NodesDeduplicated ==
    /\ IsInjective(nodes)
    /\ DOMAIN functions = ToSet(nodes)
    /\ \A n \in DOMAIN functions : nodes[functions[n]] = n

(* No two edges join the same caller to the same callee with the same     *)
(* type arguments, however often a module's analysis is added again.       *)
EdgesUnique ==
    \A j, k \in 1..Len(edges) : j # k => EdgeAt(j) # EdgeAt(k)

(* The calls of one analysis, from the calling function to the called one. *)
EdgesOf(r) == {[src |-> Node(r.module, c.caller), dst |-> Node(x.module, x.function),
                tys |-> x.tys] : <<c, x>> \in {<<c, x>> \in ToSet(r.calls) \X Calls :
                                                 x \in ToSet(c.calls)}}
(* Refinement: whatever the order and repetition of add_bytecode_analysis *)
(* calls, the arena's nodes and its edges (read through the index of each *)
(* end) are the functions and calls of CallRelation, each module's calls  *)
(* entering once, all at the step of its first analysis, and never        *)
(* changing after it.                                                     *)
Abstract == INSTANCE CallRelation WITH
    functions <- ToSet(nodes),
    calls <- {EdgeAt(k) : k \in 1..Len(edges)},
    added <- modules
RefinesCallRelation == Abstract!AbsSpec
=============================================================================
