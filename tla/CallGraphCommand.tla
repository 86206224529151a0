--------------------------- MODULE CallGraphCommand ---------------------------
(***************************************************************************)
(* The call-graph command (movy/src/analysis/call_graph.rs): it globs the  *)
(* module files, makes one MoveCallGraph and, in glob order, skips each    *)
(* module whose address is a Sui standard one and passes every other      *)
(* module's bytecode analysis to add_bytecode_analysis; then it writes the *)
(* graph out.  The graph is CallGraph, extended here with the command's    *)
(* loop.  Two files may hold the same module (two versions of a package    *)
(* built side by side), so the globbed list is any sequence of analyses.   *)
(***************************************************************************)
EXTENDS CallGraph

CONSTANTS
    StdModules    \* the module ids whose address is_sui_std()

VARIABLES
    globbed,      \* glob_modules(...): the analyses of the files, in order
    pos,          \* the loop's position in globbed
    written       \* write_dot_may_with_pdf has run
cmdvars == <<vars, globbed, pos, written>>

(* Mutant form: the standard-library check is dropped.                     *)
is_sui_std_Never(r) == FALSE

(* `result.abi.module_id.module_address.is_sui_std()`                      *)
is_sui_std(r) == r.module \in StdModules

CmdInit ==
    /\ Init
    /\ globbed \in BoundedSeq(Analyses, MaxAdds)
    /\ pos = 1
    /\ written = FALSE

(* A standard module: `continue`, the graph is left alone.                 *)
SkipStd ==
    /\ pos <= Len(globbed)
    /\ is_sui_std(globbed[pos])
    /\ pos' = pos + 1
    /\ UNCHANGED <<vars, globbed, written>>

(* Any other module: `cg.add_bytecode_analysis(&result)`.                  *)
AddModule ==
    /\ pos <= Len(globbed)
    /\ ~is_sui_std(globbed[pos])
    /\ add_bytecode_analysis(globbed[pos])
    /\ pos' = pos + 1
    /\ UNCHANGED <<globbed, written>>

(* After the loop: the graph is written out and the command returns.       *)
WriteDot ==
    /\ pos > Len(globbed)
    /\ ~written
    /\ written' = TRUE
    /\ UNCHANGED <<vars, globbed, pos>>

CmdNext == SkipStd \/ AddModule \/ WriteDot
CmdSpec == CmdInit /\ [][CmdNext]_cmdvars

-----------------------------------------------------------------------------
(* Properties.                                                             *)

CmdTypeOK ==
    /\ TypeOK
    /\ globbed \in Seq(Analyses)
    /\ pos \in 1..(Len(globbed) + 1)
    /\ written \in BOOLEAN

(* The globbed positions the loop has passed that hold a non-standard module. *)
Passed == {i \in 1..(pos - 1) : ~(globbed[i].module \in StdModules)}
FirstPassed(m) == globbed[Min({i \in Passed : globbed[i].module = m})]

(* At every point of the loop, the graph holds exactly the non-standard   *)
(* modules passed so far, and its edges are the calls of the FIRST file   *)
(* globbed for each of them: a later file with another version of the     *)
(* same module is ignored, and no standard module contributes a caller.   *)
GraphOfGlobPrefix ==
    /\ modules = {globbed[i].module : i \in Passed}
    /\ {EdgeAt(k) : k \in 1..Len(edges)} = UNION {EdgesOf(FirstPassed(m)) : m \in modules}

=============================================================================
