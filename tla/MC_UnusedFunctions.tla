------------------------- MODULE MC_UnusedFunctions -------------------------
EXTENDS UnusedFunctions, TLC

CONSTANTS m1, m2, f1, f2, g1

(* Two functions in m1 and one, named init, in m2.                         *)
MC_Modules == <<m1, m2>>
MC_ModuleOf == (f1 :> m1) @@ (f2 :> m1) @@ (g1 :> m2)
=============================================================================
