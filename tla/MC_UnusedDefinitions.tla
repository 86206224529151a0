------------------------ MODULE MC_UnusedDefinitions ------------------------
EXTENDS UnusedDefinitions, TLC

CONSTANTS p1, p2, m1, m2, f1, f2, s1, e1

(* Two target packages of one module each.                                  *)
MC_Packages == <<p1, p2>>
MC_ModulesOf == (p1 :> <<m1>>) @@ (p2 :> <<m2>>)

(* All lookups succeed; the first package is skipped; the second package's *)
(* info lookup fails after the first has been analysed.                    *)
MC_LookupChoices == { (p1 :> "Ok") @@ (p2 :> "Ok"),
                      (p1 :> "Skip") @@ (p2 :> "Ok"),
                      (p1 :> "Ok") @@ (p2 :> "InfoErr") }

(* m1 defines two functions; m2 defines constants and types but no function. *)
MC_FunctionsOf == (m1 :> {f1, f2}) @@ (m2 :> {})

(* S, &S and an enum E passed by value.                                    *)
MC_SigTokens == { [kind |-> "Datatype", datatype |-> s1],
                  [kind |-> "Ref", datatype |-> s1],
                  [kind |-> "Datatype", datatype |-> e1] }
=============================================================================
