-------------------------- MODULE MC_CallGraphCommand --------------------------
EXTENDS CallGraphCommand, TLC

CONSTANTS A, B, C, S, swap, deposit, mint, route, split, join, T1, T2

Call(m, f, tys) == [module |-> m, function |-> f, tys |-> tys]

(* Module A's swap calls B::deposit twice alike, once with other type      *)
(* arguments, and A::mint; B's deposit calls back into A::swap; a second,  *)
(* different analysis of A (say of an upgraded version) has swap call      *)
(* only mint, and a second analysis of B has deposit call nothing; C's     *)
(* route calls into both and into the standard module S, whose split      *)
(* calls its own join.                                                     *)
MC_Analyses ==
    { [module |-> A, calls |-> << [caller |-> swap,
                                   calls |-> << Call(B, deposit, <<T1>>),
                                                Call(B, deposit, <<T1>>),
                                                Call(B, deposit, <<T2>>),
                                                Call(A, mint, <<>>) >>],
                                  [caller |-> mint, calls |-> <<>>] >>],
      [module |-> B, calls |-> << [caller |-> deposit,
                                   calls |-> << Call(A, swap, <<T1>>) >>] >>],
      [module |-> A, calls |-> << [caller |-> swap,
                                   calls |-> << Call(A, mint, <<>>) >>] >>],
      [module |-> B, calls |-> << [caller |-> deposit, calls |-> <<>>] >>],
      [module |-> C, calls |-> << [caller |-> route,
                                   calls |-> << Call(A, swap, <<T2>>),
                                                Call(B, deposit, <<T1>>),
                                                Call(S, split, <<T1>>),
                                                Call(A, swap, <<T2>>) >>] >>],
      [module |-> S, calls |-> << [caller |-> split,
                                   calls |-> << Call(S, join, <<T1>>) >>] >>] }
=============================================================================
