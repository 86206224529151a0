--------------------------- MODULE MC_PostProcess ---------------------------
(* Instantiation of PostProcess: two coin types and a package of five      *)
(* functions covering a generic balance, a two-result call whose first     *)
(* balance is typed by its second type parameter, a concrete balance, a    *)
(* key-store object and a call consuming a balance.                        *)
EXTENDS PostProcess, TLC

CONSTANTS SUI, USDC, mint, split, vault, fee, deposit, fromBalance

Bal(j) == [kind |-> "Balance", tparam |-> j, coin |-> "none"]
BalOf(c) == [kind |-> "Balance", tparam |-> -1, coin |-> c]
Obj == [kind |-> "KeyStore", tparam |-> -1, coin |-> "none"]
Val == [kind |-> "Pure", tparam |-> -1, coin |-> "none"]

MC_NumTyParams ==
  mint :> 1 @@ split :> 2 @@ vault :> 0 @@ fee :> 0 @@ deposit :> 1 @@ fromBalance :> 1
MC_Params ==
  mint :> <<Val>> @@ split :> <<>> @@ vault :> <<>> @@ fee :> <<Obj>>
  @@ deposit :> <<Bal(0)>> @@ fromBalance :> <<Bal(0)>>
MC_Returns ==
  mint :> <<Bal(0)>> @@ split :> <<Bal(1), Bal(0)>> @@ vault :> <<Obj>>
  @@ fee :> <<BalOf(SUI)>> @@ deposit :> <<>> @@ fromBalance :> <<Obj>>
==============================================================================
