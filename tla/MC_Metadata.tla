----------------------------- MODULE MC_Metadata -----------------------------
EXTENDS Metadata, TLC

CONSTANTS p1, p2, p3, ma, mb, f, g, s, t, u, o1, T1, T2

(* p1 and p3 are first versions, so their ids are their modules' address; *)
(* p2 is an upgrade, of p1 (after it in address order) or of p3 (before  *)
(* it), and keeps both modules of the package it upgrades.  A first      *)
(* version has one module or two.                                          *)
MC_PkgOrder == <<p1, p2, p3>>

Coin == [name |-> s, abilities |-> {"drop"}, generic |-> FALSE]
Pool == [name |-> t, abilities |-> {"key", "store"}, generic |-> TRUE]
Cfg  == [name |-> u, abilities |-> {"copy", "drop", "store"}, generic |-> FALSE]
MC_StructDefs == {Coin, Pool, Cfg}

Mod(a, m, fs, ss) == [address |-> a, name |-> m, functions |-> fs, structs |-> ss]
MC_AbiChoices ==
    [p \in {p1, p2, p3} |->
        CASE p = p1 -> { << Mod(p1, ma, {f}, {Coin}) >>,
                         << Mod(p1, ma, {f}, {Coin}), Mod(p1, mb, {g}, {Cfg}) >> }
          [] p = p2 -> { << Mod(p1, ma, {f, g}, {Coin}), Mod(p1, mb, {g}, {Cfg}) >>,
                         << Mod(p3, ma, {g}, {Pool}), Mod(p3, mb, {f, g}, {Cfg}) >> }
          [] p = p3 -> { << Mod(p3, ma, {g}, {Pool}) >>,
                         << Mod(p3, ma, {g}, {Pool}), Mod(p3, mb, {f}, {Cfg}) >> }]

NoFilter == [given |-> FALSE, types |-> {}]
MC_IncludeChoices == {NoFilter, [given |-> TRUE, types |-> {T1}]}
MC_ExcludeChoices == {NoFilter, [given |-> TRUE, types |-> {T1}]}
=============================================================================
