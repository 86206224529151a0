------------------------- MODULE MC_OnchainPrimitives -------------------------
EXTENDS OnchainPrimitives

(* Four checkpoints over two epochs, so that the tip can cross an epoch     *)
(* boundary between the two queries.                                        *)
MC_EpochOf == [c \in 0 .. 3 |-> c \div 2]
MC_EpochStart == [e \in 0 .. 1 |-> 1000 + 500 * e]
=============================================================================
