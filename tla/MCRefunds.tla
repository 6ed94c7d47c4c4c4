----------------------------- MODULE MCRefunds ------------------------------
(* Instances of Refunds for TLC.                                            *)
EXTENDS Refunds, TLC

CONSTANTS w1, w2

Symmetry == Permutations(Workers)
=============================================================================
