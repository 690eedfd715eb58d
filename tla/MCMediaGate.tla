---------------------------- MODULE MCMediaGate ----------------------------
(* Model checking of MediaGate: two answering clients of two calls each,    *)
(* three finals through a channel of one.                                   *)
EXTENDS MediaGate, TLC

CONSTANTS a1, a2

Symmetry == Permutations(Answerers)
=============================================================================
