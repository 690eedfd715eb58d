------------------------- MODULE MCSessionLifecycle -------------------------
(* Model checking of SessionLifecycle. *)
EXTENDS SessionLifecycle

CONSTANTS c1, s1, t1, creator, none
=============================================================================
