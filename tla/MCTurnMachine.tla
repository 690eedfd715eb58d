--------------------------- MODULE MCTurnMachine ---------------------------
(* Model checking of TurnMachine. *)
EXTENDS TurnMachine

CONSTANTS a, c, i, vad, partials, failer
=============================================================================
