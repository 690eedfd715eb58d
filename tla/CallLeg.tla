------------------------------- MODULE CallLeg -------------------------------
(***************************************************************************)
(* What whoever runs a call may expect of its leg: the leg goes once and    *)
(* does not come back, and it takes one verb in its lifetime.  The verb is   *)
(* told to the peer while the leg is up, or it is wasted; either way there   *)
(* is no second one.                                                         *)
(***************************************************************************)
EXTENDS Integers

VARIABLES up,   \* the leg has not closed
          told, \* verbs on the wire
          spent \* the leg's one verb has been used up

LegInit == up = TRUE /\ told = 0 /\ spent = FALSE

Gone == up /\ up' = FALSE /\ UNCHANGED <<told, spent>>

Use == ~spent /\ spent' = TRUE /\ UNCHANGED up
Tell == Use /\ up /\ told' = told + 1
Waste == Use /\ UNCHANGED told

LegSpec == LegInit /\ [][Gone \/ Tell \/ Waste]_<<up, told, spent>>
=============================================================================
