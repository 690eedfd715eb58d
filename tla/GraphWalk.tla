------------------------------ MODULE GraphWalk ------------------------------
(***************************************************************************)
(* What a conversation cursor shows between its calls: it stands short of a  *)
(* node that waits, it listens, it has come to an End or it has armed a Tool. *)
(* An utterance takes it on from where it listens, Bootstrap from where it   *)
(* does not yet; the End and the Tool are final, and a Tool is armed once.   *)
(***************************************************************************)
EXTENDS Integers

VARIABLES at,  \* "start", "listen", "end" or the Tool that is armed
          arms \* Tools armed so far

Finals == {"end", "transfer", "hangup"}

WalkInit == at = "start" /\ arms = 0

\* A walk on from the caller's choice that fails half-way stops short of a node.
Goes == \/ at = "start" /\ at' \in {"listen"} \cup Finals
        \/ at = "listen" /\ at' \in {"start"} \cup Finals

Move == Goes /\ arms' = IF at' = "transfer" \/ at' = "hangup" THEN arms + 1 ELSE arms

WalkSpec == WalkInit /\ [][Move]_<<at, arms>>
=============================================================================
