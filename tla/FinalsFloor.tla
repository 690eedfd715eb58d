----------------------------- MODULE FinalsFloor -----------------------------
(***************************************************************************)
(* What the media gate promises the turns that run on finals.  The channel's *)
(* consumer and the answer that ends the welcome may be running one each, and *)
(* at the same time; none begins before the welcome is over, except that     *)
(* the consumer may begin some more on a session that has been stopped.      *)
(***************************************************************************)
VARIABLES open,    \* the welcome is over
          stopped, \* the session has been stopped
          talking  \* who is in the turn of a final

Takers == {"consumer", "answer"}

FloorInit == open = FALSE /\ stopped = FALSE /\ talking = {}

\* What ends the welcome, or a turn, may have stopped the session.
MayStop == stopped' = TRUE \/ UNCHANGED stopped

WelcomeOver == ~open /\ open' = TRUE /\ MayStop /\ UNCHANGED talking
Stop == ~stopped /\ stopped' = TRUE /\ UNCHANGED <<open, talking>>

BeginTurn(w) ==
  /\ w \notin talking
  /\ open \/ (stopped /\ w = "consumer")
  /\ talking' = talking \cup {w}
  /\ UNCHANGED <<open, stopped>>

EndTurn(w) == w \in talking /\ talking' = talking \ {w} /\ MayStop /\ UNCHANGED open

FloorNext == WelcomeOver \/ Stop \/ \E w \in Takers : BeginTurn(w) \/ EndTurn(w)

FloorSpec == FloorInit /\ [][FloorNext]_<<open, stopped, talking>>
=============================================================================
