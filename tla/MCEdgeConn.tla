----------------------------- MODULE MCEdgeConn -----------------------------
(* Model checking of EdgeConn: one speaker and the write loop against the    *)
(* goroutines each run adds, with bounds of one to three on every counter.   *)
EXTENDS EdgeConn, TLC

CONSTANTS s1, f1, w1, c1, c2
=============================================================================
