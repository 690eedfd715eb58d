----------------------------- MODULE MCListenPath -----------------------------
(* Model checking of ListenPath; the .cfg gives the constants their values.   *)
EXTENDS ListenPath, TLC
=============================================================================
