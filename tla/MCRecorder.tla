----------------------------- MODULE MCRecorder -----------------------------
(* Model checking of Recorder: two frames per leg, a backlog of two frames   *)
(* and a drain of one, so that a drain can be cut short, a tick that owes    *)
(* two frames, and one crash.                                                *)
EXTENDS Recorder
=============================================================================
