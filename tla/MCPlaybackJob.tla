---------------------------- MODULE MCPlaybackJob ----------------------------
(* Model checking of PlaybackJob and PostcallJobs: a playback session that is *)
(* stopped over HTTP while its job completes, two postcall workers, one       *)
(* operator, one fault.                                                       *)
EXTENDS PlaybackJob
=============================================================================
