------------------------------ MODULE PlaybackJob ------------------------------
(***************************************************************************)
(* One playback job: control/playback.go leases it, starts an actor, feeds a *)
(* file into it, listens on the actor's bus until the file has ended, and    *)
(* ends the session, which enqueues postcall work (PostcallJobs).            *)
(*                                                                         *)
(* Three goroutines: the worker, the file's reader and the actor's pump.     *)
(* A frame is counted only.                                                  *)
(***************************************************************************)
EXTENDS PostcallJobs

CONSTANTS FileFrames,  \* numbers of frames a file may have
          TapCap,      \* the worker's tap on the bus
          Playback     \* the ender that is this job's completion

ASSUME PlaybackAssumption ==
  /\ FileFrames \subseteq Nat /\ TapCap \in Nat \ {0} /\ Playback \in Enders

VARIABLES job,        \* the playback_job row
          pc,         \* the worker
          row,        \* state of the session row "pb-<id>"
          actor,      \* the actor, and its bus with it
          file,       \* frames the reader has not sent yet
          chan,       \* frames in the feeder's channel
          stopSent,   \* the reader's stop event: not sent, pending, taken
          pump,       \* the actor's pump
          tap,        \* frames in the tap
          told,       \* the end of the file is on the event tap
          heard,      \* frames > 0
          published,  \* history: a frame has reached the bus
          cut         \* history: why the worker stopped early

playVars == <<job, pc, row, actor, file, chan, stopSent, pump, tap, told, heard,
              published, cut>>
vars == <<jobVars, playVars>>

Init ==
  /\ JobInit
  /\ job = "Queued" /\ pc = "idle" /\ row = "none" /\ actor = "none"
  /\ file \in FileFrames /\ chan = 0 /\ stopSent = "no" /\ pump = "none"
  /\ tap = 0 /\ told = FALSE /\ heard = FALSE /\ published = FALSE /\ cut = "no"

PlayStep(from, to) ==
  /\ pc = from /\ pc' = to /\ UNCHANGED jobVars

fileVars == <<file, chan, stopSent, pump>>
tapVars  == <<tap, told, heard, published>>

-----------------------------------------------------------------------------
PbLease ==
  /\ PlayStep("idle", "load") /\ job = "Queued" /\ job' = "Running"
  /\ UNCHANGED <<row, actor, fileVars, tapVars, cut>>

\* Version missing, document corrupt, or Manager.Start refused.
PbLoadFails ==
  /\ PlayStep("load", "idle") /\ job' = "Failed" /\ cut' = "load"
  /\ UNCHANGED <<row, actor, fileVars, tapVars>>

PbStart ==
  /\ PlayStep("load", "session") /\ actor' = "live"
  /\ UNCHANGED <<job, row, fileVars, tapVars, cut>>

\* ensurePlaybackSession, so that the postcall job's foreign key holds.
PbSession ==
  /\ PlayStep("session", "open") /\ row' = "Running"
  /\ UNCHANGED <<job, actor, fileVars, tapVars, cut>>

\* The file cannot be read: the job has failed and the actor is stopped; the
\* session row is left Running.
PbOpenFails ==
  /\ PlayStep("open", "idle") /\ job' = "Failed" /\ cut' = "open" /\ actor' = "stopped"
  /\ UNCHANGED <<row, fileVars, tapVars>>

PbOpen ==
  /\ PlayStep("open", "listen") /\ pump' = "pump"
  /\ UNCHANGED <<job, row, actor, file, chan, stopSent, tapVars, cut>>

-----------------------------------------------------------------------------
\* Feeder.run: frames, then the stop event; both channels are closed then.
ReadFrame ==
  /\ pump # "none" /\ file > 0
  /\ file' = file - 1 /\ chan' = chan + 1
  /\ UNCHANGED <<jobVars, job, pc, row, actor, stopSent, pump, tapVars, cut>>

ReadEnd ==
  /\ pump # "none" /\ file = 0 /\ stopSent = "no"
  /\ stopSent' = "pending"
  /\ UNCHANGED <<jobVars, job, pc, row, actor, file, chan, pump, tapVars, cut>>

\* FeedPCM publishes on the bus; a full tap drops the frame.
Publish ==
  /\ chan > 0 /\ chan' = chan - 1 /\ published' = TRUE
  /\ tap' = IF tap < TapCap THEN tap + 1 ELSE tap

PumpFrame ==
  /\ pump \in {"pump", "drain"}
  /\ Publish
  /\ UNCHANGED <<jobVars, job, pc, row, actor, file, stopSent, pump, told, heard, cut>>

\* The stop event may be picked before the frames: it goes out, and the rest of
\* the frames are drained after it.
PumpStop ==
  /\ pump = "pump" /\ stopSent = "pending"
  /\ stopSent' = "taken" /\ told' = TRUE /\ pump' = "drain"
  /\ UNCHANGED <<jobVars, job, pc, row, actor, file, chan, tap, heard, published, cut>>

\* The closed frame channel may be seen before the event: feeder_gone.
PumpGone ==
  /\ pump = "pump" /\ chan = 0 /\ stopSent = "pending"
  /\ told' = TRUE /\ pump' = "done"
  /\ UNCHANGED <<jobVars, job, pc, row, actor, file, chan, stopSent, tap, heard, published, cut>>

PumpDrained ==
  /\ pump = "drain" /\ chan = 0 /\ pump' = "done"
  /\ UNCHANGED <<jobVars, job, pc, row, actor, file, chan, stopSent, tapVars, cut>>

Pump == PumpFrame \/ PumpStop \/ PumpGone \/ PumpDrained

-----------------------------------------------------------------------------
PbHear ==
  /\ pc \in {"listen", "drain"} /\ PlayStep(pc, pc) /\ tap > 0
  /\ tap' = tap - 1 /\ heard' = TRUE
  /\ UNCHANGED <<job, row, actor, fileVars, told, published, cut>>

\* A seeded slip: the end of the file ends the listening.
PbToldStops ==
  /\ PlayStep("listen", "stop") /\ told
  /\ UNCHANGED <<job, row, actor, fileVars, tapVars, cut>>

PbTold ==
  /\ PlayStep("listen", "drain") /\ told
  /\ UNCHANGED <<job, row, actor, fileVars, tapVars, cut>>

\* 200 ms: longer than the pump needs for what is left.
PbDrained ==
  /\ PlayStep("drain", "stop") /\ tap = 0 /\ pump = "done"
  /\ UNCHANGED <<job, row, actor, fileVars, tapVars, cut>>

\* The deadline of 60 s, whatever is left of the file; or somebody else has
\* stopped the actor (POST /stop on the session), which closes the tap.
PbCut ==
  /\ pc \in {"listen", "drain"} /\ PlayStep(pc, "stop")
  /\ cut' = "cut"
  /\ UNCHANGED <<job, row, actor, fileVars, tapVars>>

PbStop ==
  /\ PlayStep("stop", "settle") /\ actor' = "stopped" /\ pump' = "done"
  /\ UNCHANGED <<job, row, file, chan, stopSent, tapVars, cut>>

\* Completed if one frame was heard.
PbSettle ==
  /\ PlayStep("settle", "row") /\ job' = IF heard THEN "Completed" ELSE "Failed"
  /\ UNCHANGED <<row, actor, fileVars, tapVars, cut>>

PbCompleted ==
  /\ pc = "row" /\ job = "Completed"
  /\ pc' = "idle" /\ row' = "Completed"
  /\ TerminalReached(Playback)
  /\ UNCHANGED <<job, actor, fileVars, tapVars, cut>>

PbFailed ==
  /\ PlayStep("row", "idle") /\ job = "Failed" /\ row' = "Failed"
  /\ UNCHANGED <<job, actor, fileVars, tapVars, cut>>

\* The worker's context ends or the process dies: job and row stay as they are.
PbLost ==
  /\ pc # "idle" /\ faults < FaultBudget
  /\ faults' = faults + 1 /\ cut' = "lost"
  /\ pc' = "idle" /\ actor' = "stopped" /\ pump' = "done"
  /\ UNCHANGED <<jobs, ender, disp, worker, writer, newest, overlap, stale, runs,
                 abandoned, job, row, file, chan, stopSent, tapVars>>

Play ==
  \/ PbLease \/ PbLoadFails \/ PbStart \/ PbSession \/ PbOpenFails \/ PbOpen
  \/ PbHear \/ PbTold \/ PbDrained \/ PbCut \/ PbStop \/ PbSettle
  \/ PbCompleted \/ PbFailed

Feed == ReadFrame \/ ReadEnd \/ Pump

Next ==
  \/ JobStep(Enders \ {Playback}) /\ UNCHANGED playVars
  \/ Play \/ Feed \/ PbLost

Spec == Init /\ [][Next]_vars

\* Both workers poll every 200 ms for ever; goroutines run on.
FairSpec ==
  /\ Spec /\ WF_vars(Play) /\ WF_vars(Feed)
  /\ \A w \in Workers : WF_vars(Work(w) /\ UNCHANGED playVars)
  /\ \A e \in Enders : WF_vars((EnqueueCheck(e) \/ EnqueueInsert(e)) /\ UNCHANGED playVars)

-----------------------------------------------------------------------------
PlayTypeOK ==
  /\ job \in {"Queued", "Running", "Completed", "Failed"}
  /\ pc \in {"idle", "load", "session", "open", "listen", "drain", "stop", "settle", "row"}
  /\ row \in {"none", "Running", "Completed", "Failed"}
  /\ actor \in {"none", "live", "stopped"}
  /\ file \in Nat /\ chan \in Nat /\ stopSent \in {"no", "pending", "taken"}
  /\ pump \in {"none", "pump", "drain", "done"}
  /\ tap \in 0 .. TapCap /\ told \in BOOLEAN /\ heard \in BOOLEAN
  /\ published \in BOOLEAN /\ cut \in {"no", "load", "open", "cut", "lost"}

TypeOK == JobTypeOK /\ PlayTypeOK

\* A job that fails for want of frames had none to hear, although the end of the
\* file overtakes its last frames twice.
NoFrameUnheard == job = "Failed" /\ cut = "no" => ~published

\* A queued job is settled in the end: a playback job with its session row (but
\* for a file that cannot be opened) and a postcall job to show for it, and every
\* postcall job, unless its worker was lost.
JobsSettle ==
  /\ (job = "Queued") ~>
       \/ cut = "lost"
       \/ job = "Failed" /\ (row # "Running" \/ cut = "open")
       \/ /\ job = "Completed" /\ row = "Completed"
          /\ \/ ender[Playback] = "refused"
             \/ \E j \in Jobs : jobs[j] # "absent"
  /\ \A j \in Jobs : (jobs[j] = "Queued") ~>
       (jobs[j] \in {"Completed", "Failed"} \/ j \in abandoned)
=============================================================================
