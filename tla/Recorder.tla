------------------------------- MODULE Recorder -------------------------------
(***************************************************************************)
(* One call recording: runtime/record/record.go, the start and stop of it  *)
(* in control/callops.go, the recording columns of the session row, the    *)
(* orphan reaper, the retention sweep, and crashes of the process.         *)
(*                                                                         *)
(* Two writers (the uplink tap and the speech sink) append to two leg      *)
(* buffers; the mux goroutine takes the front of both on every tick and    *)
(* writes one stereo frame; Close takes the file over from it, drains the  *)
(* tail and settles the header; the reaper stamps what nobody stopped.     *)
(* A PCM write is one frame, numbered as it is offered; silence is padding *)
(* and is counted in frames only.                                          *)
(***************************************************************************)
EXTENDS Integers, Sequences

CONSTANTS MaxBacklog,    \* maxLegBacklogBytes, in frames
          DrainCap,      \* the 500 frames Close drains at most
          CatchUp,       \* the 250 frames a late tick writes at most
          FrameBudget,   \* bound: frames offered to each leg
          TickBudget,    \* bound: ticks of the mux
          CrashBudget    \* bound: crashes of the process

ASSUME RecorderAssumption ==
  /\ MaxBacklog \in Nat \ {0} /\ DrainCap \in Nat \ {0} /\ CatchUp \in Nat \ {0}
  /\ FrameBudget \in Nat /\ TickBudget \in Nat /\ CrashBudget \in Nat

Legs == {"caller", "agent"}
None == -1

VARIABLES rec,        \* r.recorders[session]: none, on, or gone for good
          done,       \* the done channel is closed
          failed,     \* writeFails > 0
          buf,        \* the leg buffers
          writer,     \* writer[l]: has passed the done check of write()
          mux,        \* the mux goroutine
          due,        \* frames the mux still owes for this tick
          hand,       \* frames taken from the buffers and not yet written
          stop,       \* stopRecorder and Recorder.Close
          drained,    \* frames written by the last drain
          closedBytes,
          start,      \* startRecorder after the recorder is registered
          frames,     \* the file: stereo frames after the header
          written,    \* the file: what is in it of each leg
          header,     \* the file: frames its header claims
          torn,       \* the file: 1 if a failed write left a part of a frame at its end
          onDisk,     \* the file exists
          row,        \* the recording columns of the session row
          reaper,     \* ReapOrphans
          stat,       \* the file size ReapOrphans has read
          up,         \* the process runs
          offered,    \* history: frames offered to each leg
          accepted,   \* history: frames each leg took
          atClose,    \* history: how many of them before done was closed
          statLive,   \* history: a size was read while the file still grew
          ticks, crashes

memVars  == <<done, failed, buf, writer, mux, due, hand, drained, closedBytes>>
fileVars == <<frames, written, header, torn, onDisk>>
histVars == <<offered, accepted, atClose, statLive, ticks, crashes>>
vars == <<rec, memVars, stop, start, fileVars, row, reaper, stat, up, histVars>>

Nothing == [l \in Legs |-> <<>>]

Init ==
  /\ rec = "none" /\ done = FALSE /\ failed = FALSE
  /\ buf = Nothing /\ writer = [l \in Legs |-> FALSE]
  /\ mux = "none" /\ due = 0 /\ hand = Nothing
  /\ stop = "none" /\ drained = 0 /\ closedBytes = None /\ start = "none"
  /\ frames = 0 /\ written = Nothing /\ header = 0 /\ torn = 0 /\ onDisk = FALSE
  /\ row = [terminal |-> FALSE, started |-> FALSE, stopped |-> FALSE,
            reason |-> "", bytes |-> None]
  /\ reaper = "idle" /\ stat = None /\ up = TRUE
  /\ offered = [l \in Legs |-> 0] /\ accepted = Nothing
  /\ atClose = [l \in Legs |-> 0] /\ statLive = FALSE
  /\ ticks = 0 /\ crashes = 0

-----------------------------------------------------------------------------
\* startRecorder: the file is created, the recorder registered and the mux
\* started; the row is marked afterwards.  The live-talk registry admits one
\* caller at a time.
StartRecorder ==
  /\ up /\ rec = "none" /\ ~row.terminal
  /\ rec' = "on" /\ mux' = "select" /\ start' = "mark"
  /\ onDisk' = TRUE /\ header' = 0
  /\ UNCHANGED <<done, failed, buf, writer, due, hand, drained, closedBytes,
                 stop, frames, written, torn, row, reaper, stat, up, histVars>>

MarkStarted ==
  /\ up /\ start = "mark"
  /\ start' = "done" /\ row' = [row EXCEPT !.started = TRUE]
  /\ UNCHANGED <<rec, memVars, stop, fileVars, reaper, stat, up, histVars>>

-----------------------------------------------------------------------------
\* write(): the done check is outside the lock, the append inside it.
WriteCheck(l) ==
  /\ up /\ start # "none" /\ ~done /\ ~writer[l]
  /\ offered[l] < FrameBudget
  /\ writer' = [writer EXCEPT ![l] = TRUE]
  /\ offered' = [offered EXCEPT ![l] = @ + 1]
  /\ UNCHANGED <<rec, done, failed, buf, mux, due, hand, drained, closedBytes, stop,
                 start, fileVars, row, reaper, stat, up, accepted, atClose,
                 statLive, ticks, crashes>>

WriteAppend(l) ==
  /\ up /\ writer[l]
  /\ writer' = [writer EXCEPT ![l] = FALSE]
  /\ IF Len(buf[l]) >= MaxBacklog
       THEN UNCHANGED <<buf, accepted>>
       ELSE /\ buf' = [buf EXCEPT ![l] = Append(@, offered[l])]
            /\ accepted' = [accepted EXCEPT ![l] = Append(@, offered[l])]
  /\ UNCHANGED <<rec, done, failed, mux, due, hand, drained, closedBytes, stop,
                 start, fileVars, row, reaper, stat, up, offered, atClose,
                 statLive, ticks, crashes>>

-----------------------------------------------------------------------------
\* writeFrame, in two steps: the fronts are taken under mu, the stereo frame
\* is written without it.
Front(q) == IF q = <<>> THEN <<>> ELSE <<Head(q)>>
Rest(q) == IF q = <<>> THEN <<>> ELSE Tail(q)

TakeFronts ==
  /\ hand' = [l \in Legs |-> Front(buf[l])]
  /\ buf' = [l \in Legs |-> Rest(buf[l])]

FrameWritten ==
  /\ frames' = frames + 1
  /\ written' = [l \in Legs |-> written[l] \o hand[l]]
  /\ hand' = Nothing
  /\ UNCHANGED <<header, torn, onDisk>>

\* The frame in hand is lost with the write that failed, which may have written
\* a part of it: that is in the file, and in no count of the recorder.
FrameFailed ==
  /\ failed' = TRUE /\ done' = TRUE /\ hand' = Nothing
  /\ torn' \in 0 .. 1
  /\ UNCHANGED <<frames, written, header, onDisk>>

\* mux(): a tick owes one or more frames; when both are ready the select may
\* choose the tick over the closed channel.
MuxTick(n) ==
  /\ up /\ mux = "select" /\ ticks < TickBudget
  /\ mux' = "take" /\ due' = n /\ ticks' = ticks + 1
  /\ UNCHANGED <<rec, done, failed, buf, writer, hand, drained, closedBytes, stop,
                 start, fileVars, row, reaper, stat, up, offered, accepted,
                 atClose, statLive, crashes>>

MuxTake ==
  /\ up /\ mux = "take"
  /\ TakeFronts /\ mux' = "write"
  /\ UNCHANGED <<rec, done, failed, writer, due, drained, closedBytes, stop, start,
                 fileVars, row, reaper, stat, up, histVars>>

MuxWrite ==
  /\ up /\ mux = "write"
  /\ FrameWritten
  /\ due' = due - 1 /\ mux' = IF due > 1 THEN "take" ELSE "patch"
  /\ UNCHANGED <<rec, done, failed, buf, writer, drained, closedBytes, stop, start,
                 row, reaper, stat, up, histVars>>

MuxWriteFails ==
  /\ up /\ mux = "write"
  /\ FrameFailed
  /\ mux' = "exited" /\ due' = 0
  /\ atClose' = IF done THEN atClose ELSE [l \in Legs |-> Len(accepted[l])]
  /\ UNCHANGED <<rec, buf, writer, drained, closedBytes, stop, start, row,
                 reaper, stat, up, offered, accepted, statLive, ticks, crashes>>

\* The header is rewritten when headerPatchEvery has passed.
MuxPatch ==
  /\ up /\ mux = "patch"
  /\ mux' = "select" /\ header' \in {header, frames}
  /\ UNCHANGED <<rec, done, failed, buf, writer, due, hand, drained, closedBytes,
                 stop, start, frames, written, torn, onDisk, row, reaper, stat, up,
                 histVars>>

MuxExit ==
  /\ up /\ mux = "select" /\ done
  /\ mux' = "exited"
  /\ UNCHANGED <<rec, done, failed, buf, writer, due, hand, drained, closedBytes,
                 stop, start, fileVars, row, reaper, stat, up, histVars>>

Mux ==
  \/ \E n \in 1 .. CatchUp : MuxTick(n)
  \/ MuxTake \/ MuxWrite \/ MuxWriteFails \/ MuxPatch \/ MuxExit

-----------------------------------------------------------------------------
\* stopRecorder detaches the recorder; Close closes done.
StopBegin ==
  /\ up /\ rec = "on"
  /\ rec' = "gone" /\ stop' = "wait" /\ done' = TRUE
  /\ atClose' = IF done THEN atClose ELSE [l \in Legs |-> Len(accepted[l])]
  /\ UNCHANGED <<failed, buf, writer, mux, due, hand, drained, closedBytes, start,
                 fileVars, row, reaper, stat, up, offered, accepted, statLive,
                 ticks, crashes>>

StopMux(pc) ==
  /\ stop' = pc
  /\ UNCHANGED <<rec, memVars, start, fileVars, row, reaper, stat, up, histVars>>

\* A seeded slip: Close goes on without waiting for the mux.
StopWaitsForNobody == up /\ stop = "wait" /\ StopMux("tail")

StopWaited == up /\ stop = "wait" /\ mux = "exited" /\ StopMux("tail")

\* Two seconds pass while the mux is in a burst or blocked in a write: Close
\* returns and leaves the file to it.
StopTimesOut ==
  up /\ stop = "wait" /\ mux \in {"take", "write", "patch"} /\ StopMux("mark")

\* One last drain, unless a write has failed.
Empty == buf = Nothing
\* A seeded slip: no last drain.
StopTailSkipped == up /\ stop = "tail" /\ StopMux("settle")

StopTail ==
  up /\ stop = "tail" /\ StopMux(IF Empty \/ failed THEN "settle" ELSE "drain")

StopDrained ==
  up /\ stop = "drain" /\ (Empty \/ drained >= DrainCap) /\ StopMux("settle")

StopTake ==
  /\ up /\ stop = "drain" /\ ~Empty /\ drained < DrainCap
  /\ TakeFronts /\ stop' = "write"
  /\ UNCHANGED <<rec, done, failed, writer, mux, due, drained, closedBytes, start,
                 fileVars, row, reaper, stat, up, histVars>>

StopWrite ==
  /\ up /\ stop = "write"
  /\ FrameWritten
  /\ drained' = drained + 1 /\ stop' = "drain"
  /\ UNCHANGED <<rec, done, failed, buf, writer, mux, due, closedBytes, start, row,
                 reaper, stat, up, histVars>>

StopWriteFails ==
  /\ up /\ stop = "write"
  /\ FrameFailed /\ stop' = "settle"
  /\ UNCHANGED <<rec, buf, writer, mux, due, drained, closedBytes, start,
                 row, reaper, stat, up, histVars>>

\* The last header and the size; a full disk may refuse the header.
\* A seeded slip: the header is left as the mux patched it last.
StopSettleUnpatched ==
  /\ up /\ stop = "settle"
  /\ header' = header
  /\ closedBytes' = frames /\ stop' = "mark"
  /\ UNCHANGED <<rec, done, failed, buf, writer, mux, due, hand, drained, start,
                 frames, written, torn, onDisk, row, reaper, stat, up, histVars>>

StopSettle ==
  /\ up /\ stop = "settle"
  /\ header' \in IF failed THEN {header, frames} ELSE {frames}
  /\ closedBytes' = frames /\ stop' = "mark"
  /\ UNCHANGED <<rec, done, failed, buf, writer, mux, due, hand, drained, start,
                 frames, written, torn, onDisk, row, reaper, stat, up, histVars>>

\* MarkSessionRecordingStopped: time, reason and size keep their first value.
Stamped(why, n) ==
  [row EXCEPT !.stopped = TRUE,
              !.reason = IF @ = "" THEN why ELSE @,
              !.bytes = IF @ = None THEN n ELSE @]

StopMark ==
  /\ up /\ stop = "mark"
  /\ row' = Stamped("session", closedBytes) /\ stop' = "done"
  /\ UNCHANGED <<rec, memVars, start, fileVars, reaper, stat, up, histVars>>

Stop ==
  \/ StopWaited \/ StopTimesOut \/ StopTail \/ StopDrained \/ StopTake
  \/ StopWrite \/ StopWriteFails \/ StopSettle \/ StopMark

-----------------------------------------------------------------------------
\* The session ends in the store: after a stop, because the leg has gone while
\* the recorder runs, or by a stop request to a process that has no recorder.
SessionEnds ==
  /\ up /\ ~row.terminal
  /\ row' = [row EXCEPT !.terminal = TRUE]
  /\ UNCHANGED <<rec, memVars, stop, start, fileVars, reaper, stat, up, histVars>>

\* ReapOrphans: list, stat, stamp; each a statement of its own.
\* A seeded slip: the reaper runs after a crash only.
ReaperListAtBoot ==
  /\ up /\ reaper = "idle" /\ crashes > 0
  /\ row.terminal /\ row.started /\ ~row.stopped
  /\ reaper' = "stat" /\ stat' = None
  /\ UNCHANGED <<rec, memVars, stop, start, fileVars, row, up, histVars>>

ReaperList ==
  /\ up /\ reaper = "idle"
  /\ row.terminal /\ row.started /\ ~row.stopped
  /\ reaper' = "stat" /\ stat' = None
  /\ UNCHANGED <<rec, memVars, stop, start, fileVars, row, up, histVars>>

StillGrowing == mux \in {"select", "take", "write", "patch"}
             \/ stop \in {"wait", "tail", "drain", "write"}

ReaperStat ==
  /\ up /\ reaper = "stat"
  /\ reaper' = "mark" /\ stat' = IF onDisk THEN frames + torn ELSE None
  /\ statLive' = (statLive \/ (onDisk /\ StillGrowing))
  /\ UNCHANGED <<rec, memVars, stop, start, fileVars, row, up, offered, accepted,
                 atClose, ticks, crashes>>

ReaperMark ==
  /\ up /\ reaper = "mark"
  /\ reaper' = "idle" /\ row' = Stamped("orphan_reaper", stat)
  /\ UNCHANGED <<rec, memVars, stop, start, fileVars, stat, up, histVars>>

Reaper == ReaperList \/ ReaperStat \/ ReaperMark

\* Sweep: the day directory has aged out.  A call is shorter than the window,
\* so nothing still writes to it.
Sweep ==
  /\ up /\ onDisk /\ ~StillGrowing /\ start # "none"
  /\ onDisk' = FALSE
  /\ UNCHANGED <<rec, memVars, stop, start, frames, written, header, torn, row, reaper,
                 stat, up, histVars>>

-----------------------------------------------------------------------------
\* A crash, or a shutdown (which stops no recorder): the file and the row stay;
\* the histories of the recorder end with it.
Crash ==
  /\ up /\ crashes < CrashBudget
  /\ up' = FALSE /\ crashes' = crashes + 1
  /\ rec' = IF rec = "on" THEN "gone" ELSE rec
  /\ buf' = Nothing /\ writer' = [l \in Legs |-> FALSE] /\ hand' = Nothing
  /\ mux' = IF mux = "none" THEN "none" ELSE "gone"
  /\ stop' = IF stop \in {"none", "done"} THEN stop ELSE "gone"
  /\ start' = IF start = "mark" THEN "gone" ELSE start
  /\ due' = 0 /\ done' = (rec # "none") /\ closedBytes' = None
  /\ reaper' = "idle" /\ stat' = None
  /\ accepted' = Nothing /\ atClose' = [l \in Legs |-> 0]
  /\ UNCHANGED <<failed, drained, fileVars, row, offered, statLive, ticks>>

Restart ==
  /\ ~up /\ up' = TRUE
  /\ UNCHANGED <<rec, memVars, stop, start, fileVars, row, reaper, stat, histVars>>

Next ==
  \/ StartRecorder \/ MarkStarted
  \/ \E l \in Legs : WriteCheck(l) \/ WriteAppend(l)
  \/ Mux \/ StopBegin \/ Stop
  \/ SessionEnds \/ Reaper \/ Sweep \/ Crash \/ Restart

Spec == Init /\ [][Next]_vars

\* Started goroutines run on, the reaper's ticker fires for ever, and a service
\* manager restarts the process.  Nobody has to start, stop or end a session.
FairSpec ==
  /\ Spec
  /\ WF_vars(Mux) /\ WF_vars(Stop) /\ WF_vars(Reaper) /\ WF_vars(MarkStarted)
  /\ WF_vars(Restart)

-----------------------------------------------------------------------------
TypeOK ==
  /\ rec \in {"none", "on", "gone"} /\ done \in BOOLEAN /\ failed \in BOOLEAN
  /\ buf \in [Legs -> Seq(Nat)] /\ \A l \in Legs : Len(buf[l]) <= MaxBacklog
  /\ writer \in [Legs -> BOOLEAN]
  /\ mux \in {"none", "select", "take", "write", "patch", "exited", "gone"}
  /\ due \in 0 .. CatchUp /\ hand \in [Legs -> Seq(Nat)]
  /\ stop \in {"none", "wait", "tail", "drain", "write", "settle", "mark", "done", "gone"}
  /\ drained \in 0 .. DrainCap /\ closedBytes \in Nat \cup {None}
  /\ start \in {"none", "mark", "done", "gone"}
  /\ frames \in Nat /\ written \in [Legs -> Seq(Nat)] /\ header \in Nat
  /\ torn \in 0 .. 1 /\ onDisk \in BOOLEAN
  /\ row \in [terminal : BOOLEAN, started : BOOLEAN, stopped : BOOLEAN,
              reason : {"", "session", "orphan_reaper"}, bytes : Nat \cup {None}]
  /\ reaper \in {"idle", "stat", "mark"} /\ stat \in Nat \cup {None}
  /\ up \in BOOLEAN /\ statLive \in BOOLEAN
  /\ offered \in [Legs -> Nat] /\ accepted \in [Legs -> Seq(Nat)]
  /\ atClose \in [Legs -> Nat] /\ ticks \in 0 .. TickBudget
  /\ crashes \in 0 .. CrashBudget

\* Until the process or the disk fails, every frame a leg took is in the file,
\* in the hand of the one goroutine that writes, or still buffered, once and in
\* order: Close takes the file over from the mux without a frame lost or doubled.
FramesConserved ==
  crashes = 0 /\ ~failed =>
    \A l \in Legs : written[l] \o hand[l] \o buf[l] = accepted[l]

\* A recording that Close finished holds all that was accepted before it,
\* unless a write failed or the drain ran into its limit with frames left.
FinishedIsComplete ==
  closedBytes # None /\ ~failed /\ (drained < DrainCap \/ Empty) =>
    \A l \in Legs : Len(written[l]) >= atClose[l]

\* The header never claims more than the file has, so what a crash leaves can be
\* played; a finished file's header claims all of it, and recording_bytes is that
\* size, whoever stamped it first, except a size the reaper read while the file
\* still grew.  Only the reaper counts what a failed write left of a frame.
FileTruthful ==
  /\ header <= frames
  /\ closedBytes # None /\ ~failed => header = frames /\ closedBytes = frames
  /\ row.bytes # None /\ ~statLive => row.bytes \in {frames, frames + torn}

\* A session that has ended with a recording started is stamped stopped in the
\* end: by its stop or, after a leg has gone or a crash, by the reaper.
OrphansStamped == (row.terminal /\ row.started) ~> row.stopped
=============================================================================
