------------------------------ MODULE ListenPath ------------------------------
(***************************************************************************)
(* The uplink of one call, from the websocket to the recogniser and back   *)
(* as finals: the leg's reader (edge/modaudiostream/conn.go), the actor's  *)
(* feeder pump and its PCM tap (session/actor.go), the listen pump, the    *)
(* consumer and the settle watch of a live talk                            *)
(* (control/runtime_adapter.go), the recogniser's stream                   *)
(* (gateway/sarvamstt/listen.go).                                         *)
(*                                                                         *)
(* Every hand-over is a bounded channel that drops when it is full, and    *)
(* the parties end for reasons of their own: the leg goes, the recogniser  *)
(* fails, the create request is answered, the session stops.  The live     *)
(* talk starts step by step, and a stop may come between any two of them.  *)
(* A frame is its sequence number.                                         *)
(*                                                                         *)
(* Its Init, Next, Spec and TypeOK are called Uplink..., so that one       *)
(* module can extend it and FlowCursor, which walks on what it hears.      *)
(***************************************************************************)
EXTENDS Integers, Sequences, Functions

CONSTANTS FrameBudget,   \* bound: frames the caller sends
          FeederCap,     \* capacity of Conn.frames
          QueueCap,      \* capacity of the listen queue
          FinalsCap      \* capacity of the stream's finals

ASSUME CapacitiesAssumption ==
  /\ {FeederCap, QueueCap, FinalsCap} \subseteq Nat \ {0}
  /\ FrameBudget \in Nat

VARIABLES leg,       \* Conn: its reader, the first event it put out, done
          frames,    \* Conn.frames
          pump,      \* pumpFeeder: what it selects from, the frame in hand
          actor,     \* "Running" until its context ends, then "Terminal"; "Removed"
                     \* once drained and out of the manager's map
          tap,       \* a.pcmTap is set
          start,     \* StartLiveTalk's program counter
          talk,      \* the live talk: "none", "live", "cancelled"
          queue,     \* frames the tap queued for the listen pump
          listen,    \* drainListenQueue: program counter, frame in hand
          stream,    \* the recogniser's stream
          finals,    \* its finals channel
          consumer,  \* consumeListenFinals
          gate,      \* the media phase, as far as the uplink moves it
          settle,    \* rtpSettleWatch
          stop,      \* StopSession's program counter
          heard,     \* history: what became of each frame
          sent       \* history: frames the caller has sent

legVars    == <<leg, frames>>
actorVars  == <<pump, actor, tap>>
talkVars   == <<start, talk, queue, listen, consumer, settle>>
streamVars == <<stream, finals>>
histVars   == <<heard, sent>>
uplinkVars == <<legVars, actorVars, talkVars, streamVars, gate, stop, histVars>>

Frame == 1 .. FrameBudget

\* The leg is attached and pumped; StartLiveTalk is still to come.
UplinkInit ==
  /\ leg = [reader |-> "up", event |-> "none", done |-> FALSE] /\ frames = <<>>
  /\ pump = [pc |-> "select", frame |-> 0]
  /\ actor = "Running" /\ tap = FALSE
  /\ start = "none" /\ talk = "none" /\ queue = <<>> /\ listen = [pc |-> "none", frame |-> 0]
  /\ stream = "none" /\ finals = 0
  /\ consumer = "none" /\ settle = "none"
  /\ gate = [phase |-> "establishing", uplink |-> FALSE]
  /\ stop = "none"
  /\ heard = [recorder |-> <<>>, dropped |-> {}, skipped |-> {},
              vendor |-> <<>>, wasted |-> {}]
  /\ sent = 0

-----------------------------------------------------------------------------
\* The leg: readLoop, onPCM and emitEvent.
LegRest == UNCHANGED <<actorVars, talkVars, streamVars, gate, stop>>

\* onPCM: a frame finds room, or is dropped; the reader never waits.
OnPCM ==
  /\ leg.reader = "up" /\ sent < FrameBudget
  /\ sent' = sent + 1
  /\ IF ~leg.done /\ Len(frames) < FeederCap
       THEN frames' = Append(frames, sent') /\ UNCHANGED heard
       ELSE heard' = [heard EXCEPT !.skipped = @ \union {sent'}] /\ UNCHANGED frames
  /\ UNCHANGED leg /\ LegRest

\* The peer stops or the socket breaks: the event goes out, done and both
\* channels are closed; the pump may see the event before the frames in front.
PeerGone ==
  /\ leg.reader = "up" /\ ~leg.done
  /\ leg' = [reader |-> "closed", done |-> TRUE,
             event |-> IF leg.event = "none" THEN "stop" ELSE leg.event]
  /\ UNCHANGED <<frames, histVars>> /\ LegRest

\* An error message of the peer: the same event, and the reader reads on.
PeerReportsError ==
  /\ leg.reader = "up" /\ ~leg.done /\ leg' = [leg EXCEPT !.event = "error"]
  /\ UNCHANGED <<frames, histVars>> /\ LegRest

\* The socket was closed under the reader: no event goes out.
ReaderEnds ==
  /\ leg.reader = "up" /\ leg.done
  /\ leg' = [leg EXCEPT !.reader = "closed"]
  /\ UNCHANGED <<frames, histVars>> /\ LegRest

\* signalClose from the write loop or a verb.
SignalClose ==
  /\ ~leg.done /\ leg' = [leg EXCEPT !.done = TRUE]
  /\ UNCHANGED <<frames, histVars>> /\ LegRest

Leg == OnPCM \/ PeerGone \/ PeerReportsError \/ ReaderEnds \/ SignalClose

-----------------------------------------------------------------------------
\* The feeder pump.  A stop event may be picked before the frames that lie in
\* front of it; the pump then drains what is queued and ends.
PumpRest == UNCHANGED <<leg, actor, tap, start, talk, listen, consumer, settle,
                        streamVars, gate, stop, sent>>
PumpKeeps == UNCHANGED <<queue, heard>>

TakeFrame ==
  /\ pump.pc \in {"select", "drain"} /\ pump.frame = 0 /\ frames # <<>>
  /\ pump' = [pump EXCEPT !.frame = Head(frames)] /\ frames' = Tail(frames)
  /\ PumpRest /\ PumpKeeps

\* A seeded slip: what lies in front of the event is forgotten.
TakeEventAndEnd ==
  /\ pump.pc = "select" /\ pump.frame = 0 /\ leg.event # "none"
  /\ pump' = [pump EXCEPT !.pc = "gone"]
  /\ UNCHANGED frames /\ PumpRest /\ PumpKeeps

TakeEvent ==
  /\ pump.pc = "select" /\ pump.frame = 0 /\ leg.event # "none"
  /\ pump' = [pump EXCEPT !.pc = "drain"]
  /\ UNCHANGED frames /\ PumpRest /\ PumpKeeps

\* drainFeederFrames finds nothing more; or the channel is closed and empty.
PumpEnds ==
  /\ frames = <<>> /\ pump.frame = 0
  /\ \/ pump.pc = "drain"
     \/ pump.pc = "select" /\ leg.reader = "closed"
  /\ pump' = [pump EXCEPT !.pc = "gone"]
  /\ UNCHANGED frames /\ PumpRest /\ PumpKeeps

\* The tap: the recorder's caller leg, then barge detection, then the queue.
QueueOrDrop(f) ==
  /\ heard' = [heard EXCEPT
       !.recorder = Append(@, f),
       !.dropped = IF Len(queue) < QueueCap THEN @ ELSE @ \union {f}]
  /\ queue' = IF Len(queue) < QueueCap THEN Append(queue, f) ELSE queue

Untapped(f) == heard' = [heard EXCEPT !.skipped = @ \union {f}] /\ UNCHANGED queue

\* A seeded slip: an actor that is Terminal feeds nobody.
FeedWhileRunning ==
  /\ pump.frame # 0 /\ pump' = [pump EXCEPT !.frame = 0]
  /\ IF tap /\ actor = "Running" THEN QueueOrDrop(pump.frame) ELSE Untapped(pump.frame)
  /\ UNCHANGED frames /\ PumpRest

\* FeedPCM: the bus drops the frame when it is closed; the tap is read under
\* the actor's mutex and called after it, whatever state the actor is in.
FeedPCM ==
  /\ pump.frame # 0 /\ pump' = [pump EXCEPT !.frame = 0]
  /\ IF tap THEN QueueOrDrop(pump.frame) ELSE Untapped(pump.frame)
  /\ UNCHANGED frames /\ PumpRest

Pump == TakeFrame \/ TakeEvent \/ PumpEnds \/ FeedPCM

-----------------------------------------------------------------------------
\* StartLiveTalk, from the attach on: it finds the actor, makes the media record,
\* dials the recogniser, registers the live talk, and sets tap and goroutines.
\* Nothing after the look at the actor asks whether the session still is.
StartRest == UNCHANGED <<legVars, pump, actor, queue, finals, gate, stop, histVars>>
NothingRuns == UNCHANGED <<tap, listen, consumer, settle>>

StartLooksUp ==
  /\ start = "none" /\ start' = IF actor = "Removed" THEN "refused" ELSE "found"
  /\ NothingRuns /\ UNCHANGED <<talk, stream>> /\ StartRest

\* onEdgeAttach: from here on there is a media record to drain.
StartAttaches ==
  /\ start = "found" /\ start' = "dial"
  /\ NothingRuns /\ UNCHANGED <<talk, stream>> /\ StartRest

StreamOpens ==
  /\ start = "dial" /\ start' = "opened" /\ stream' = "open"
  /\ NothingRuns /\ UNCHANGED talk /\ StartRest

\* No engine, or the dial failed: the caller hears the fallback (TurnMachine).
StartFails ==
  /\ start = "dial" /\ start' = "failed"
  /\ NothingRuns /\ UNCHANGED <<talk, stream>> /\ StartRest

StartRegisters ==
  /\ start = "opened" /\ start' = "registered" /\ talk' = "live"
  /\ NothingRuns /\ UNCHANGED stream /\ StartRest

StartGoes ==
  /\ start = "registered" /\ start' = "done"
  /\ tap' = TRUE /\ listen' = [pc |-> "wait", frame |-> 0]
  /\ consumer' = "wait" /\ settle' = "watch"
  /\ UNCHANGED <<talk, stream>> /\ StartRest

StartLiveTalk == \/ StartLooksUp \/ StartAttaches \/ StreamOpens \/ StartFails
                 \/ StartRegisters \/ StartGoes

TalkRest == UNCHANGED <<legVars, pump, actor, start, talk, stop, sent>>

EnterReady(g) == IF g.phase = "establishing" THEN [g EXCEPT !.phase = "ready"] ELSE g

\* drainListenQueue picks a frame; the first one is the gate's first uplink.
ListenTakes ==
  /\ listen.pc = "wait" /\ queue # <<>>
  /\ listen' = [pc |-> "write", frame |-> Head(queue)] /\ queue' = Tail(queue)
  /\ gate' = IF gate.uplink THEN gate ELSE EnterReady([gate EXCEPT !.uplink = TRUE])
  /\ UNCHANGED <<tap, consumer, settle, streamVars, heard>> /\ TalkRest

\* WritePCM takes the frame; its deadline, a cancelled context or a closed
\* stream end the pump, and the tap goes with it.
ListenWrites ==
  /\ listen.pc = "write" /\ stream = "open"
  /\ listen' = [pc |-> "wait", frame |-> 0]
  /\ heard' = [heard EXCEPT !.vendor = Append(@, listen.frame)]
  /\ UNCHANGED <<tap, queue, consumer, settle, streamVars, gate>> /\ TalkRest

ListenFails ==
  /\ listen.pc = "write"
  /\ listen' = [pc |-> "ending", frame |-> 0]
  /\ heard' = [heard EXCEPT !.wasted = @ \union {listen.frame}]
  /\ UNCHANGED <<tap, queue, consumer, settle, streamVars, gate>> /\ TalkRest

ListenCancelled ==
  /\ listen.pc = "wait" /\ talk = "cancelled"
  /\ listen' = [pc |-> "ending", frame |-> 0]
  /\ UNCHANGED <<tap, queue, consumer, settle, streamVars, gate, heard>> /\ TalkRest

ListenEnds ==
  /\ listen.pc = "ending"
  /\ listen' = [pc |-> "gone", frame |-> 0] /\ tap' = FALSE
  /\ UNCHANGED <<queue, consumer, settle, streamVars, gate, heard>> /\ TalkRest

Listen == ListenTakes \/ ListenWrites \/ ListenFails \/ ListenCancelled \/ ListenEnds

-----------------------------------------------------------------------------
\* A seeded slip: the channel has no end.
FinalArrivesUnbounded ==
  /\ stream = "open" /\ finals' = finals + 1
  /\ UNCHANGED <<legVars, actorVars, talkVars, stream, gate, stop, histVars>>

\* The stream's read loop: a transcript finds room in finals or is dropped; a
\* vendor or socket error closes finals for good; so does Close.
FinalArrives ==
  /\ stream = "open"
  /\ finals' = IF finals < FinalsCap THEN finals + 1 ELSE finals
  /\ UNCHANGED <<legVars, actorVars, talkVars, stream, gate, stop, histVars>>

VendorFails ==
  /\ stream = "open" /\ stream' = "failed"
  /\ UNCHANGED <<legVars, actorVars, talkVars, finals, gate, stop, histVars>>

ReadLoopEnds ==
  /\ stream = "closing" /\ stream' = "closed"
  /\ UNCHANGED <<legVars, actorVars, talkVars, finals, gate, stop, histVars>>

Stream == FinalArrives \/ VendorFails \/ ReadLoopEnds

-----------------------------------------------------------------------------
\* consumeListenFinals: a turn for each final, until the live talk is
\* cancelled or finals is closed and empty; nobody is told of the latter.
ConsumerGoes(pc) == consumer' = pc
  /\ UNCHANGED <<tap, queue, listen, settle, stream, gate, heard>> /\ TalkRest

ConsumerTakes == consumer = "wait" /\ finals > 0 /\ finals' = finals - 1
                 /\ ConsumerGoes("turn")

TurnEnds == consumer = "turn" /\ UNCHANGED finals /\ ConsumerGoes("wait")

ConsumerEnds ==
  /\ consumer = "wait"
  /\ talk = "cancelled" \/ (stream \in {"failed", "closed"} /\ finals = 0)
  /\ UNCHANGED finals /\ ConsumerGoes("gone")

Consumer == ConsumerTakes \/ TurnEnds \/ ConsumerEnds

-----------------------------------------------------------------------------
\* rtpSettleWatch opens the gate when the leg has had time to settle, uplink
\* or no uplink, and runs on when the gate has been opened by other means.
EnterReadyFromSettle ==
  /\ settle = "watch" /\ gate.phase = "establishing"
  /\ gate' = EnterReady(gate) /\ settle' = "gone"
  /\ UNCHANGED <<tap, queue, listen, consumer, streamVars, heard>> /\ TalkRest

SettleEnds ==
  /\ settle = "watch" /\ talk = "cancelled" /\ settle' = "gone"
  /\ UNCHANGED <<tap, queue, listen, consumer, streamVars, gate, heard>> /\ TalkRest

Settle == EnterReadyFromSettle \/ SettleEnds

-----------------------------------------------------------------------------
\* The actor's context is the create request's: when it is answered the loop
\* ends, the actor is Terminal and its bus closed; FeedPCM goes on.
RequestAnswered ==
  /\ actor = "Running" /\ actor' = "Terminal"
  /\ UNCHANGED <<legVars, pump, tap, talkVars, streamVars, gate, stop, histVars>>

\* onGone: a leg that is done has the actor stopped, and nothing else.
OnGone ==
  /\ leg.done /\ actor' = "Removed"
  /\ UNCHANGED <<legVars, pump, tap, talkVars, streamVars, gate, stop, histVars>>

-----------------------------------------------------------------------------
\* StopSession: stopLiveTalk drains the gate and takes the live talk out, if one
\* is registered by then, cancels it, closes its stream; then Manager.Stop takes
\* the actor out and drains it: the feeders are closed and the loop ends.
StopRest == UNCHANGED <<frames, pump, tap, start, queue, listen, finals,
                        consumer, settle, histVars>>

StopBegins ==
  /\ stop = "none"
  /\ stop' = IF talk = "live" THEN "cancel" ELSE "drain"
  /\ gate' = IF start \in {"none", "refused", "found"}
               THEN gate ELSE [gate EXCEPT !.phase = "draining"]
  /\ UNCHANGED <<leg, actor, talk, stream>> /\ StopRest

StopCancels ==
  /\ stop = "cancel" /\ stop' = "close" /\ talk' = "cancelled"
  /\ UNCHANGED <<leg, actor, stream, gate>> /\ StopRest

\* A stream that has failed is left as it is.
StopCloses ==
  /\ stop = "close" /\ stop' = "drain"
  /\ stream' = IF stream = "open" THEN "closing" ELSE stream
  /\ UNCHANGED <<leg, actor, talk, gate>> /\ StopRest

\* A seeded slip: the feeders are left open.
DrainLeavesFeeders ==
  /\ stop = "drain" /\ stop' = "done" /\ actor' = "Removed"
  /\ UNCHANGED <<leg, talk, stream, gate>> /\ StopRest

Drain ==
  /\ stop = "drain" /\ stop' = "done"
  /\ leg' = [leg EXCEPT !.done = TRUE] /\ actor' = "Removed"
  /\ UNCHANGED <<talk, stream, gate>> /\ StopRest

Stop == StopBegins \/ StopCancels \/ StopCloses \/ Drain

-----------------------------------------------------------------------------
UplinkNext == Leg \/ Pump \/ StartLiveTalk \/ Listen \/ Stream \/ Consumer
        \/ Settle \/ RequestAnswered \/ OnGone \/ Stop

UplinkSpec == UplinkInit /\ [][UplinkNext]_uplinkVars

\* Goroutines that can run, run; the dial and writes to the vendor have a
\* deadline, turns end (TurnMachine), time passes.  The caller need not speak,
\* the vendor need not answer, nobody need stop.
UplinkFairSpec ==
  /\ UplinkSpec
  /\ WF_uplinkVars(ReaderEnds) /\ WF_uplinkVars(Pump) /\ WF_uplinkVars(StartLiveTalk)
  /\ WF_uplinkVars(Listen) /\ WF_uplinkVars(ListenCancelled)
  /\ WF_uplinkVars(ReadLoopEnds) /\ WF_uplinkVars(Consumer) /\ WF_uplinkVars(Settle)
  /\ WF_uplinkVars(StopCancels) /\ WF_uplinkVars(StopCloses) /\ WF_uplinkVars(Drain)

-----------------------------------------------------------------------------
\* Every variable has its type and no channel holds more than its capacity.
UplinkTypeOK ==
  /\ leg \in [reader : {"up", "closed"}, event : {"none", "stop", "error"}, done : BOOLEAN]
  /\ Range(frames) \subseteq Frame /\ Len(frames) <= FeederCap
  /\ pump \in [pc : {"select", "drain", "gone"}, frame : Frame \union {0}]
  /\ actor \in {"Running", "Terminal", "Removed"} /\ tap \in BOOLEAN
  /\ start \in {"none", "found", "dial", "opened", "registered", "done", "failed",
               "refused"}
  /\ talk \in {"none", "live", "cancelled"}
  /\ Range(queue) \subseteq Frame /\ Len(queue) <= QueueCap
  /\ listen \in [pc : {"none", "wait", "write", "ending", "gone"},
                 frame : Frame \union {0}]
  /\ stream \in {"none", "open", "failed", "closing", "closed"}
  /\ finals \in 0 .. FinalsCap
  /\ consumer \in {"none", "wait", "turn", "gone"}
  /\ settle \in {"none", "watch", "gone"}
  /\ gate \in [phase : {"establishing", "ready", "draining"}, uplink : BOOLEAN]
  /\ stop \in {"none", "cancel", "close", "drain", "done"}
  /\ sent \in 0 .. FrameBudget

\* The frame a pump holds between its receive and its hand-over, if any.
InHand(p) == IF p.frame = 0 THEN <<>> ELSE <<p.frame>>

Rising(s) == \A i, j \in DOMAIN s : i < j => s[i] < s[j]

\* No frame is lost without being counted, none is heard twice, and order is
\* kept.  What the recogniser took, what its pump has in hand and what is
\* queued is, in the order it was sent, what the recorder got less what was
\* dropped; every frame the caller sent is with the recorder, skipped (no room
\* in the feeder's channel, or no tap), or on its way; and a pump that has ended
\* has left nothing behind, unless it ended at an error message of a peer that
\* went on sending.
UplinkAccounted ==
  LET got  == heard.recorder
      way  == InHand(pump) \o frames
      on   == heard.vendor \o InHand(listen) \o queue
  IN /\ Rising(got \o way) /\ Rising(on)
     /\ Range(on) = Range(got) \ (heard.dropped \union heard.wasted)
     /\ 1 .. sent = Range(got \o way) \union heard.skipped
     /\ Range(got \o way) \intersect heard.skipped = {}
     /\ pump.pc = "gone" /\ leg.event # "error" => frames = <<>>

\* A frame that lies in the feeder's channel while the tap is set reaches the
\* recorder, though the leg goes, the recogniser is slow, the create request
\* has been answered and the bus is closed; and the gate leaves establishing
\* though no frame ever comes.  Excepted are a stop, a listen pump that has
\* failed (it takes the tap with it), and an error message of the peer (it
\* ends the feeder pump).
CallerIsHeard ==
  /\ \A f \in Frame :
       (f \in Range(frames) /\ tap /\ talk = "live")
         ~> (\/ f \in Range(heard.recorder)
             \/ listen.pc \in {"ending", "gone"} \/ talk = "cancelled"
             \/ leg.event = "error")
  /\ (talk = "live" /\ gate.phase = "establishing") ~> (gate.phase # "establishing")

\* Of the leg and the actor nothing runs any more; nor of the live talk.
LegReleased == leg.reader = "closed" /\ pump.pc = "gone" /\ actor = "Removed"
TalkReleased ==
  /\ start \in {"none", "refused", "failed", "done"} /\ ~tap
  /\ listen.pc \in {"none", "gone"} /\ consumer \in {"none", "gone"}
  /\ settle \in {"none", "gone"} /\ stream \in {"none", "failed", "closed"}

\* A live talk that was registered after stopLiveTalk had looked for it: its
\* pump, consumer, settle watch and stream outlive the session.
Missed == talk = "live"

\* A stop ends every goroutine of the call, wherever each of them was (the
\* reader, the feeder pump, the listen pump, the consumer, the settle watch, the
\* stream's read loop, the actor's loop, a start under way), with one exception:
\* a live talk it missed keeps its own.  The leg and the actor are released even
\* then.
StopReleasesAll == stop = "done" ~> (LegReleased /\ (TalkReleased \/ Missed))
=============================================================================
