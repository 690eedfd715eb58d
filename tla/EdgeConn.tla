------------------------------ MODULE EdgeConn ------------------------------
(***************************************************************************)
(* One media leg: the downlink half of edge/modaudiostream/conn.go.        *)
(* Speakers call WritePCM, the write loop pops one frame per tick and puts *)
(* it on the websocket, barge-in calls Flush, the turn machine waits for   *)
(* playout with WaitMark, the call verbs (Hangup, Transfer) go out at most *)
(* once, and the leg closes when the peer leaves or writes keep failing.   *)
(*                                                                         *)
(* Three locks guard three pieces of state: mu (queue, flushGen, closed),  *)
(* markMu (pending) and writeMu (the socket).  Each action below is one    *)
(* critical section, so every interleaving of the sections is explored.    *)
(* A frame is represented by the flush generation it was queued in.        *)
(***************************************************************************)
EXTENDS Integers, Sequences

CONSTANTS Speakers,          \* goroutines that call WritePCM
          Flushers,          \* goroutines that call Flush
          Waiters,           \* WaitMark calls
          Callers,           \* Hangup / Transfer calls
          MaxQueuedFrames,   \* maxQueuedFrames
          MaxWriteFailures,  \* maxWriteFailures
          MaxChunks,         \* bound: frames in one WritePCM call
          FrameBudget,       \* bound: frames ever queued
          FlushBudget        \* bound: Flush calls

ASSUME BoundsAssumption ==
  /\ MaxQueuedFrames \in Nat \ {0}
  /\ MaxWriteFailures \in Nat \ {0}
  /\ MaxChunks \in Nat \ {0}
  /\ FrameBudget \in Nat
  /\ FlushBudget \in Nat

VARIABLES queue,       \* generations of the frames awaiting inject
          flushGen,
          pending,     \* queued + in-flight frames a WaitMark waits for
          closePhase,  \* "open", then closed with marks still held, then "closed"
          fails,       \* consecutiveFail
          unmarked,    \* frames in queue order whose pending += has not run yet
          spk,         \* spk[s]: frames s queued and has not added to pending
          wr,          \* the write loop: program counter, captured generation, frame
          flu,         \* the Flush calls
          wait,        \* the WaitMark calls: their result
          inner,       \* the goroutine each WaitMark spawns
          verb,        \* actionOnce
          act,         \* the call-control requests
          frames,      \* history: frames ever queued
          peerGen,     \* history: newest generation whose flush reached the peer
          stale,       \* history: frames of a flushed generation heard by the peer
          verbsSent    \* history: call verbs on the wire

markVars  == <<pending, wait, inner>>
callVars  == <<verb, act, verbsSent>>
wireVars  == <<peerGen, stale>>
vars == <<queue, flushGen, closePhase, fails, unmarked, spk, wr, flu, frames,
          markVars, callVars, wireVars>>

Open == closePhase = "open"
WriterPC == {"idle", "gen", "closed", "send", "close", "mark"}
FlushPC  == {"idle", "marks", "closed", "send", "close"}
ActPC    == {"idle", "once", "closed", "send", "close",
             "sent", "failed", "refused", "canceled"}

Init ==
  /\ queue = <<>> /\ flushGen = 0 /\ pending = 0 /\ closePhase = "open"
  /\ fails = 0 /\ unmarked = 0 /\ frames = 0
  /\ spk = [s \in Speakers |-> 0]
  /\ wr = [pc |-> "idle", gen |-> 0, frame |-> 0]
  /\ flu = [f \in Flushers |-> [pc |-> "idle", gen |-> 0]]
  /\ wait = [w \in Waiters |-> "idle"]
  /\ inner = [w \in Waiters |-> "none"]
  /\ verb = "free" /\ act = [c \in Callers |-> "idle"]
  /\ peerGen = 0 /\ stale = 0 /\ verbsSent = 0

-----------------------------------------------------------------------------
\* pending becomes n; reaching zero wakes every parked waiter.
Woken == [w \in Waiters |-> IF inner[w] = "parked" THEN "run" ELSE inner[w]]

SetPending(n) ==
  /\ pending' = n
  /\ inner' = IF n = 0 THEN Woken ELSE inner

\* A seeded slip: one frame too many is accounted for.
MarkDoneTwice == SetPending(IF pending > 1 THEN pending - 2 ELSE 0)

\* markDone(1): the count is clamped at zero.
MarkDone == SetPending(IF pending > 0 THEN pending - 1 ELSE 0)

\* writeRaw after a failed WriteMessage: the streak grows, and the streak
\* that reaches the limit sends the writing goroutine into signalClose.
CountFailure == fails' = fails + 1
PCAfterFailure(next) == IF fails + 1 >= MaxWriteFailures THEN "close" ELSE next

-----------------------------------------------------------------------------
\* WritePCM: the section under mu, then the section under markMu.  Frames
\* that find the queue full are dropped.
Room == MaxQueuedFrames - Len(queue)

WriteEnqueue(s, n) ==
  /\ spk[s] = 0 /\ Open
  /\ frames + n <= FrameBudget
  /\ LET queued == IF n <= Room THEN n ELSE Room
     IN /\ queue' = queue \o [i \in 1 .. queued |-> flushGen]
        /\ spk' = [spk EXCEPT ![s] = queued]
        /\ unmarked' = unmarked + queued
        /\ frames' = frames + n
  /\ UNCHANGED <<flushGen, closePhase, fails, wr, flu, markVars, callVars, wireVars>>

WriteAddMarks(s) ==
  /\ spk[s] > 0
  /\ pending' = pending + spk[s]
  /\ unmarked' = unmarked - spk[s]
  /\ spk' = [spk EXCEPT ![s] = 0]
  /\ UNCHANGED <<queue, flushGen, closePhase, fails, wr, flu, wait, inner,
                 frames, callVars, wireVars>>

-----------------------------------------------------------------------------
\* flushOne, called by the write loop on every tick.
FlushOnePop ==
  /\ wr.pc = "idle" /\ Open /\ queue # <<>>
  /\ wr' = [pc |-> "gen", gen |-> flushGen, frame |-> Head(queue)]
  /\ queue' = Tail(queue)
  /\ UNCHANGED <<flushGen, closePhase, fails, unmarked, spk, flu, frames,
                 markVars, callVars, wireVars>>

\* writeAudio: a frame of a superseded generation is discarded here.
WriteAudioCheckGen ==
  /\ wr.pc = "gen"
  /\ wr' = [wr EXCEPT !.pc = IF wr.gen = flushGen THEN "closed" ELSE "mark"]
  /\ UNCHANGED <<queue, flushGen, closePhase, fails, unmarked, spk, flu, frames,
                 markVars, callVars, wireVars>>

WriteAudioCheckClosed ==
  /\ wr.pc = "closed"
  /\ wr' = [wr EXCEPT !.pc = IF Open THEN "send" ELSE "mark"]
  /\ UNCHANGED <<queue, flushGen, closePhase, fails, unmarked, spk, flu, frames,
                 markVars, callVars, wireVars>>

\* The socket write: it can only succeed while the socket is open.
WriteAudioOk ==
  /\ wr.pc = "send" /\ Open
  /\ fails' = 0
  /\ stale' = stale + (IF wr.frame < peerGen THEN 1 ELSE 0)
  /\ wr' = [wr EXCEPT !.pc = "mark"]
  /\ UNCHANGED <<queue, flushGen, closePhase, unmarked, spk, flu, frames,
                 markVars, callVars, peerGen>>

WriteAudioFail ==
  /\ wr.pc = "send"
  /\ CountFailure
  /\ wr' = [wr EXCEPT !.pc = PCAfterFailure("mark")]
  /\ UNCHANGED <<queue, flushGen, closePhase, unmarked, spk, flu, frames,
                 markVars, callVars, wireVars>>

FlushOneMarkDone ==
  /\ \/ wr.pc = "mark"
     \/ wr.pc = "close" /\ closePhase = "closed"
  /\ MarkDone
  /\ wr' = [wr EXCEPT !.pc = "idle"]
  /\ UNCHANGED <<queue, flushGen, closePhase, fails, unmarked, spk, flu, frames,
                 wait, callVars, wireVars>>

-----------------------------------------------------------------------------
\* Flush: drop the queue and open a new generation, release the marks, tell
\* the peer.
\* A seeded slip: the generation moves on and the queue stays.
FlushBump(f) ==
  /\ flu[f].pc = "idle" /\ flushGen < FlushBudget
  /\ flushGen' = flushGen + 1
  /\ flu' = [flu EXCEPT ![f] = [pc |-> "marks", gen |-> flushGen + 1]]
  /\ UNCHANGED <<queue, closePhase, fails, unmarked, spk, wr, frames,
                 markVars, callVars, wireVars>>

FlushDrop(f) ==
  /\ flu[f].pc = "idle" /\ flushGen < FlushBudget
  /\ queue' = <<>>
  /\ flushGen' = flushGen + 1
  /\ flu' = [flu EXCEPT ![f] = [pc |-> "marks", gen |-> flushGen + 1]]
  /\ UNCHANGED <<closePhase, fails, unmarked, spk, wr, frames,
                 markVars, callVars, wireVars>>

\* The leg was read as closed under mu; nothing reopens it, so reading it
\* here, or in FlushCheckClosed, returns at the latest where the code does.
FlushMarks(f) ==
  /\ flu[f].pc = "marks"
  /\ SetPending(0)
  /\ flu' = [flu EXCEPT ![f].pc = "closed"]
  /\ UNCHANGED <<queue, flushGen, closePhase, fails, unmarked, spk, wr, frames,
                 wait, callVars, wireVars>>

FlushCheckClosed(f) ==
  /\ flu[f].pc = "closed"
  /\ flu' = [flu EXCEPT ![f].pc = IF Open THEN "send" ELSE "idle"]
  /\ UNCHANGED <<queue, flushGen, closePhase, fails, unmarked, spk, wr, frames,
                 markVars, callVars, wireVars>>

FlushSendOk(f) ==
  /\ flu[f].pc = "send" /\ Open
  /\ peerGen' = IF flu[f].gen > peerGen THEN flu[f].gen ELSE peerGen
  /\ flu' = [flu EXCEPT ![f].pc = "idle"]
  /\ UNCHANGED <<queue, flushGen, closePhase, fails, unmarked, spk, wr, frames,
                 markVars, callVars, stale>>

FlushSendFail(f) ==
  /\ flu[f].pc = "send"
  /\ CountFailure
  /\ flu' = [flu EXCEPT ![f].pc = PCAfterFailure("idle")]
  /\ UNCHANGED <<queue, flushGen, closePhase, unmarked, spk, wr, frames,
                 markVars, callVars, wireVars>>

FlushAfterClose(f) ==
  /\ flu[f].pc = "close" /\ closePhase = "closed"
  /\ flu' = [flu EXCEPT ![f].pc = "idle"]
  /\ UNCHANGED <<queue, flushGen, closePhase, fails, unmarked, spk, wr, frames,
                 markVars, callVars, wireVars>>

-----------------------------------------------------------------------------
\* WaitMark: the caller selects over its context, the leg's done channel and
\* the goroutine that waits on the condition variable.
WaitStart(w) ==
  /\ wait[w] = "idle"
  /\ wait' = [wait EXCEPT ![w] = "blocked"]
  /\ inner' = [inner EXCEPT ![w] = "run"]
  /\ UNCHANGED <<queue, flushGen, pending, closePhase, fails, unmarked, spk, wr,
                 flu, frames, callVars, wireVars>>

InnerCheck(w) ==
  /\ inner[w] = "run"
  /\ inner' = [inner EXCEPT ![w] = IF pending > 0 THEN "parked" ELSE "exit"]
  /\ UNCHANGED <<queue, flushGen, pending, closePhase, fails, unmarked, spk, wr,
                 flu, frames, wait, callVars, wireVars>>

WaitReturn(w) ==
  /\ wait[w] = "blocked"
  /\ \/ inner[w] = "exit" /\ wait' = [wait EXCEPT ![w] = "drained"]
     \/ ~Open /\ wait' = [wait EXCEPT ![w] = "canceled"]
  /\ UNCHANGED <<queue, flushGen, pending, closePhase, fails, unmarked, spk, wr,
                 flu, frames, inner, callVars, wireVars>>

\* The caller's context ends: it wakes the waiters, who look again.
WaitExpire(w) ==
  /\ wait[w] = "blocked"
  /\ wait' = [wait EXCEPT ![w] = "expired"]
  /\ inner' = Woken
  /\ UNCHANGED <<queue, flushGen, pending, closePhase, fails, unmarked, spk, wr,
                 flu, frames, callVars, wireVars>>

-----------------------------------------------------------------------------
\* Hangup / Transfer through sendAction: refuse on a closed leg, then
\* actionOnce; a caller that finds the once running blocks until it is done.
ActRequest(c) ==
  /\ act[c] = "idle"
  /\ act' = [act EXCEPT ![c] = IF Open THEN "once" ELSE "canceled"]
  /\ UNCHANGED <<queue, flushGen, closePhase, fails, unmarked, spk, wr, flu,
                 frames, markVars, verb, verbsSent, wireVars>>

\* A seeded slip: the once is taken again after it is done.
OnceRetaken == verb # "busy"
OnceFree == verb = "free"

ActOnce(c) ==
  /\ act[c] = "once"
  /\ \/ /\ OnceFree
        /\ verb' = "busy"
        /\ act' = [act EXCEPT ![c] = "closed"]
     \/ /\ verb = "done"
        /\ act' = [act EXCEPT ![c] = "refused"]
        /\ UNCHANGED verb
  /\ UNCHANGED <<queue, flushGen, closePhase, fails, unmarked, spk, wr, flu,
                 frames, markVars, verbsSent, wireVars>>

ActCheckClosed(c) ==
  /\ act[c] = "closed"
  /\ act' = [act EXCEPT ![c] = IF Open THEN "send" ELSE "failed"]
  /\ verb' = IF Open THEN verb ELSE "done"
  /\ UNCHANGED <<queue, flushGen, closePhase, fails, unmarked, spk, wr, flu,
                 frames, markVars, verbsSent, wireVars>>

ActSendOk(c) ==
  /\ act[c] = "send" /\ Open
  /\ verbsSent' = verbsSent + 1
  /\ act' = [act EXCEPT ![c] = "sent"]
  /\ verb' = "done"
  /\ UNCHANGED <<queue, flushGen, closePhase, fails, unmarked, spk, wr, flu,
                 frames, markVars, wireVars>>

ActSendFail(c) ==
  /\ act[c] = "send"
  /\ CountFailure
  /\ act' = [act EXCEPT ![c] = PCAfterFailure("failed")]
  /\ verb' = IF PCAfterFailure("failed") = "failed" THEN "done" ELSE verb
  /\ UNCHANGED <<queue, flushGen, closePhase, unmarked, spk, wr, flu, frames,
                 markVars, verbsSent, wireVars>>

\* A seeded slip: the once is not let go of when the write closed the leg.
ActAfterCloseHolds(c) ==
  /\ act[c] = "close" /\ closePhase = "closed"
  /\ act' = [act EXCEPT ![c] = "failed"]
  /\ UNCHANGED <<queue, flushGen, closePhase, fails, unmarked, spk, wr, flu,
                 frames, markVars, verb, verbsSent, wireVars>>

ActAfterClose(c) ==
  /\ act[c] = "close" /\ closePhase = "closed"
  /\ act' = [act EXCEPT ![c] = "failed"]
  /\ verb' = "done"
  /\ UNCHANGED <<queue, flushGen, closePhase, fails, unmarked, spk, wr, flu,
                 frames, markVars, verbsSent, wireVars>>

-----------------------------------------------------------------------------
\* signalClose, run once: by the read loop when the peer stops or the socket
\* errs (and by Close), or by a goroutine whose write used up the failures.
BeginClose ==
  /\ closePhase' = "closing"
  /\ UNCHANGED <<queue, flushGen, fails, unmarked, spk, wr, flu, frames,
                 markVars, callVars, wireVars>>

PeerGone == Open /\ BeginClose

CloseWanted == \/ wr.pc = "close"
               \/ \E f \in Flushers : flu[f].pc = "close"
               \/ \E c \in Callers : act[c] = "close"

FailuresClose == Open /\ CloseWanted /\ BeginClose

FinishClose ==
  /\ closePhase = "closing"
  /\ closePhase' = "closed"
  /\ SetPending(0)
  /\ UNCHANGED <<queue, flushGen, fails, unmarked, spk, wr, flu, frames,
                 wait, callVars, wireVars>>

-----------------------------------------------------------------------------
WriterStep == FlushOnePop \/ WriteAudioCheckGen \/ WriteAudioCheckClosed
                \/ WriteAudioOk \/ WriteAudioFail \/ FlushOneMarkDone
SpeakerStep(s) == (\E n \in 1 .. MaxChunks : WriteEnqueue(s, n)) \/ WriteAddMarks(s)
FlushProgress(f) == FlushMarks(f) \/ FlushCheckClosed(f) \/ FlushSendOk(f)
                      \/ FlushSendFail(f) \/ FlushAfterClose(f)
WaitProgress(w) == InnerCheck(w) \/ WaitReturn(w)
ActProgress(c) == ActOnce(c) \/ ActCheckClosed(c) \/ ActSendOk(c)
                    \/ ActSendFail(c) \/ ActAfterClose(c)

Next ==
  \/ \E s \in Speakers : SpeakerStep(s)
  \/ WriterStep
  \/ \E f \in Flushers : FlushDrop(f) \/ FlushProgress(f)
  \/ \E w \in Waiters : WaitStart(w) \/ WaitProgress(w) \/ WaitExpire(w)
  \/ \E c \in Callers : ActRequest(c) \/ ActProgress(c)
  \/ PeerGone \/ FailuresClose \/ FinishClose

Spec == Init /\ [][Next]_vars

\* A goroutine that is running keeps running; nobody is obliged to speak,
\* flush, wait, request a verb, let a context expire or leave the call.
Fairness ==
  /\ WF_vars(WriterStep)
  /\ \A s \in Speakers : WF_vars(WriteAddMarks(s))
  /\ \A f \in Flushers : WF_vars(FlushProgress(f))
  /\ \A w \in Waiters : WF_vars(InnerCheck(w)) /\ WF_vars(WaitReturn(w))
  /\ \A c \in Callers : WF_vars(ActProgress(c))
  /\ WF_vars(FailuresClose)
  /\ WF_vars(FinishClose)

FairSpec == Spec /\ Fairness

-----------------------------------------------------------------------------
\* The frame the write loop has popped and not yet written or discarded.
Holding == wr.pc \in {"gen", "closed", "send"}

\* Every variable ranges over the values the code can give it; the queue
\* never outgrows maxQueuedFrames.
TypeOK ==
  /\ queue \in Seq(Nat) /\ Len(queue) <= MaxQueuedFrames
  /\ flushGen \in Nat /\ pending \in Nat /\ fails \in Nat /\ frames \in Nat
  /\ closePhase \in {"open", "closing", "closed"}
  /\ unmarked \in Int
  /\ spk \in [Speakers -> Nat]
  /\ wr \in [pc : WriterPC, gen : Nat, frame : Nat]
  /\ flu \in [Flushers -> [pc : FlushPC, gen : Nat]]
  /\ wait \in [Waiters -> {"idle", "blocked", "drained", "canceled", "expired"}]
  /\ inner \in [Waiters -> {"none", "run", "parked", "exit"}]
  /\ verb \in {"free", "busy", "done"}
  /\ act \in [Callers -> ActPC]
  /\ peerGen \in Nat /\ stale \in Nat /\ verbsSent \in Nat

\* Barge-in leaves nothing of the interrupted speech behind: every frame in
\* the queue was put there after the last Flush emptied it.
QueueIsCurrent == \A i \in 1 .. Len(queue) : queue[i] = flushGen

\* A stale frame can still reach the caller after the flush message, because
\* writeAudio compares generations before it takes the socket; but one Flush
\* lets at most one such frame through.
StaleBounded == stale <= flushGen

\* sync.Cond: a waiter parked on the condition variable always has a reason
\* to be; whoever makes pending zero has woken it (markDone, Flush, signalClose).
NoLostWakeup == \A w \in Waiters : inner[w] = "parked" => pending > 0

\* The module rejects a second armed action, so the leg sends at most one verb
\* however many goroutines ask (tool execution, fail-call, hangup).
VerbAtMostOnce == verbsSent <= 1

\* Until something is flushed, WaitMark's count never falls behind the queue:
\* with no WritePCM between its two sections, a zero count on an open leg
\* means there is nothing left to play.
MarkNeverEarly ==
  (Open /\ flushGen = 0 /\ unmarked = 0 /\ pending = 0) => queue = <<>> /\ ~Holding

\* Every caller of the leg gets its answer.  A request for a verb returns:
\* whoever holds actionOnce lets go of it, even when its own write failure
\* closes the leg.  And closing the leg releases every WaitMark caller.  So
\* again and again nobody is inside a verb and nobody waits on a closed leg.
LegAnswersAll ==
  []<>(/\ \A c \in Callers : act[c] \notin {"once", "closed", "send", "close"}
       /\ \A w \in Waiters : wait[w] = "blocked" => Open)

\* The leg as the turn machine uses it: whoever asks for the verb, however the
\* writes fail and the leg closes meanwhile, it goes out at most once, on a leg
\* that is up, and after a failed attempt not at all.
Leg == INSTANCE CallLeg WITH up <- Open, told <- verbsSent, spent <- verb = "done"
ImplementsCallLeg == Leg!LegSpec

=============================================================================
