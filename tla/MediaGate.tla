------------------------------ MODULE MediaGate ------------------------------
(***************************************************************************)
(* The media gate of one live session: control/media_phase.go and the      *)
(* goroutines of control/runtime_adapter.go that go through it.            *)
(*                                                                         *)
(* POST /answer (any number of HTTP goroutines) speaks the welcome once    *)
(* the media is ready; the finals consumer queues what the caller says     *)
(* until the welcome is over and runs a turn for each final afterwards;    *)
(* the answer that completes the welcome also delivers what was queued.    *)
(* The phase, the welcome flag and the queue are read and written under    *)
(* the session's own mutex, one section at a time, so a goroutine that     *)
(* asks in one section and acts in the next can be overtaken.              *)
(*                                                                         *)
(* Finals reach the consumer through a bounded channel that the stream's   *)
(* reader fills without waiting: a final that finds it full is gone, and   *)
(* nobody is told (sarvamstt/listen.go).                                   *)
(***************************************************************************)
EXTENDS Integers, Sequences, FiniteSets

CONSTANTS Answerers,   \* HTTP goroutines in POST /v1/sessions/{id}/answer
          FinalsCap,   \* capacity of the Finals channel
          MaxFinals,   \* bound: finals the recogniser emits
          MaxTries     \* bound: calls each answering client makes

ASSUME GateAssumption == FinalsCap \in Nat \ {0} /\ MaxFinals \in Nat /\ MaxTries \in Nat

VARIABLES phase,            \* sessionMedia.phase
          welcomeCompleted, \* sessionMedia.welcomeCompleted
          sinkAttached,     \* sessionMedia.sinkAttached
          firstUplink,      \* sessionMedia.firstUplink
          queued,           \* sessionMedia.queuedFinals
          live,             \* the session has an entry in SessionRuntime.lives
          stopped,          \* stopLiveTalk has run
          talkWelcomed,     \* composer.Talk.welcomeCompleted
          emitted,          \* finals the recogniser has emitted: 1 .. emitted
          stream,           \* the Finals channel
          con,              \* the finals consumer: pc and the final in hand
          ans,              \* the answer calls
          delivered,        \* history: finals in the order their turns began
          dropped,          \* history: finals that found the channel full
          late              \* history: finals queued when the welcome was over

mediaVars == <<phase, welcomeCompleted, sinkAttached, firstUplink>>
lifeVars  == <<live, stopped>>
lossVars  == <<dropped, late>>
vars == <<mediaVars, lifeVars, queued, talkWelcomed, emitted, stream, con, ans, delivered,
          lossVars>>

Phases == {"establishing", "ready", "welcoming", "conversing", "draining"}
mediaPhaseRank(p) == CASE p = "establishing" -> 1 [] p = "ready" -> 2
                       [] p = "welcoming" -> 3 [] p = "conversing" -> 4
                       [] p = "draining" -> 5

ConPC == {"none", "recv", "queue", "turn", "off"}
AnsPC == {"idle", "view", "begin", "check", "speak", "revert",
          "complete", "take", "deliver"}

Idle == [pc |-> "idle", live |-> FALSE, list |-> <<>>, tries |-> 0]

Init ==
  /\ phase = "establishing" /\ welcomeCompleted = FALSE
  /\ sinkAttached = FALSE /\ firstUplink = FALSE
  /\ queued = <<>> /\ live = FALSE /\ stopped = FALSE /\ talkWelcomed = FALSE
  /\ emitted = 0 /\ stream = <<>>
  /\ con = [pc |-> "none", final |-> 0]
  /\ ans = [a \in Answerers |-> Idle]
  /\ delivered = <<>> /\ dropped = {} /\ late = {}

-----------------------------------------------------------------------------
\* StartLiveTalk: onEdgeAttach comes first; the live entry and the goroutines
\* appear only once the listen stream has opened, which nothing calls off: a
\* stop that came in between is not noticed.
OnEdgeAttach ==
  /\ ~sinkAttached /\ ~stopped
  /\ sinkAttached' = TRUE
  /\ UNCHANGED <<phase, welcomeCompleted, firstUplink, lifeVars, queued, talkWelcomed,
                 emitted, stream, con, ans, delivered, lossVars>>

GoLive ==
  /\ sinkAttached /\ con.pc = "none"
  /\ live' = TRUE
  /\ con' = [con EXCEPT !.pc = "recv"]
  /\ UNCHANGED <<mediaVars, stopped, queued, talkWelcomed, emitted, stream, ans,
                 delivered, lossVars>>

\* tryEnterReadyLocked, reached with the first uplink frame noted.
NoteFirstUplink ==
  /\ live /\ ~firstUplink
  /\ firstUplink' = TRUE
  /\ phase' = IF phase = "establishing" /\ sinkAttached THEN "ready" ELSE phase
  /\ UNCHANGED <<welcomeCompleted, sinkAttached, lifeVars, queued, talkWelcomed,
                 emitted, stream, con, ans, delivered, lossVars>>

\* rtpSettleWatch: the settle time has passed since the attach.
EnterReadyFromSettle ==
  /\ live /\ phase = "establishing" /\ sinkAttached
  /\ phase' = "ready"
  /\ UNCHANGED <<welcomeCompleted, sinkAttached, firstUplink, lifeVars, queued,
                 talkWelcomed, emitted, stream, con, ans, delivered, lossVars>>

\* stopLiveTalk: the live entry goes and the phase drains under one lock; the
\* media record exists from the attach on.
StopLiveTalk ==
  /\ ~stopped \/ live
  /\ live' = FALSE /\ stopped' = TRUE
  /\ phase' = IF sinkAttached THEN "draining" ELSE phase
  /\ UNCHANGED <<welcomeCompleted, sinkAttached, firstUplink, queued, talkWelcomed,
                 emitted, stream, con, ans, delivered, lossVars>>

-----------------------------------------------------------------------------
\* listenStream.readLoop hands the next final over, or drops it when the channel
\* is full.  Nothing is transcribed before the pump has begun to send audio.
EmitFinal ==
  /\ con.pc \notin {"none", "off"} /\ emitted < MaxFinals
  /\ emitted' = emitted + 1
  /\ IF Len(stream) < FinalsCap
       THEN stream' = Append(stream, emitted + 1) /\ UNCHANGED dropped
       ELSE dropped' = dropped \cup {emitted + 1} /\ UNCHANGED stream
  /\ UNCHANGED <<mediaVars, lifeVars, queued, talkWelcomed, con, ans, delivered, late>>

\* A seeded slip: a welcome that runs holds no final back.
QueueUntilWelcoming == mediaPhaseRank(phase) < mediaPhaseRank("welcoming")

\* consumeListenFinals.  The default policy forbids barging into the welcome,
\* so every final before Conversing is queued.
ShouldQueueFinal == mediaPhaseRank(phase) < mediaPhaseRank("conversing")

ConsumeFinal ==
  /\ con.pc = "recv" /\ stream # <<>>
  /\ stream' = Tail(stream)
  /\ con' = [pc |-> IF ShouldQueueFinal THEN "queue" ELSE "turn", final |-> Head(stream)]
  /\ delivered' = IF ShouldQueueFinal THEN delivered ELSE Append(delivered, Head(stream))
  /\ UNCHANGED <<mediaVars, lifeVars, queued, talkWelcomed, emitted, ans, lossVars>>

QueueFinal ==
  /\ con.pc = "queue"
  /\ queued' = Append(queued, con.final)
  /\ con' = [pc |-> "recv", final |-> 0]
  /\ late' = IF welcomeCompleted THEN late \cup {con.final} ELSE late
  /\ UNCHANGED <<mediaVars, lifeVars, talkWelcomed, emitted, stream, ans, delivered,
                 dropped>>

\* deliverListenFinal returns when the turn it ran is over.
ConsumerTurnEnds ==
  /\ con.pc = "turn"
  /\ con' = [pc |-> "recv", final |-> 0]
  /\ UNCHANGED <<mediaVars, lifeVars, queued, talkWelcomed, emitted, stream, ans,
                 delivered, lossVars>>

\* The cancelled context is noticed between two finals, and so is the end of a
\* recogniser that failed: the channel is closed once it is empty.
ConsumerStops ==
  /\ con.pc = "recv" /\ (~live \/ stream = <<>>)
  /\ con' = [con EXCEPT !.pc = "off"]
  /\ UNCHANGED <<mediaVars, lifeVars, queued, talkWelcomed, emitted, stream, ans,
                 delivered, lossVars>>

-----------------------------------------------------------------------------
\* AnswerCall.  Whether the call is gated at all is decided once, on entry; a
\* stopped session takes no further calls.
Step(a, pc) == ans' = [ans EXCEPT ![a].pc = pc]

AnswerEnter(a) ==
  /\ ans[a].pc = "idle" /\ ans[a].tries < MaxTries /\ ~stopped
  /\ ans' = [ans EXCEPT ![a] = [pc |-> IF live THEN "view" ELSE "check", live |-> live,
                                list |-> <<>>, tries |-> @.tries + 1]]
  /\ UNCHANGED <<mediaVars, lifeVars, queued, talkWelcomed, emitted, stream, con,
                 delivered, lossVars>>

AnswerView(a) ==
  /\ ans[a].pc = "view"
  /\ Step(a, IF welcomeCompleted THEN "idle" ELSE "begin")
  /\ UNCHANGED <<mediaVars, lifeVars, queued, talkWelcomed, emitted, stream, con,
                 delivered, lossVars>>

\* A seeded slip: a welcome that runs does not refuse another.
WelcomeTooEarly == mediaPhaseRank(phase) < mediaPhaseRank("ready")
WelcomeRefused == phase = "welcoming" \/ mediaPhaseRank(phase) < mediaPhaseRank("ready")

\* beginWelcome: refused while another welcome runs and before Ready; it does
\* not look for Draining.
BeginWelcome(a) ==
  /\ ans[a].pc = "begin"
  /\ \/ /\ welcomeCompleted
        /\ Step(a, "check")
        /\ UNCHANGED phase
     \/ /\ ~welcomeCompleted
        /\ WelcomeRefused
        /\ Step(a, "idle")
        /\ UNCHANGED phase
     \/ /\ ~welcomeCompleted
        /\ ~WelcomeRefused
        /\ Step(a, "check")
        /\ phase' = "welcoming"
  /\ UNCHANGED <<welcomeCompleted, sinkAttached, firstUplink, lifeVars, queued,
                 talkWelcomed, emitted, stream, con, delivered, lossVars>>

\* Talk.AnswerCall: idempotent once the Talk itself has finished a welcome.
AnswerTalk(a) ==
  /\ ans[a].pc = "check"
  /\ Step(a, IF ~talkWelcomed THEN "speak" ELSE IF ans[a].live THEN "complete" ELSE "idle")
  /\ UNCHANGED <<mediaVars, lifeVars, queued, talkWelcomed, emitted, stream, con,
                 delivered, lossVars>>

\* The welcome has been played to its end.
WelcomeSpoken(a) ==
  /\ ans[a].pc = "speak"
  /\ talkWelcomed' = TRUE
  /\ Step(a, IF ans[a].live THEN "complete" ELSE "idle")
  /\ UNCHANGED <<mediaVars, lifeVars, queued, emitted, stream, con, delivered, lossVars>>

\* The welcome could not be spoken, or the graph failed.
WelcomeFails(a) ==
  /\ ans[a].pc = "speak"
  /\ Step(a, IF ans[a].live THEN "revert" ELSE "idle")
  /\ UNCHANGED <<mediaVars, lifeVars, queued, talkWelcomed, emitted, stream, con,
                 delivered, lossVars>>

\* The welcome is over, and the tool its node arms is refused: the Talk counts
\* it as completed, the gate is reverted.
WelcomeToolFails(a) ==
  /\ ans[a].pc = "speak"
  /\ talkWelcomed' = TRUE
  /\ Step(a, IF ans[a].live THEN "revert" ELSE "idle")
  /\ UNCHANGED <<mediaVars, lifeVars, queued, emitted, stream, con, delivered, lossVars>>

\* A seeded slip: the gate stays closed.
PhaseKept == phase

\* revertWelcome: the next answer may try again.
PhaseReverted == IF ~welcomeCompleted /\ phase = "welcoming" THEN "ready" ELSE phase

RevertWelcome(a) ==
  /\ ans[a].pc = "revert"
  /\ phase' = PhaseReverted
  /\ Step(a, "idle")
  /\ UNCHANGED <<welcomeCompleted, sinkAttached, firstUplink, lifeVars, queued,
                 talkWelcomed, emitted, stream, con, delivered, lossVars>>

\* completeWelcome writes the phase whatever it was.
CompleteWelcome(a) ==
  /\ ans[a].pc = "complete"
  /\ welcomeCompleted' = TRUE
  /\ phase' = "conversing"
  /\ Step(a, "take")
  /\ UNCHANGED <<sinkAttached, firstUplink, lifeVars, queued, talkWelcomed, emitted,
                 stream, con, delivered, lossVars>>

\* drainQueuedFinals: take the whole queue, then run one turn after another.
\* Seeded slip: the queue is copied and not cleared.
QueueKept == queued
QueueCleared == <<>>

TakeQueuedFinals(a) ==
  /\ ans[a].pc = "take"
  /\ ans' = [ans EXCEPT ![a].pc = IF queued = <<>> THEN "idle" ELSE "deliver",
                        ![a].list = queued]
  /\ queued' = QueueCleared
  /\ delivered' = IF queued = <<>> THEN delivered ELSE Append(delivered, Head(queued))
  /\ UNCHANGED <<mediaVars, lifeVars, talkWelcomed, emitted, stream, con, lossVars>>

\* The turn of the first taken final ends; the next one, if any, begins.
AnswerTurnEnds(a) ==
  /\ ans[a].pc = "deliver"
  /\ LET rest == Tail(ans[a].list)
     IN /\ ans' = [ans EXCEPT ![a].pc = IF rest = <<>> THEN "idle" ELSE "deliver",
                              ![a].list = rest]
        /\ delivered' = IF rest = <<>> THEN delivered ELSE Append(delivered, Head(rest))
  /\ UNCHANGED <<mediaVars, lifeVars, queued, talkWelcomed, emitted, stream, con,
                 lossVars>>

-----------------------------------------------------------------------------
ConsumerStep == ConsumeFinal \/ QueueFinal \/ ConsumerTurnEnds \/ ConsumerStops
AnswerProgress(a) ==
  \/ AnswerView(a) \/ BeginWelcome(a) \/ AnswerTalk(a) \/ WelcomeSpoken(a)
  \/ WelcomeFails(a) \/ WelcomeToolFails(a) \/ RevertWelcome(a) \/ CompleteWelcome(a)
  \/ TakeQueuedFinals(a) \/ AnswerTurnEnds(a)

Next ==
  \/ OnEdgeAttach \/ GoLive \/ NoteFirstUplink \/ EnterReadyFromSettle \/ StopLiveTalk
  \/ EmitFinal \/ ConsumerStep
  \/ \E a \in Answerers : AnswerEnter(a) \/ AnswerProgress(a)

Spec == Init /\ [][Next]_vars

\* The settle ticker, the consumer and an HTTP goroutine that has started go
\* on (Speak and turns are bounded by their contexts); nobody must call,
\* speak, attach or hang up, and no recogniser must fail.
Fairness ==
  /\ WF_vars(EnterReadyFromSettle)
  /\ WF_vars(ConsumeFinal \/ QueueFinal \/ ConsumerTurnEnds \/ (~live /\ ConsumerStops))
  /\ \A a \in Answerers : WF_vars(AnswerProgress(a))

FairSpec == Spec /\ Fairness

-----------------------------------------------------------------------------
\* Gated answer calls whose welcome is being spoken.
Welcoming == {a \in Answerers : ans[a].live /\ ans[a].pc = "speak"}

TypeOK ==
  /\ phase \in Phases
  /\ welcomeCompleted \in BOOLEAN /\ sinkAttached \in BOOLEAN /\ firstUplink \in BOOLEAN
  /\ live \in BOOLEAN /\ stopped \in BOOLEAN /\ talkWelcomed \in BOOLEAN
  /\ emitted \in 0 .. MaxFinals
  /\ queued \in Seq(1 .. MaxFinals) /\ stream \in Seq(1 .. MaxFinals)
  /\ delivered \in Seq(1 .. MaxFinals)
  /\ con \in [pc : ConPC, final : 0 .. MaxFinals]
  /\ ans \in [Answerers -> [pc : AnsPC, live : BOOLEAN, list : Seq(1 .. MaxFinals),
                            tries : 0 .. MaxTries]]
  /\ dropped \subseteq 1 .. emitted /\ late \subseteq 1 .. MaxFinals

\* While the session is live two answer calls never speak the welcome over
\* each other, however they interleave with the gate.
WelcomeExclusive == ~stopped => \A a, b \in Welcoming : a = b

\* While a gated welcome is being spoken on a live session, nothing the caller
\* says has started a turn: finals wait for the welcome to finish.
NoTurnDuringWelcome == (~stopped /\ Welcoming # {}) => delivered = <<>>

\* Where a final is: the stream, the consumer's hand, the queue, an answer's
\* list, or among those whose turn has begun.
Occurrences(n) ==
  LET In(s) == Cardinality({i \in DOMAIN s : s[i] = n})
  IN In(stream) + In(queued) + In(delivered)
       + (IF con.pc = "queue" /\ con.final = n THEN 1 ELSE 0)
       + Cardinality({a \in Answerers : ans[a].pc = "deliver"
                        /\ \E i \in 2 .. Len(ans[a].list) : ans[a].list[i] = n})

\* A final that the full channel did not drop is in exactly one place, and no
\* other is anywhere.
KeptOnce == \A n \in 1 .. emitted : Occurrences(n) = IF n \in dropped THEN 0 ELSE 1

\* Once the answer that completed the welcome has taken the queue, what is in
\* it, if anything, is a final judged before and queued after (consumeListenFinals
\* asks and queues in two sections).
OnlyLateStranded ==
  (welcomeCompleted /\ \A a \in Answerers : ans[a].pc # "take") =>
    \A i \in DOMAIN queued : queued[i] \in late

\* However the consumer, the answers and the end of the session interleave, the
\* gate neither loses a final that reached it nor runs it twice, with one
\* exception: a single final of the call that was judged before the welcome
\* completed and queued after may stay in the queue for good.
FinalsConserved ==
  /\ KeptOnce
  /\ OnlyLateStranded
  /\ \A m, n \in late : m = n

\* A session that has drained leaves that phase only through an answer call
\* that entered while it was live (beginWelcome and completeWelcome do not
\* look at Draining).
OnlyAnswerLeavesDraining ==
  [][ (phase = "draining" /\ phase' # "draining") =>
        \E a \in Answerers : ans[a].live /\ ans[a].pc \in {"begin", "complete"} ]_vars

\* The gate never stays closed on a welcome: it completes, or it is reverted
\* and may be retried.
WelcomeEnds == (phase = "welcoming") ~> (phase # "welcoming")

\* The gate as the turn machine uses it: however the answers, the consumer and a
\* stop interleave, a final's turn begins after the welcome, or on a stopped
\* session in the consumer's goroutine.
Talking == {w \in {"consumer", "answer"} :
              IF w = "consumer" THEN con.pc = "turn"
                                ELSE \E a \in Answerers : ans[a].pc = "deliver"}
Floor == INSTANCE FinalsFloor WITH open <- welcomeCompleted, talking <- Talking
ImplementsFinalsFloor == Floor!FloorSpec

=============================================================================
