--------------------------- MODULE MediaGateProofs ---------------------------
(***************************************************************************)
(* Proofs about MediaGate for any number of answering clients, finals and  *)
(* attempts: type correctness, that on a session that has not been stopped *)
(* welcomes exclude each other and the caller's turns, that the gate is    *)
(* the one the turn machine uses (FinalsFloor), and what becomes of a      *)
(* final: dropped at the full channel, or in one place, and stranded in    *)
(* the queue only if it came late.                                         *)
(***************************************************************************)
EXTENDS MediaGate, SequenceTheorems, FiniteSetTheorems, TLAPS

Finals == 1 .. MaxFinals

\* TypeOK with what it needs to be inductive: the consumer holds a final when
\* it is about to queue one, and an answer that delivers has one to deliver.
TypeInv ==
  /\ TypeOK
  /\ con.pc = "queue" => con.final \in Finals
  /\ \A a \in Answerers : ans[a].pc = "deliver" => ans[a].list # <<>>

\* The answer calls that hold the gate, when the welcome is not over.
Gated(a) == ans[a].live /\ ans[a].pc \in {"check", "speak", "revert", "complete"}

\* What the program counters say, whether or not the session was stopped.
PCInv ==
  /\ welcomeCompleted => talkWelcomed
  /\ \A a \in Answerers :
       /\ ans[a].pc = "complete" => talkWelcomed
       /\ ans[a].pc \in {"take", "deliver"} => welcomeCompleted
       /\ ans[a].pc \in {"view", "begin", "revert", "complete"} => ans[a].live

\* One call at a time holds the gate, and holds it in Welcoming.
GateInv ==
  ~stopped =>
    /\ phase # "draining"
    /\ phase = "conversing" => welcomeCompleted
    /\ ~welcomeCompleted => delivered = <<>> /\ con.pc # "turn"
    /\ \A a \in Answerers : Gated(a) /\ ~welcomeCompleted => phase = "welcoming"
    /\ \A a, b \in Answerers : Gated(a) /\ Gated(b) /\ ~welcomeCompleted => a = b
    /\ \A a \in Answerers : ans[a].live /\ ans[a].pc = "speak" => ~welcomeCompleted

IInv == TypeInv /\ PCInv /\ GateInv

-----------------------------------------------------------------------------
\* Taking the first of a non-empty sequence leaves one of the same kind.
LEMMA TakeFirst ==
  ASSUME NEW S, NEW s \in Seq(S), s # <<>>
  PROVE  Head(s) \in S /\ Tail(s) \in Seq(S)
BY HeadTailProperties

LEMMA AppendOne ==
  ASSUME NEW S, NEW s \in Seq(S), NEW e \in S
  PROVE  Append(s, e) \in Seq(S)
OBVIOUS

LEMMA TypeInit == Init => TypeInv
<1> SUFFICES ASSUME Init PROVE TypeInv
  OBVIOUS
<1>1. 0 \in 0 .. MaxFinals /\ 0 \in 0 .. MaxTries /\ <<>> \in Seq(Finals)
  BY GateAssumption
<1>2. Idle \in [pc : AnsPC, live : BOOLEAN, list : Seq(Finals), tries : 0 .. MaxTries]
  BY <1>1 DEF Idle, AnsPC
<1>3. con \in [pc : ConPC, final : 0 .. MaxFinals]
  BY <1>1 DEF Init, ConPC
<1> QED
  BY <1>1, <1>2, <1>3 DEF Init, TypeInv, TypeOK, Idle, Phases, Finals

\* An answer call that only moves its program counter, and not to a delivery,
\* keeps the type of the calls.
AnsRec == [pc : AnsPC, live : BOOLEAN, list : Seq(Finals), tries : 0 .. MaxTries]
AnsType == [Answerers -> AnsRec]
Delivering(f) == \A b \in Answerers : f[b].pc = "deliver" => f[b].list # <<>>

LEMMA RecStep ==
  ASSUME NEW f \in AnsType, Delivering(f), NEW a \in Answerers, NEW r \in AnsRec,
         r.pc = "deliver" => r.list # <<>>
  PROVE  [f EXCEPT ![a] = r] \in AnsType /\ Delivering([f EXCEPT ![a] = r])
<1> DEFINE g == [f EXCEPT ![a] = r]
<1>1. \A b \in Answerers : g[b] = IF b = a THEN r ELSE f[b]
  BY DEF AnsType
<1>2. g \in AnsType
  BY DEF AnsType, AnsRec
<1>3. Delivering(g)
  BY <1>1 DEF Delivering
<1> QED
  BY <1>2, <1>3

LEMMA PCStep ==
  ASSUME NEW f \in AnsType, Delivering(f), NEW a \in Answerers,
         NEW pc \in AnsPC \ {"deliver"}
  PROVE  /\ [f EXCEPT ![a].pc = pc] \in AnsType
         /\ Delivering([f EXCEPT ![a].pc = pc])
<1> DEFINE r == [f[a] EXCEPT !.pc = pc]
<1>1. r \in AnsRec /\ r.pc = pc
  BY DEF AnsType, AnsRec
<1>2. [f EXCEPT ![a].pc = pc] = [f EXCEPT ![a] = r]
  OBVIOUS
<1> QED
  BY <1>1, <1>2, RecStep

\* Every step keeps the types.
LEMMA TypeStep == TypeInv /\ [Next]_vars => TypeInv'
<1> SUFFICES ASSUME TypeInv, [Next]_vars PROVE TypeInv'
  OBVIOUS
<1> USE GateAssumption DEF TypeInv, TypeOK, Finals, Phases, ConPC, AnsPC, lossVars
<1>1. CASE OnEdgeAttach
  BY <1>1 DEF OnEdgeAttach, lifeVars
<1>2. CASE GoLive
  BY <1>2 DEF GoLive, mediaVars
<1>3. CASE NoteFirstUplink
  BY <1>3 DEF NoteFirstUplink, lifeVars
<1>4. CASE EnterReadyFromSettle
  BY <1>4 DEF EnterReadyFromSettle, lifeVars
<1>5. CASE StopLiveTalk
  BY <1>5 DEF StopLiveTalk
<1>6. CASE EmitFinal
  <2>1. emitted + 1 \in Finals /\ emitted' = emitted + 1 /\ emitted \in Nat
    BY <1>6 DEF EmitFinal
  <2>2. stream' \in Seq(Finals)
    <3>1. Append(stream, emitted + 1) \in Seq(Finals)
      BY <2>1, AppendOne
    <3> QED
      BY <1>6, <3>1 DEF EmitFinal
  <2>3. dropped' \subseteq 1 .. emitted'
    <3>1. \A d \in dropped : d \in 1 .. emitted + 1
      BY <2>1
    <3>2. dropped' \subseteq dropped \cup {emitted + 1} /\ emitted + 1 \in 1 .. emitted + 1
      BY <1>6, <2>1 DEF EmitFinal
    <3> QED
      BY <2>1, <3>1, <3>2
  <2> QED
    BY <1>6, <2>1, <2>2, <2>3 DEF EmitFinal, mediaVars, lifeVars
<1>7. CASE ConsumerStep
  <2>1. CASE ConsumeFinal
    <3>1. Head(stream) \in Finals /\ Tail(stream) \in Seq(Finals)
      BY <2>1, TakeFirst DEF ConsumeFinal
    <3>2. con' \in [pc : ConPC, final : 0 .. MaxFinals]
      BY <2>1, <3>1 DEF ConsumeFinal
    <3>3. con'.pc = "queue" => con'.final \in Finals
      BY <2>1, <3>1 DEF ConsumeFinal
    <3>4. delivered' \in Seq(Finals)
      <4>1. Append(delivered, Head(stream)) \in Seq(Finals)
        BY <3>1, AppendOne
      <4> QED
        BY <2>1, <4>1 DEF ConsumeFinal
    <3> QED
      BY <2>1, <3>1, <3>2, <3>3, <3>4 DEF ConsumeFinal, mediaVars, lifeVars
  <2>2. CASE QueueFinal
    <3>1. late' \subseteq Finals
      BY <2>2 DEF QueueFinal
    <3>2. queued' \in Seq(Finals)
      BY <2>2, AppendOne DEF QueueFinal
    <3> QED
      BY <2>2, <3>1, <3>2 DEF QueueFinal, mediaVars, lifeVars
  <2>3. CASE ConsumerTurnEnds
    BY <2>3 DEF ConsumerTurnEnds, mediaVars, lifeVars
  <2>4. CASE ConsumerStops
    BY <2>4 DEF ConsumerStops, mediaVars, lifeVars
  <2> QED
    BY <1>7, <2>1, <2>2, <2>3, <2>4 DEF ConsumerStep
<1>8. ASSUME NEW a \in Answerers, AnswerEnter(a) \/ AnswerProgress(a)
      PROVE  TypeInv'
  <2> DEFINE Moved(pc) == ans' = [ans EXCEPT ![a].pc = pc]
  <2>0. ASSUME NEW pc \in AnsPC \ {"deliver"}, Moved(pc),
               UNCHANGED <<queued, emitted, stream, con, delivered, sinkAttached,
                           firstUplink, lifeVars, lossVars>>,
               phase' \in Phases, welcomeCompleted' \in BOOLEAN, talkWelcomed' \in BOOLEAN
        PROVE  TypeInv'
    <3>1. ans \in AnsType /\ Delivering(ans)
      BY DEF AnsType, AnsRec, Delivering
    <3>2. ans' \in AnsType /\ Delivering(ans')
      BY <2>0, <3>1, PCStep
    <3> QED
      BY <2>0, <3>2 DEF AnsType, AnsRec, Delivering, lifeVars
  <2>1. CASE AnswerEnter(a)
    <3> DEFINE e == [pc |-> IF live THEN "view" ELSE "check", live |-> live,
                     list |-> <<>>, tries |-> ans[a].tries + 1]
    <3>1. ans' = [ans EXCEPT ![a] = e]
      BY <2>1 DEF AnswerEnter
    <3>2. e \in AnsRec /\ e.pc # "deliver"
      BY <2>1 DEF AnswerEnter, AnsRec
    <3>3. ans \in AnsType /\ Delivering(ans)
      BY DEF AnsType, AnsRec, Delivering
    <3>4. ans' \in AnsType /\ Delivering(ans')
      BY <3>1, <3>2, <3>3, RecStep
    <3>6. UNCHANGED <<phase, welcomeCompleted, sinkAttached, firstUplink, live, stopped,
                      queued, talkWelcomed, emitted, stream, con, delivered, dropped, late>>
      BY <2>1 DEF AnswerEnter, mediaVars, lifeVars
    <3> QED
      BY <3>4, <3>6 DEF AnsType, AnsRec, Delivering
  <2>2. CASE AnswerView(a)
    <3>1. Moved("idle") \/ Moved("begin")
      BY <2>2 DEF AnswerView, Step
    <3>2. /\ UNCHANGED <<queued, emitted, stream, con, delivered, sinkAttached,
                         firstUplink, lifeVars, lossVars>>
          /\ phase' \in Phases /\ welcomeCompleted' \in BOOLEAN /\ talkWelcomed' \in BOOLEAN
      BY <2>2 DEF AnswerView, mediaVars
    <3> QED
      BY <2>0, <3>1, <3>2
  <2>3. CASE BeginWelcome(a)
    <3>1. Moved("check") \/ Moved("idle")
      BY <2>3 DEF BeginWelcome, Step
    <3>2. /\ UNCHANGED <<queued, emitted, stream, con, delivered, sinkAttached,
                         firstUplink, lifeVars, lossVars>>
          /\ phase' \in Phases /\ welcomeCompleted' \in BOOLEAN /\ talkWelcomed' \in BOOLEAN
      BY <2>3 DEF BeginWelcome
    <3> QED
      BY <2>0, <3>1, <3>2
  <2>4. CASE AnswerTalk(a)
    <3>1. Moved("speak") \/ Moved("complete") \/ Moved("idle")
      BY <2>4 DEF AnswerTalk, Step
    <3>2. /\ UNCHANGED <<queued, emitted, stream, con, delivered, sinkAttached,
                         firstUplink, lifeVars, lossVars>>
          /\ phase' \in Phases /\ welcomeCompleted' \in BOOLEAN /\ talkWelcomed' \in BOOLEAN
      BY <2>4 DEF AnswerTalk, mediaVars
    <3> QED
      BY <2>0, <3>1, <3>2
  <2>5. CASE WelcomeSpoken(a)
    <3>1. Moved("complete") \/ Moved("idle")
      BY <2>5 DEF WelcomeSpoken, Step
    <3>2. /\ UNCHANGED <<queued, emitted, stream, con, delivered, sinkAttached,
                         firstUplink, lifeVars, lossVars>>
          /\ phase' \in Phases /\ welcomeCompleted' \in BOOLEAN /\ talkWelcomed' \in BOOLEAN
      BY <2>5 DEF WelcomeSpoken, mediaVars
    <3> QED
      BY <2>0, <3>1, <3>2
  <2>6. CASE WelcomeFails(a)
    <3>1. Moved("revert") \/ Moved("idle")
      BY <2>6 DEF WelcomeFails, Step
    <3>2. /\ UNCHANGED <<queued, emitted, stream, con, delivered, sinkAttached,
                         firstUplink, lifeVars, lossVars>>
          /\ phase' \in Phases /\ welcomeCompleted' \in BOOLEAN /\ talkWelcomed' \in BOOLEAN
      BY <2>6 DEF WelcomeFails, mediaVars
    <3> QED
      BY <2>0, <3>1, <3>2
  <2>11. CASE WelcomeToolFails(a)
    <3>1. Moved("revert") \/ Moved("idle")
      BY <2>11 DEF WelcomeToolFails, Step
    <3>2. /\ UNCHANGED <<queued, emitted, stream, con, delivered, sinkAttached,
                         firstUplink, lifeVars, lossVars>>
          /\ phase' \in Phases /\ welcomeCompleted' \in BOOLEAN /\ talkWelcomed' \in BOOLEAN
      BY <2>11 DEF WelcomeToolFails, mediaVars
    <3> QED
      BY <2>0, <3>1, <3>2
  <2>7. CASE RevertWelcome(a)
    <3>1. Moved("idle")
      BY <2>7 DEF RevertWelcome, Step
    <3>2. /\ UNCHANGED <<queued, emitted, stream, con, delivered, sinkAttached,
                         firstUplink, lifeVars, lossVars>>
          /\ phase' \in Phases /\ welcomeCompleted' \in BOOLEAN /\ talkWelcomed' \in BOOLEAN
      BY <2>7 DEF RevertWelcome, PhaseReverted
    <3> QED
      BY <2>0, <3>1, <3>2
  <2>8. CASE CompleteWelcome(a)
    <3>1. Moved("take")
      BY <2>8 DEF CompleteWelcome, Step
    <3>2. /\ UNCHANGED <<queued, emitted, stream, con, delivered, sinkAttached,
                         firstUplink, lifeVars, lossVars>>
          /\ phase' \in Phases /\ welcomeCompleted' \in BOOLEAN /\ talkWelcomed' \in BOOLEAN
      BY <2>8 DEF CompleteWelcome
    <3> QED
      BY <2>0, <3>1, <3>2
  <2>9. CASE TakeQueuedFinals(a)
    <3> DEFINE r == [ans[a] EXCEPT !.pc = IF queued = <<>> THEN "idle" ELSE "deliver",
                                   !.list = queued]
    <3>1. delivered' \in Seq(Finals)
      <4>1. queued # <<>> => Append(delivered, Head(queued)) \in Seq(Finals)
        BY TakeFirst, AppendOne
      <4> QED
        BY <2>9, <4>1 DEF TakeQueuedFinals
    <3>2. ans' = [ans EXCEPT ![a] = r]
      BY <2>9 DEF TakeQueuedFinals
    <3>3. ans \in AnsType /\ Delivering(ans)
      BY DEF AnsType, AnsRec, Delivering
    <3>4. r \in AnsRec /\ (r.pc = "deliver" => r.list # <<>>)
      BY <3>3 DEF AnsType, AnsRec
    <3>5. ans' \in AnsType /\ Delivering(ans')
      BY <3>2, <3>3, <3>4, RecStep
    <3>6. UNCHANGED <<phase, welcomeCompleted, sinkAttached, firstUplink, live, stopped,
                      talkWelcomed, emitted, stream, con, dropped, late>>
          /\ queued' = <<>>
      BY <2>9 DEF TakeQueuedFinals, QueueCleared, mediaVars, lifeVars
    <3> QED
      BY <3>1, <3>5, <3>6 DEF AnsType, AnsRec, Delivering
  <2>10. CASE AnswerTurnEnds(a)
    <3> DEFINE rest == Tail(ans[a].list)
               r == [ans[a] EXCEPT !.pc = IF rest = <<>> THEN "idle" ELSE "deliver",
                                   !.list = rest]
    <3>1. ans[a].list \in Seq(Finals) /\ ans[a].list # <<>>
      BY <2>10 DEF AnswerTurnEnds
    <3>2. rest \in Seq(Finals)
      BY <3>1, TakeFirst
    <3>3. delivered' \in Seq(Finals)
      <4>1. rest # <<>> => Head(rest) \in Finals
        BY <3>2, TakeFirst
      <4>2. rest # <<>> => Append(delivered, Head(rest)) \in Seq(Finals)
        BY <4>1, AppendOne
      <4> QED
        BY <2>10, <4>2 DEF AnswerTurnEnds
    <3>4. ans' = [ans EXCEPT ![a] = r]
      BY <2>10 DEF AnswerTurnEnds
    <3>5. ans \in AnsType /\ Delivering(ans)
      BY DEF AnsType, AnsRec, Delivering
    <3> HIDE DEF rest
    <3>6. r \in AnsRec /\ (r.pc = "deliver" => r.list # <<>>)
      BY <3>2, <3>5 DEF AnsType, AnsRec
    <3>7. ans' \in AnsType /\ Delivering(ans')
      BY <3>4, <3>5, <3>6, RecStep
    <3>8. UNCHANGED <<phase, welcomeCompleted, sinkAttached, firstUplink, live, stopped,
                      queued, talkWelcomed, emitted, stream, con, dropped, late>>
      BY <2>10 DEF AnswerTurnEnds, mediaVars, lifeVars
    <3> QED
      BY <3>3, <3>7, <3>8 DEF AnsType, AnsRec, Delivering
  <2> QED
    BY <1>8, <2>1, <2>2, <2>3, <2>4, <2>5, <2>6, <2>7, <2>8, <2>9, <2>10, <2>11 DEF AnswerProgress
<1>9. CASE UNCHANGED vars
  BY <1>9 DEF vars, mediaVars, lifeVars
<1> QED
  BY <1>1, <1>2, <1>3, <1>4, <1>5, <1>6, <1>7, <1>8, <1>9 DEF Next

\* MediaGate, TypeOK: every variable of the media gate keeps its type.
THEOREM TypeCorrect == Spec => []TypeOK
<1>1. TypeInv => TypeOK
  BY DEF TypeInv
<1> QED
  BY TypeInit, TypeStep, <1>1, PTL DEF Spec
-----------------------------------------------------------------------------
\* The finals consumer may run a turn only once the phase is Conversing or later.
LEMMA RankConversing ==
  ASSUME phase \in Phases
  PROVE  ~ShouldQueueFinal <=> phase \in {"conversing", "draining"}
BY DEF Phases, ShouldQueueFinal, mediaPhaseRank

LEMMA InvInit == Init => PCInv /\ GateInv
BY DEF Init, PCInv, GateInv, Gated, Idle

\* Steps of the session: the gate's phase moves, no answer call does.
LEMMA SessionStep ==
  ASSUME IInv,
         OnEdgeAttach \/ GoLive \/ NoteFirstUplink \/ EnterReadyFromSettle
           \/ StopLiveTalk \/ EmitFinal \/ ConsumerStep
  PROVE  PCInv' /\ GateInv'
<1> USE DEF IInv, PCInv, GateInv, Gated, TypeInv, TypeOK
<1>1. CASE OnEdgeAttach
  BY <1>1 DEF OnEdgeAttach, lifeVars
<1>2. CASE GoLive
  BY <1>2 DEF GoLive, mediaVars
<1>3. CASE NoteFirstUplink
  BY <1>3 DEF NoteFirstUplink, lifeVars
<1>4. CASE EnterReadyFromSettle
  BY <1>4 DEF EnterReadyFromSettle, lifeVars
<1>5. CASE StopLiveTalk
  BY <1>5 DEF StopLiveTalk
<1>6. CASE EmitFinal
  BY <1>6 DEF EmitFinal, mediaVars, lifeVars
<1>7. CASE ConsumeFinal
  <2>1. ~ShouldQueueFinal /\ ~stopped => welcomeCompleted
    BY RankConversing
  <2> QED
    BY <1>7, <2>1 DEF ConsumeFinal, mediaVars, lifeVars
<1>8. CASE QueueFinal
  BY <1>8 DEF QueueFinal, mediaVars, lifeVars
<1>9. CASE ConsumerTurnEnds
  BY <1>9 DEF ConsumerTurnEnds, mediaVars, lifeVars
<1>10. CASE ConsumerStops
  BY <1>10 DEF ConsumerStops, mediaVars, lifeVars
<1> QED
  BY <1>1, <1>2, <1>3, <1>4, <1>5, <1>6, <1>7, <1>8, <1>9, <1>10 DEF ConsumerStep

\* Steps of an answer call.
LEMMA AnswerStep ==
  ASSUME IInv, NEW a \in Answerers, AnswerEnter(a) \/ AnswerProgress(a)
  PROVE  PCInv' /\ GateInv'
<1> USE DEF IInv, PCInv, GateInv, Gated, TypeInv, TypeOK
<1>1. CASE AnswerEnter(a)
  BY <1>1 DEF AnswerEnter, mediaVars, lifeVars
<1>2. CASE AnswerView(a)
  BY <1>2 DEF AnswerView, Step, mediaVars, lifeVars
<1>3. CASE BeginWelcome(a)
  <2>1. UNCHANGED <<welcomeCompleted, lifeVars, talkWelcomed, con, delivered>>
    BY <1>3 DEF BeginWelcome
  <2>2. CASE welcomeCompleted
    <3>1. ans' = [ans EXCEPT ![a].pc = "check"] /\ phase' = phase
      BY <1>3, <2>2 DEF BeginWelcome, Step
    <3> QED
      BY <1>3, <2>1, <2>2, <3>1 DEF lifeVars, BeginWelcome
  <2>3. CASE ~welcomeCompleted /\ WelcomeRefused
    <3>1. ans' = [ans EXCEPT ![a].pc = "idle"] /\ phase' = phase
      BY <1>3, <2>3 DEF BeginWelcome, Step
    <3> QED
      BY <1>3, <2>1, <2>3, <3>1 DEF lifeVars, BeginWelcome
  <2>4. CASE ~welcomeCompleted /\ ~WelcomeRefused
    <3>1. ans' = [ans EXCEPT ![a].pc = "check"] /\ phase' = "welcoming"
      BY <1>3, <2>4 DEF BeginWelcome, Step
    <3>2. phase # "welcoming"
      BY <2>4 DEF WelcomeRefused
    <3> QED
      BY <1>3, <2>1, <2>4, <3>1, <3>2 DEF lifeVars, BeginWelcome
  <2> QED
    BY <2>2, <2>3, <2>4
<1>4. CASE AnswerTalk(a)
  BY <1>4 DEF AnswerTalk, Step, mediaVars, lifeVars
<1>5. CASE WelcomeSpoken(a)
  BY <1>5 DEF WelcomeSpoken, Step, mediaVars, lifeVars
<1>6. CASE WelcomeFails(a)
  BY <1>6 DEF WelcomeFails, Step, mediaVars, lifeVars
<1>11. CASE WelcomeToolFails(a)
  BY <1>11 DEF WelcomeToolFails, Step, mediaVars, lifeVars
<1>7. CASE RevertWelcome(a)
  BY <1>7 DEF RevertWelcome, PhaseReverted, Step, lifeVars
<1>8. CASE CompleteWelcome(a)
  BY <1>8 DEF CompleteWelcome, Step, lifeVars
<1>9. CASE TakeQueuedFinals(a)
  BY <1>9 DEF TakeQueuedFinals, mediaVars, lifeVars
<1>10. CASE AnswerTurnEnds(a)
  BY <1>10 DEF AnswerTurnEnds, mediaVars, lifeVars
<1> QED
  BY <1>1, <1>2, <1>3, <1>4, <1>5, <1>6, <1>7, <1>8, <1>9, <1>10, <1>11 DEF AnswerProgress

LEMMA InvStep == IInv /\ [Next]_vars => IInv'
<1> SUFFICES ASSUME IInv, [Next]_vars PROVE IInv'
  OBVIOUS
<1>1. TypeInv'
  BY TypeStep DEF IInv
<1>2. CASE Next
  <2>1. PCInv' /\ GateInv'
    BY <1>2, SessionStep, AnswerStep DEF Next
  <2> QED
    BY <1>1, <2>1 DEF IInv
<1>3. CASE UNCHANGED vars
  BY <1>1, <1>3 DEF IInv, PCInv, GateInv, Gated, vars, mediaVars, lifeVars
<1> QED
  BY <1>2, <1>3

LEMMA Invariant == Spec => []IInv
<1>1. Init => IInv
  BY TypeInit, InvInit DEF IInv
<1> QED
  BY <1>1, InvStep, PTL DEF Spec

\* MediaGate, WelcomeExclusive: two answer calls never speak the welcome over
\* each other on a session that has not been stopped.
THEOREM WelcomesExclude == Spec => []WelcomeExclusive
<1>1. IInv => WelcomeExclusive
  BY DEF IInv, GateInv, Gated, WelcomeExclusive, Welcoming
<1> QED
  BY Invariant, <1>1, PTL

\* MediaGate, NoTurnDuringWelcome: nothing the caller says has started a turn
\* while the welcome is spoken.
THEOREM WelcomeUndisturbed == Spec => []NoTurnDuringWelcome
<1>1. IInv => NoTurnDuringWelcome
  BY DEF IInv, GateInv, Gated, NoTurnDuringWelcome, Welcoming
<1> QED
  BY Invariant, <1>1, PTL

\* MediaGate, OnlyAnswerLeavesDraining: a drained session is reopened by
\* nobody but an answer call that entered while the session was live.
THEOREM DrainingReopened == Spec => OnlyAnswerLeavesDraining
<1> DEFINE Reopens == phase = "draining" /\ phase' # "draining"
           ByAnswer == \E a \in Answerers : ans[a].live /\ ans[a].pc \in {"begin", "complete"}
<1>1. IInv /\ [Next]_vars => [Reopens => ByAnswer]_vars
  <2> SUFFICES ASSUME IInv, Next, Reopens PROVE ByAnswer
    BY DEF vars, mediaVars
  <2>1. PICK a \in Answerers : AnswerEnter(a) \/ AnswerProgress(a)
    BY DEF Next, OnEdgeAttach, GoLive, NoteFirstUplink, EnterReadyFromSettle,
           StopLiveTalk, EmitFinal, ConsumerStep, ConsumeFinal, QueueFinal,
           ConsumerTurnEnds, ConsumerStops, mediaVars
  <2>2. BeginWelcome(a) \/ CompleteWelcome(a)
    BY <2>1 DEF AnswerEnter, AnswerProgress, AnswerView, AnswerTalk, WelcomeSpoken,
                WelcomeFails, WelcomeToolFails, RevertWelcome, PhaseReverted, TakeQueuedFinals,
                AnswerTurnEnds, mediaVars
  <2>3. ans[a].pc \in {"begin", "complete"}
    BY <2>2 DEF BeginWelcome, CompleteWelcome
  <2> QED
    BY <2>3 DEF IInv, PCInv
<1> QED
  BY Invariant, <1>1, PTL DEF Spec, OnlyAnswerLeavesDraining
-----------------------------------------------------------------------------
\* The gate of FinalsFloor.
FloorVars == <<welcomeCompleted, stopped, Talking>>
AnsTurn == \E a \in Answerers : ans[a].pc = "deliver"
ConTurn == con.pc = "turn"

LEMMA TalkersAre ==
  /\ Talking = {w \in {"consumer", "answer"} : IF w = "consumer" THEN ConTurn ELSE AnsTurn}
  /\ Talking' = {w \in {"consumer", "answer"} : IF w = "consumer" THEN ConTurn' ELSE AnsTurn'}
BY DEF Talking, ConTurn, AnsTurn

\* What happens to the floor, by what happens to the two goroutines.
LEMMA FloorMoves ==
  ASSUME UNCHANGED <<welcomeCompleted, stopped>>
  PROVE  /\ ConTurn' = ConTurn /\ AnsTurn' = AnsTurn => UNCHANGED FloorVars
         /\ AnsTurn' = AnsTurn /\ ~ConTurn /\ ConTurn' /\ (welcomeCompleted \/ stopped)
              => Floor!BeginTurn("consumer")
         /\ AnsTurn' = AnsTurn /\ ConTurn /\ ~ConTurn' => Floor!EndTurn("consumer")
         /\ ConTurn' = ConTurn /\ ~AnsTurn /\ AnsTurn' /\ welcomeCompleted
              => Floor!BeginTurn("answer")
         /\ ConTurn' = ConTurn /\ AnsTurn /\ ~AnsTurn' => Floor!EndTurn("answer")
<1> USE TalkersAre
<1>1. ConTurn' = ConTurn /\ AnsTurn' = AnsTurn => UNCHANGED FloorVars
  BY DEF FloorVars
<1>2. AnsTurn' = AnsTurn /\ ~ConTurn /\ ConTurn' /\ (welcomeCompleted \/ stopped)
        => Floor!BeginTurn("consumer")
  BY DEF Floor!BeginTurn
<1>3. AnsTurn' = AnsTurn /\ ConTurn /\ ~ConTurn' => Floor!EndTurn("consumer")
  BY DEF Floor!EndTurn, Floor!MayStop
<1>4. ConTurn' = ConTurn /\ ~AnsTurn /\ AnsTurn' /\ welcomeCompleted
        => Floor!BeginTurn("answer")
  BY DEF Floor!BeginTurn
<1>5. ConTurn' = ConTurn /\ AnsTurn /\ ~AnsTurn' => Floor!EndTurn("answer")
  BY DEF Floor!EndTurn, Floor!MayStop
<1> QED
  BY <1>1, <1>2, <1>3, <1>4, <1>5

\* An answer call that neither comes to nor leaves its turns changes nothing.
LEMMA NoTurnOfAnswer ==
  ASSUME TypeInv, NEW a \in Answerers, NEW r, ans' = [ans EXCEPT ![a] = r],
         ans[a].pc # "deliver", r.pc # "deliver"
  PROVE  AnsTurn' = AnsTurn
<1>1. \A b \in Answerers : ans'[b].pc = "deliver" <=> ans[b].pc = "deliver"
  BY DEF TypeInv, TypeOK
<1> QED
  BY <1>1 DEF AnsTurn

LEMMA FloorOfSession ==
  ASSUME IInv,
         OnEdgeAttach \/ GoLive \/ NoteFirstUplink \/ EnterReadyFromSettle
           \/ StopLiveTalk \/ EmitFinal \/ ConsumerStep
  PROVE  [Floor!FloorNext]_FloorVars
<1> USE DEF ConTurn
<1>0. AnsTurn' = AnsTurn
  BY DEF AnsTurn, OnEdgeAttach, GoLive, NoteFirstUplink, EnterReadyFromSettle, StopLiveTalk,
         EmitFinal, ConsumerStep, ConsumeFinal, QueueFinal, ConsumerTurnEnds, ConsumerStops
<1>1. CASE OnEdgeAttach \/ NoteFirstUplink \/ EnterReadyFromSettle \/ EmitFinal
  BY <1>0, <1>1, FloorMoves
     DEF OnEdgeAttach, NoteFirstUplink, EnterReadyFromSettle, EmitFinal, mediaVars, lifeVars
<1>2. CASE GoLive
  BY <1>0, <1>2, FloorMoves DEF GoLive, mediaVars, IInv, TypeInv, TypeOK
<1>3. CASE StopLiveTalk
  <2>1. UNCHANGED <<welcomeCompleted, Talking>> /\ stopped' = TRUE
    BY <1>0, <1>3, TalkersAre DEF StopLiveTalk
  <2>2. CASE stopped
    BY <2>1, <2>2 DEF FloorVars, IInv, TypeInv, TypeOK
  <2>3. CASE ~stopped
    BY <2>1, <2>3 DEF Floor!Stop, Floor!FloorNext
  <2> QED
    BY <2>2, <2>3
<1>4. CASE ConsumeFinal
  <2>1. UNCHANGED <<welcomeCompleted, stopped>> /\ ~ConTurn
    BY <1>4 DEF ConsumeFinal, mediaVars, lifeVars
  <2>2. CASE ShouldQueueFinal
    BY <1>0, <1>4, <2>1, <2>2, FloorMoves DEF ConsumeFinal, IInv, TypeInv, TypeOK
  <2>3. CASE ~ShouldQueueFinal
    <3>1. welcomeCompleted \/ stopped
      BY <2>3, RankConversing DEF IInv, GateInv, TypeInv, TypeOK
    <3>2. Floor!BeginTurn("consumer")
      BY <1>0, <1>4, <2>1, <2>3, <3>1, FloorMoves DEF ConsumeFinal, IInv, TypeInv, TypeOK
    <3> QED
      BY <3>2 DEF Floor!FloorNext, Floor!Takers
  <2> QED
    BY <2>2, <2>3
<1>5. CASE QueueFinal \/ ConsumerStops
  BY <1>0, <1>5, FloorMoves
     DEF QueueFinal, ConsumerStops, mediaVars, lifeVars, IInv, TypeInv, TypeOK
<1>6. CASE ConsumerTurnEnds
  <2>1. Floor!EndTurn("consumer")
    BY <1>0, <1>6, FloorMoves DEF ConsumerTurnEnds, mediaVars, lifeVars, IInv, TypeInv, TypeOK
  <2> QED
    BY <2>1 DEF Floor!FloorNext, Floor!Takers
<1> QED
  BY <1>1, <1>2, <1>3, <1>4, <1>5, <1>6 DEF ConsumerStep

LEMMA FloorOfAnswer ==
  ASSUME IInv, NEW a \in Answerers, AnswerEnter(a) \/ AnswerProgress(a)
  PROVE  [Floor!FloorNext]_FloorVars
<1>0. ConTurn' = ConTurn /\ UNCHANGED stopped
  BY DEF ConTurn, AnswerEnter, AnswerProgress, AnswerView, BeginWelcome, AnswerTalk, WelcomeSpoken,
         WelcomeFails, WelcomeToolFails, RevertWelcome, CompleteWelcome, TakeQueuedFinals,
         AnswerTurnEnds, lifeVars
<1>1. ASSUME UNCHANGED welcomeCompleted, ans[a].pc # "deliver",
             NEW r, ans' = [ans EXCEPT ![a] = r], r.pc # "deliver"
      PROVE  UNCHANGED FloorVars
  BY <1>0, <1>1, NoTurnOfAnswer, FloorMoves DEF IInv
<1>2. CASE AnswerEnter(a)
  <2> DEFINE r == [pc |-> IF live THEN "view" ELSE "check", live |-> live,
                   list |-> <<>>, tries |-> ans[a].tries + 1]
  <2>1. UNCHANGED welcomeCompleted /\ ans[a].pc = "idle" /\ ans' = [ans EXCEPT ![a] = r]
    BY <1>2 DEF AnswerEnter, mediaVars
  <2>2. r.pc # "deliver"
    OBVIOUS
  <2> HIDE DEF r
  <2> QED
    BY <1>1, <2>1, <2>2
<1>3. ASSUME UNCHANGED welcomeCompleted, ans[a].pc # "deliver", NEW pc, Step(a, pc), pc # "deliver"
      PROVE  UNCHANGED FloorVars
  <2>1. ans' = [ans EXCEPT ![a] = [ans[a] EXCEPT !.pc = pc]] /\ [ans[a] EXCEPT !.pc = pc].pc = pc
    BY <1>3 DEF Step, IInv, TypeInv, TypeOK
  <2> QED
    BY <1>1, <1>3, <2>1
<1>4. CASE \/ AnswerView(a) \/ AnswerTalk(a) \/ WelcomeSpoken(a) \/ WelcomeFails(a)
           \/ WelcomeToolFails(a) \/ RevertWelcome(a)
  BY <1>3, <1>4 DEF AnswerView, AnswerTalk, WelcomeSpoken, WelcomeFails, WelcomeToolFails,
                    RevertWelcome, mediaVars
<1>5. CASE BeginWelcome(a)
  BY <1>3, <1>5 DEF BeginWelcome
<1>6. CASE CompleteWelcome(a)
  <2>1. welcomeCompleted' = TRUE
    BY <1>6 DEF CompleteWelcome
  <2>2. AnsTurn' = AnsTurn
    <3>1. /\ ans' = [ans EXCEPT ![a] = [ans[a] EXCEPT !.pc = "take"]]
          /\ [ans[a] EXCEPT !.pc = "take"].pc = "take"
      BY <1>6 DEF CompleteWelcome, Step, IInv, TypeInv, TypeOK
    <3> QED
      BY <1>6, <3>1, NoTurnOfAnswer DEF CompleteWelcome, IInv
  <2>3. UNCHANGED <<stopped, Talking>>
    BY <1>0, <2>2, TalkersAre
  <2>4. CASE welcomeCompleted
    BY <2>1, <2>3, <2>4 DEF FloorVars, IInv, TypeInv, TypeOK
  <2>5. CASE ~welcomeCompleted
    BY <2>1, <2>3, <2>5 DEF Floor!FloorNext, Floor!WelcomeOver, Floor!MayStop
  <2> QED
    BY <2>4, <2>5
<1>7. CASE TakeQueuedFinals(a)
  <2>1. UNCHANGED welcomeCompleted /\ ans[a].pc = "take" /\ welcomeCompleted
    BY <1>7 DEF TakeQueuedFinals, mediaVars, IInv, PCInv
  <2> DEFINE r == [ans[a] EXCEPT !.pc = IF queued = <<>> THEN "idle" ELSE "deliver",
                                 !.list = queued]
  <2>2. ans' = [ans EXCEPT ![a] = r] /\ r.pc = IF queued = <<>> THEN "idle" ELSE "deliver"
    BY <1>7 DEF TakeQueuedFinals, IInv, TypeInv, TypeOK
  <2> HIDE DEF r
  <2>3. CASE queued = <<>>
    BY <1>1, <2>1, <2>2, <2>3
  <2>4. CASE queued # <<>>
    <3>1. AnsTurn'
      BY <2>2, <2>4 DEF AnsTurn, IInv, TypeInv, TypeOK
    <3>2. CASE AnsTurn
      BY <1>0, <2>1, <3>1, <3>2, FloorMoves DEF AnsTurn
    <3>3. CASE ~AnsTurn
      <4>1. Floor!BeginTurn("answer")
        BY <1>0, <2>1, <3>1, <3>3, FloorMoves
      <4> QED
        BY <4>1 DEF Floor!FloorNext, Floor!Takers
    <3> QED
      BY <3>2, <3>3
  <2> QED
    BY <2>3, <2>4
<1>8. CASE AnswerTurnEnds(a)
  <2>1. UNCHANGED welcomeCompleted /\ AnsTurn
    BY <1>8 DEF AnswerTurnEnds, mediaVars, AnsTurn
  <2>2. CASE AnsTurn'
    BY <1>0, <2>1, <2>2, FloorMoves DEF AnsTurn
  <2>3. CASE ~AnsTurn'
    <3>1. Floor!EndTurn("answer")
      BY <1>0, <2>1, <2>3, FloorMoves
    <3> QED
      BY <3>1 DEF Floor!FloorNext, Floor!Takers
  <2> QED
    BY <2>2, <2>3
<1> QED
  BY <1>2, <1>4, <1>5, <1>6, <1>7, <1>8 DEF AnswerProgress

\* MediaGate, ImplementsFinalsFloor: for the turn machine the gate is
\* FinalsFloor, with any number of answering clients and whenever it drains.
THEOREM GateKeepsTheFloor == Spec => ImplementsFinalsFloor
<1>1. Init => Floor!FloorInit
  BY DEF Init, Floor!FloorInit, Talking, Idle
<1>2. IInv /\ [Next]_vars => [Floor!FloorNext]_FloorVars
  <2>1. IInv /\ Next => [Floor!FloorNext]_FloorVars
    BY FloorOfSession, FloorOfAnswer DEF Next
  <2>2. UNCHANGED vars => UNCHANGED FloorVars
    BY DEF vars, mediaVars, lifeVars, FloorVars, Talking
  <2> QED
    BY <2>1, <2>2
<1> QED
  BY Invariant, <1>1, <1>2, PTL DEF Spec, ImplementsFinalsFloor, Floor!FloorSpec, FloorVars

-----------------------------------------------------------------------------
(* How often a final occurs in a sequence of finals.                       *)
At(s, n) == {i \in DOMAIN s : s[i] = n}
Count(s, n) == Cardinality(At(s, n))
One(e, n) == IF e = n THEN 1 ELSE 0

LEMMA CountType ==
  ASSUME NEW S, NEW s \in Seq(S), NEW n
  PROVE  IsFiniteSet(At(s, n)) /\ Count(s, n) \in Nat
<1>1. IsFiniteSet(1 .. Len(s))
  BY FS_Interval, LenProperties
<1>2. At(s, n) \in SUBSET (1 .. Len(s))
  BY LenProperties DEF At
<1> QED
  BY <1>1, <1>2, FS_Subset, FS_CardinalityType DEF Count

LEMMA CountEmpty == \A n : Count(<<>>, n) = 0
<1>1. \A n : At(<<>>, n) = {}
  BY DEF At
<1> QED
  BY <1>1, FS_EmptySet DEF Count

LEMMA CountAppend ==
  ASSUME NEW S, NEW s \in Seq(S), NEW e \in S, NEW n
  PROVE  Count(Append(s, e), n) = Count(s, n) + One(e, n)
<1> DEFINE t == Append(s, e)
           k == Len(s) + 1
<1>0. Len(s) \in Nat /\ DOMAIN s = 1 .. Len(s)
  BY LenProperties
<1>1. /\ DOMAIN t = 1 .. k /\ t[k] = e
      /\ \A i \in 1 .. Len(s) : t[i] = s[i]
  BY <1>0, AppendProperties
<1>2. IsFiniteSet(At(s, n)) /\ Count(s, n) \in Nat
  BY CountType
<1> HIDE DEF t
<1>3. CASE e = n
  <2>1. At(t, n) = At(s, n) \cup {k} /\ k \notin At(s, n)
    BY <1>0, <1>1, <1>3 DEF At
  <2> QED
    BY <1>2, <1>3, <2>1, FS_AddElement DEF Count, One, t
<1>4. CASE e # n
  <2>1. At(t, n) = At(s, n)
    BY <1>0, <1>1, <1>4 DEF At
  <2> QED
    BY <1>2, <1>4, <2>1 DEF Count, One, t
<1> QED
  BY <1>3, <1>4

LEMMA CountFirst ==
  ASSUME NEW S, NEW s \in Seq(S), s # <<>>, NEW n
  PROVE  /\ Count(s, n) = One(Head(s), n) + Count(Tail(s), n)
         /\ (\E i \in 2 .. Len(s) : s[i] = n) <=> Count(Tail(s), n) # 0
<1> DEFINE t == Tail(s)
           Later == At(s, n) \ {1}
<1>0. /\ Len(s) \in Nat \ {0} /\ DOMAIN s = 1 .. Len(s) /\ Head(s) = s[1]
      /\ t \in Seq(S) /\ Len(t) = Len(s) - 1 /\ DOMAIN t = 1 .. Len(t)
      /\ \A i \in 1 .. Len(t) : t[i] = s[i + 1]
  BY HeadTailProperties, LenProperties, EmptySeq
<1>1. IsFiniteSet(At(s, n)) /\ Count(s, n) \in Nat
  BY CountType
<1>2. IsFiniteSet(At(t, n)) /\ Count(t, n) \in Nat
  BY <1>0, CountType
<1> HIDE DEF t
<1>3. Cardinality(Later) = Count(t, n)
  <2> DEFINE f == [i \in At(t, n) |-> i + 1]
  <2>1. f \in [At(t, n) -> Later]
    BY <1>0 DEF At
  <2>2. \A i, j \in At(t, n) : f[i] = f[j] => i = j
    BY <1>0 DEF At
  <2>3. \A k \in Later : \E i \in At(t, n) : f[i] = k
    <3> SUFFICES ASSUME NEW k \in Later PROVE \E i \in At(t, n) : f[i] = k
      OBVIOUS
    <3>1. k \in 2 .. Len(s) /\ s[k] = n
      BY <1>0 DEF At
    <3>2. k - 1 \in At(t, n) /\ (k - 1) + 1 = k
      BY <1>0, <3>1 DEF At
    <3> QED
      BY <3>2
  <2>4. ExistsBijection(At(t, n), Later)
    BY <2>1, <2>2, <2>3 DEF ExistsBijection, Bijection, Injection, Surjection, IsInjective
  <2> QED
    BY <1>2, <2>4, FS_Bijection DEF Count
<1>4. Count(s, n) = One(Head(s), n) + Count(t, n)
  <2>1. Cardinality(Later) = IF 1 \in At(s, n) THEN Count(s, n) - 1 ELSE Count(s, n)
    BY <1>1, FS_RemoveElement DEF Count
  <2>2. 1 \in At(s, n) <=> Head(s) = n
    BY <1>0 DEF At
  <2> QED
    BY <1>1, <1>2, <1>3, <2>1, <2>2 DEF One
<1>5. (\E i \in 2 .. Len(s) : s[i] = n) <=> Count(t, n) # 0
  <2>1. IsFiniteSet(Later) /\ (Count(t, n) = 0 <=> Later = {})
    BY <1>1, <1>3, FS_RemoveElement, FS_EmptySet
  <2>2. (\E i \in 2 .. Len(s) : s[i] = n) <=> Later # {}
    BY <1>0 DEF At
  <2> QED
    BY <2>1, <2>2
<1> QED
  BY <1>4, <1>5 DEF t

(* Where a final may be: the consumer's hand, or the rest of the list of an *)
(* answer (the first of a list has its turn already).                      *)
InHand(n) == IF con.pc = "queue" /\ con.final = n THEN 1 ELSE 0
Holders(n) == {a \in Answerers : ans[a].pc = "deliver"
                 /\ \E i \in 2 .. Len(ans[a].list) : ans[a].list[i] = n}

LEMMA OccurrencesAre ==
  ASSUME NEW n
  PROVE  Occurrences(n) = Count(stream, n) + Count(queued, n) + Count(delivered, n)
                            + InHand(n) + Cardinality(Holders(n))
BY DEF Occurrences, Count, At, InHand, Holders

\* How often a final is to be found.
Due(n) == IF n <= emitted /\ n \notin dropped THEN 1 ELSE 0

\* KeptOnce for the finals still to come as well, and no list names a
\* final twice: an answer that delivers one has then no other to deliver.
PlacedOnce(n) ==
  /\ IsFiniteSet(Holders(n))
  /\ Count(stream, n) + Count(queued, n) + Count(delivered, n)
       + InHand(n) + Cardinality(Holders(n)) = Due(n)

ListsOnce == \A a \in Answerers : ans[a].pc = "deliver" =>
               \A n \in Finals : Count(Tail(ans[a].list), n) <= 1

ConsInv == ListsOnce /\ \A n \in Finals : PlacedOnce(n)

LEMMA Counted ==
  ASSUME TypeInv, NEW n, IsFiniteSet(Holders(n))
  PROVE  /\ Count(stream, n) \in Nat /\ Count(queued, n) \in Nat /\ Count(delivered, n) \in Nat
         /\ InHand(n) \in {0, 1} /\ Cardinality(Holders(n)) \in Nat
<1>1. stream \in Seq(Finals) /\ queued \in Seq(Finals) /\ delivered \in Seq(Finals)
  BY DEF TypeInv, TypeOK, Finals
<1>2. Count(stream, n) \in Nat /\ Count(queued, n) \in Nat /\ Count(delivered, n) \in Nat
  BY <1>1, CountType
<1>3. InHand(n) \in {0, 1}
  BY DEF InHand
<1> QED
  BY <1>2, <1>3, FS_CardinalityType

\* An answer call holds a final while the rest of its list names it.
LEMMA HoldersAre ==
  ASSUME TypeInv, NEW n
  PROVE  Holders(n) = {a \in Answerers : ans[a].pc = "deliver"
                                            /\ Count(Tail(ans[a].list), n) # 0}
<1>1. ASSUME NEW a \in Answerers, ans[a].pc = "deliver"
      PROVE  (\E i \in 2 .. Len(ans[a].list) : ans[a].list[i] = n)
               <=> Count(Tail(ans[a].list), n) # 0
  <2>1. ans[a].list \in Seq(Finals) /\ ans[a].list # <<>>
    BY <1>1 DEF TypeInv, TypeOK, Finals
  <2> QED
    BY <2>1, CountFirst
<1> QED
  BY <1>1 DEF Holders

LEMMA ConsInit == Init => ConsInv
<1> SUFFICES ASSUME Init PROVE ConsInv
  OBVIOUS
<1>1. \A n \in Finals : n > 0
  BY GateAssumption DEF Finals
<1>2. stream = <<>> /\ queued = <<>> /\ delivered = <<>> /\ emitted = 0 /\ con.pc = "none"
      /\ \A a \in Answerers : ans[a].pc = "idle"
  BY DEF Init, Idle
<1>3. ASSUME NEW n \in Finals PROVE PlacedOnce(n)
  <2>1. Holders(n) = {} /\ InHand(n) = 0
    BY <1>2 DEF Holders, InHand
  <2>2. Due(n) = 0
    BY <1>1, <1>2 DEF Finals, Due
  <2>3. IsFiniteSet(Holders(n)) /\ Cardinality(Holders(n)) = 0
    BY <2>1, FS_EmptySet
  <2> QED
    BY <1>2, <2>1, <2>2, <2>3, CountEmpty DEF PlacedOnce
<1> QED
  BY <1>2, <1>3 DEF ConsInv, ListsOnce

\* Steps that leave every final where it is.
FinalsStay ==
  /\ UNCHANGED <<stream, queued, delivered, emitted, dropped>>
  /\ con' = con \/ (con.pc # "queue" /\ con'.pc # "queue")
  /\ \A a \in Answerers :
       \/ ans'[a] = ans[a]
       \/ ans[a].pc # "deliver" /\ ans'[a].pc # "deliver"

LEMMA ConsStay ==
  ASSUME ConsInv, FinalsStay
  PROVE  ConsInv'
<1>1. ListsOnce'
  BY DEF ConsInv, ListsOnce, FinalsStay
<1>2. \A n : Holders(n)' = Holders(n) /\ InHand(n)' = InHand(n)
  BY DEF Holders, InHand, FinalsStay
<1>3. \A n \in Finals : PlacedOnce(n)'
  BY <1>2 DEF ConsInv, PlacedOnce, Due, FinalsStay, Count, At
<1> QED
  BY <1>1, <1>3 DEF ConsInv

LEMMA StaysPut ==
  ASSUME TypeInv, Next \/ UNCHANGED vars, ~EmitFinal, ~ConsumeFinal, ~QueueFinal,
         \A a \in Answerers : ~TakeQueuedFinals(a) /\ ~AnswerTurnEnds(a)
  PROVE  FinalsStay
<1> USE DEF FinalsStay
<1>0. ans \in [Answerers -> [pc : AnsPC, live : BOOLEAN, list : Seq(Finals), tries : 0 .. MaxTries]]
      /\ con \in [pc : ConPC, final : 0 .. MaxFinals]
  BY DEF TypeInv, TypeOK, Finals
<1>1. CASE OnEdgeAttach \/ NoteFirstUplink \/ EnterReadyFromSettle \/ StopLiveTalk
  BY <1>1 DEF OnEdgeAttach, NoteFirstUplink, EnterReadyFromSettle, StopLiveTalk, lossVars
<1>2. CASE GoLive \/ ConsumerTurnEnds \/ ConsumerStops
  BY <1>0, <1>2 DEF GoLive, ConsumerTurnEnds, ConsumerStops, lossVars
<1>3. ASSUME NEW a \in Answerers, AnswerEnter(a) \/ AnswerProgress(a) PROVE FinalsStay
  <2>1. UNCHANGED <<stream, queued, delivered, emitted, dropped, con>>
    BY <1>3 DEF AnswerEnter, AnswerProgress, AnswerView, BeginWelcome, AnswerTalk,
         WelcomeSpoken, WelcomeFails, WelcomeToolFails, RevertWelcome, CompleteWelcome, lossVars
  <2>2. ans[a].pc # "deliver"
    BY <1>3 DEF AnswerEnter, AnswerProgress, AnswerView, BeginWelcome, AnswerTalk,
         WelcomeSpoken, WelcomeFails, WelcomeToolFails, RevertWelcome, CompleteWelcome
  <2>3. CASE AnswerEnter(a)
    BY <1>0, <2>1, <2>2, <2>3 DEF AnswerEnter
  <2>4. CASE ~AnswerEnter(a)
    <3>1. \E pc \in AnsPC \ {"deliver"} : ans' = [ans EXCEPT ![a].pc = pc]
      BY <1>3, <2>4 DEF AnswerProgress, AnswerView, BeginWelcome, AnswerTalk,
         WelcomeSpoken, WelcomeFails, WelcomeToolFails, RevertWelcome, CompleteWelcome, Step, AnsPC
    <3> QED
      BY <1>0, <2>1, <2>2, <3>1
  <2> QED
    BY <2>3, <2>4
<1>4. CASE UNCHANGED vars
  BY <1>4 DEF vars, lossVars
<1> QED
  BY <1>1, <1>2, <1>3, <1>4 DEF Next, ConsumerStep

\* A new final joins the stream, and was nowhere before; dropped, it still is
\* nowhere.
LEMMA ConsEmit ==
  ASSUME TypeInv, ConsInv, EmitFinal
  PROVE  ConsInv'
<1> DEFINE e == emitted + 1
           room == IF Len(stream) < FinalsCap THEN 1 ELSE 0
<1>0. /\ stream \in Seq(Finals) /\ emitted \in Nat /\ e \in Finals /\ e \notin dropped
      /\ emitted' = e /\ UNCHANGED <<queued, delivered, con, ans>>
  BY GateAssumption DEF TypeInv, TypeOK, Finals, EmitFinal
<1>1. ListsOnce'
  BY <1>0 DEF ConsInv, ListsOnce
<1>2. ASSUME NEW n \in Finals PROVE PlacedOnce(n)'
  <2>1. PlacedOnce(n) /\ n \in Nat
    BY DEF ConsInv, Finals
  <2>2. Count(stream', n) = Count(stream, n) + (IF room = 1 THEN One(e, n) ELSE 0)
    <3>1. Count(Append(stream, e), n) = Count(stream, n) + One(e, n)
      BY <1>0, CountAppend
    <3>2. Count(stream, n) \in Nat
      BY <2>1, Counted DEF PlacedOnce
    <3>3. CASE Len(stream) < FinalsCap
      BY <3>1, <3>3 DEF EmitFinal
    <3>4. CASE ~(Len(stream) < FinalsCap)
      <4>1. stream' = stream
        BY <3>4 DEF EmitFinal
      <4> QED
        BY <3>2, <3>4, <4>1
    <3> QED
      BY <3>3, <3>4
  <2>3. /\ Holders(n)' = Holders(n) /\ InHand(n)' = InHand(n)
        /\ Count(queued', n) = Count(queued, n) /\ Count(delivered', n) = Count(delivered, n)
    BY <1>0 DEF Holders, InHand
  <2>4. Due(n)' = Due(n) + (IF room = 1 THEN One(e, n) ELSE 0)
    <3>1. dropped' = IF room = 1 THEN dropped ELSE dropped \cup {e}
      BY DEF EmitFinal
    <3>2. \A d \in dropped : d <= emitted
      BY <1>0 DEF TypeInv, TypeOK
    <3> HIDE DEF room
    <3> QED
      BY <1>0, <2>1, <3>1, <3>2 DEF One, Due
  <2>5. /\ Count(stream, n) \in Nat /\ Count(queued, n) \in Nat /\ Count(delivered, n) \in Nat
        /\ InHand(n) \in {0, 1} /\ Cardinality(Holders(n)) \in Nat /\ Due(n) \in {0, 1}
    BY <2>1, Counted DEF PlacedOnce, Due
  <2>6. One(e, n) \in {0, 1}
    BY DEF One
  <2> HIDE DEF Finals, e, room
  <2>7. Count(stream', n) + Count(queued', n) + Count(delivered', n)
         + InHand(n)' + Cardinality(Holders(n)') = Due(n)'
    BY <2>1, <2>2, <2>3, <2>4, <2>5, <2>6 DEF PlacedOnce
  <2> QED
    BY <2>1, <2>3, <2>7 DEF PlacedOnce, Count, At
<1> QED
  BY <1>1, <1>2 DEF ConsInv

\* The consumer takes the first final of the stream in hand, or runs its turn.
LEMMA ConsConsume ==
  ASSUME TypeInv, ConsInv, ConsumeFinal
  PROVE  ConsInv'
<1> DEFINE e == Head(stream)
<1>0. /\ stream \in Seq(Finals) /\ stream # <<>> /\ delivered \in Seq(Finals)
      /\ stream' = Tail(stream) /\ con.pc = "recv"
      /\ UNCHANGED <<queued, emitted, ans, dropped>>
  BY DEF TypeInv, TypeOK, Finals, ConsumeFinal, lossVars
<1>1. e \in Finals
  BY <1>0, TakeFirst
<1>2. \/ con'.pc = "queue" /\ con'.final = e /\ delivered' = delivered
      \/ con'.pc = "turn" /\ delivered' = Append(delivered, e)
  BY DEF ConsumeFinal
<1>3. ListsOnce'
  BY <1>0 DEF ConsInv, ListsOnce
<1>4. ASSUME NEW n \in Finals PROVE PlacedOnce(n)'
  <2>1. PlacedOnce(n)
    BY DEF ConsInv
  <2>2. Count(stream, n) = One(e, n) + Count(stream', n) /\ Count(stream', n) \in Nat
    <3>1. Tail(stream) \in Seq(Finals)
      BY <1>0, TakeFirst
    <3> QED
      BY <1>0, <3>1, CountFirst, CountType
  <2>3. /\ Holders(n)' = Holders(n) /\ Count(queued', n) = Count(queued, n) /\ InHand(n) = 0
    BY <1>0 DEF Holders, InHand
  <2> HIDE DEF e
  <2>4. Count(delivered', n) + InHand(n)' = Count(delivered, n) + One(e, n)
    <3>1. Count(delivered, n) \in Nat /\ Count(Append(delivered, e), n) = Count(delivered, n) + One(e, n)
      BY <1>0, <1>1, CountType, CountAppend
    <3> QED
      <4>1. CASE con'.pc = "queue" /\ con'.final = e /\ delivered' = delivered
        <5>1. InHand(n)' = One(e, n)
          BY <4>1 DEF InHand, One
        <5> QED
          BY <4>1, <5>1
      <4>2. CASE con'.pc = "turn" /\ delivered' = Append(delivered, e)
        <5>1. InHand(n)' = 0 /\ One(e, n) \in {0, 1}
          BY <4>2 DEF InHand, One
        <5> QED
          BY <3>1, <4>2, <5>1
      <4> QED
        BY <1>2, <4>1, <4>2
  <2>5. /\ Count(delivered', n) \in Nat /\ InHand(n)' \in {0, 1}
    <3>1. Count(delivered, n) \in Nat /\ Count(Append(delivered, e), n) \in Nat
      BY <1>0, <1>1, AppendOne, CountType
    <3> QED
      BY <1>2, <3>1 DEF InHand
  <2>6. /\ Count(queued, n) \in Nat /\ Count(delivered, n) \in Nat
        /\ Cardinality(Holders(n)) \in Nat /\ One(e, n) \in {0, 1}
    BY <2>1, Counted DEF PlacedOnce, One
  <2>7. Count(stream', n) + Count(queued', n) + Count(delivered', n)
         + InHand(n)' + Cardinality(Holders(n)') = Due(n)'
    <3> DEFINE due == Due(n)
    <3>1. Count(stream, n) + Count(queued, n) + Count(delivered, n)
           + InHand(n) + Cardinality(Holders(n)) = due /\ due \in {0, 1}
      BY <2>1 DEF PlacedOnce, Due
    <3> HIDE DEF due
    <3>2. Count(stream', n) + Count(queued', n) + Count(delivered', n)
           + InHand(n)' + Cardinality(Holders(n)') = due
      BY <2>2, <2>3, <2>4, <2>5, <2>6, <3>1
    <3> QED
      BY <1>0, <3>2 DEF due, Due
  <2> QED
    BY <2>1, <2>3, <2>7 DEF PlacedOnce, Count, At
<1> QED
  BY <1>3, <1>4 DEF ConsInv

\* The consumer queues the final in its hand.
LEMMA ConsQueue ==
  ASSUME TypeInv, ConsInv, QueueFinal
  PROVE  ConsInv'
<1> DEFINE e == con.final
<1>0. /\ queued \in Seq(Finals) /\ e \in Finals /\ queued' = Append(queued, e)
      /\ con.pc = "queue" /\ con'.pc = "recv"
      /\ UNCHANGED <<stream, delivered, emitted, ans, dropped>>
  BY DEF TypeInv, TypeOK, Finals, QueueFinal
<1>1. ListsOnce'
  BY <1>0 DEF ConsInv, ListsOnce
<1>2. ASSUME NEW n \in Finals PROVE PlacedOnce(n)'
  <2>1. PlacedOnce(n)
    BY DEF ConsInv
  <2>2. Count(queued', n) = Count(queued, n) + One(e, n)
    BY <1>0, CountAppend
  <2>3. /\ Holders(n)' = Holders(n) /\ InHand(n)' = 0 /\ InHand(n) = One(e, n)
        /\ Count(stream', n) = Count(stream, n) /\ Count(delivered', n) = Count(delivered, n)
    BY <1>0 DEF Holders, InHand, One
  <2>4. /\ Count(stream, n) \in Nat /\ Count(queued, n) \in Nat /\ Count(delivered, n) \in Nat
        /\ InHand(n) \in {0, 1} /\ Cardinality(Holders(n)) \in Nat
    BY <2>1, Counted DEF PlacedOnce
  <2> HIDE DEF e
  <2>5. Count(stream', n) + Count(queued', n) + Count(delivered', n)
         + InHand(n)' + Cardinality(Holders(n)') = Due(n)'
    <3> DEFINE due == Due(n)
    <3>1. Count(stream, n) + Count(queued, n) + Count(delivered, n)
           + InHand(n) + Cardinality(Holders(n)) = due /\ due \in {0, 1}
      BY <2>1 DEF PlacedOnce, Due
    <3> HIDE DEF due
    <3>2. Count(stream', n) + Count(queued', n) + Count(delivered', n)
           + InHand(n)' + Cardinality(Holders(n)') = due
      BY <2>2, <2>3, <2>4, <3>1
    <3> QED
      BY <1>0, <3>2 DEF due, Due
  <2> QED
    BY <2>1, <2>3, <2>5 DEF PlacedOnce, Count, At
<1> QED
  BY <1>1, <1>2 DEF ConsInv

\* One answer call's list changes to "list"; nobody else's does.
LEMMA HolderMoves ==
  ASSUME TypeInv, TypeInv', NEW a \in Answerers, NEW n, IsFiniteSet(Holders(n)),
         \A b \in Answerers : b # a => ans'[b] = ans[b],
         NEW was \in {0, 1}, was = 1 <=> a \in Holders(n),
         NEW is \in {0, 1}, is = 1 <=> a \in Holders(n)'
  PROVE  /\ IsFiniteSet(Holders(n))'
         /\ Cardinality(Holders(n)') = Cardinality(Holders(n)) - was + is
<1>1. Holders(n)' = IF is = 1 THEN Holders(n) \cup {a} ELSE Holders(n) \ {a}
  BY DEF Holders
<1>2. Cardinality(Holders(n)) \in Nat
  BY FS_CardinalityType
<1>3. /\ IsFiniteSet(Holders(n) \cup {a}) /\ IsFiniteSet(Holders(n) \ {a})
      /\ Cardinality(Holders(n) \cup {a})
           = IF a \in Holders(n) THEN Cardinality(Holders(n)) ELSE Cardinality(Holders(n)) + 1
      /\ Cardinality(Holders(n) \ {a})
           = IF a \in Holders(n) THEN Cardinality(Holders(n)) - 1 ELSE Cardinality(Holders(n))
  BY FS_AddElement, FS_RemoveElement
<1>4. CASE is = 1
  BY <1>1, <1>2, <1>3, <1>4
<1>5. CASE is = 0
  BY <1>1, <1>2, <1>3, <1>5
<1> QED
  BY <1>4, <1>5

\* Whether an answer call holds n: the rest of its list names it, once.
LEMMA Holding ==
  ASSUME TypeInv, NEW a \in Answerers, NEW n, ans[a].pc = "deliver",
         Count(Tail(ans[a].list), n) <= 1
  PROVE  /\ Count(Tail(ans[a].list), n) \in {0, 1}
         /\ Count(Tail(ans[a].list), n) = 1 <=> a \in Holders(n)
<1>1. Tail(ans[a].list) \in Seq(Finals)
  BY TakeFirst DEF TypeInv, TypeOK, Finals
<1>2. Count(Tail(ans[a].list), n) \in Nat
  BY <1>1, CountType
<1>3. a \in Holders(n) <=> Count(Tail(ans[a].list), n) # 0
  BY HoldersAre
<1> QED
  BY <1>2, <1>3

\* An answer takes the whole queue and begins the turn of its first final.
LEMMA ConsTake ==
  ASSUME TypeInv, TypeInv', ConsInv, NEW a \in Answerers, TakeQueuedFinals(a)
  PROVE  ConsInv'
<1>0. /\ queued \in Seq(Finals) /\ delivered \in Seq(Finals) /\ queued' = <<>>
      /\ ans[a].pc = "take" /\ ans'[a].list = queued
      /\ ans'[a].pc = IF queued = <<>> THEN "idle" ELSE "deliver"
      /\ delivered' = IF queued = <<>> THEN delivered ELSE Append(delivered, Head(queued))
      /\ \A b \in Answerers : b # a => ans'[b] = ans[b]
      /\ UNCHANGED <<stream, con, emitted, dropped>>
  BY DEF TypeInv, TypeOK, Finals, TakeQueuedFinals, QueueCleared, lossVars
<1>1. CASE queued = <<>>
  <2>1. FinalsStay
    BY <1>0, <1>1 DEF FinalsStay
  <2> QED
    BY <2>1, ConsStay
<1>2. CASE queued # <<>>
  <2> DEFINE e == Head(queued)
             c(n) == Count(Tail(queued), n)
  <2>1. e \in Finals /\ Tail(queued) \in Seq(Finals)
    BY <1>0, <1>2, TakeFirst
  <2>2. ASSUME NEW n \in Finals
        PROVE  c(n) \in {0, 1} /\ PlacedOnce(n)'
    <3>1. PlacedOnce(n)
      BY DEF ConsInv
    <3>2. /\ Count(stream, n) \in Nat /\ Count(queued, n) \in Nat /\ Count(delivered, n) \in Nat
          /\ InHand(n) \in {0, 1} /\ Cardinality(Holders(n)) \in Nat
      BY <3>1, Counted DEF PlacedOnce
    <3>3. Count(queued, n) = One(e, n) + c(n) /\ c(n) \in Nat /\ One(e, n) \in {0, 1}
      BY <1>0, <1>2, <2>1, CountFirst, CountType DEF One
    <3>4. Count(delivered', n) = Count(delivered, n) + One(e, n)
      BY <1>0, <1>2, <2>1, CountAppend
    <3>5. Count(queued', n) = 0 /\ Count(stream', n) = Count(stream, n) /\ InHand(n)' = InHand(n)
      BY <1>0, CountEmpty DEF InHand
    <3> DEFINE due == Due(n)
    <3>6. Count(stream, n) + Count(queued, n) + Count(delivered, n)
           + InHand(n) + Cardinality(Holders(n)) = due /\ due \in {0, 1}
      BY <3>1 DEF PlacedOnce, Due
    <3> HIDE DEF due, c
    <3>7. c(n) \in {0, 1}
      BY <3>2, <3>3, <3>6
    <3>8. /\ IsFiniteSet(Holders(n))'
          /\ Cardinality(Holders(n)') = Cardinality(Holders(n)) - 0 + c(n)
      <4>1. a \notin Holders(n)
        BY <1>0 DEF Holders
      <4>2. c(n) = 1 <=> a \in Holders(n)'
        <5>1. (\E i \in 2 .. Len(queued) : queued[i] = n) <=> c(n) # 0
          BY <1>0, <1>2, CountFirst DEF c
        <5> QED
          BY <1>0, <1>2, <3>7, <5>1 DEF Holders
      <4> QED
        BY <1>0, <3>1, <3>7, <4>1, <4>2, HolderMoves DEF PlacedOnce
    <3>9. Count(stream', n) + Count(queued', n) + Count(delivered', n)
           + InHand(n)' + Cardinality(Holders(n)') = due
      BY <3>2, <3>3, <3>4, <3>5, <3>6, <3>7, <3>8
    <3> QED
      BY <1>0, <3>7, <3>8, <3>9 DEF PlacedOnce, Due, due, Count, At
  <2>3. ListsOnce'
    <3> SUFFICES ASSUME NEW b \in Answerers, ans'[b].pc = "deliver", NEW n \in Finals
                 PROVE  Count(Tail(ans'[b].list), n) <= 1
      BY DEF ListsOnce, Count, At
    <3>1. CASE b = a
      <4>1. ans'[b].list = queued /\ c(n) <= 1
        BY <1>0, <2>2, <3>1
      <4> QED
        BY <4>1
    <3>2. CASE b # a
      <4>1. ans'[b] = ans[b]
        BY <1>0, <3>2
      <4> QED
        BY <4>1 DEF ConsInv, ListsOnce
    <3> QED
      BY <3>1, <3>2
  <2> QED
    BY <2>2, <2>3 DEF ConsInv
<1> QED
  BY <1>1, <1>2

\* The turn of an answer's first final is over: the next one's begins.
LEMMA ConsTurn ==
  ASSUME TypeInv, TypeInv', ConsInv, NEW a \in Answerers, AnswerTurnEnds(a)
  PROVE  ConsInv'
<1> DEFINE rest == Tail(ans[a].list)
<1>0. /\ rest \in Seq(Finals) /\ delivered \in Seq(Finals)
      /\ ans[a].pc = "deliver" /\ ans[a].list # <<>> /\ ans'[a].list = rest
      /\ ans'[a].pc = IF rest = <<>> THEN "idle" ELSE "deliver"
      /\ delivered' = IF rest = <<>> THEN delivered ELSE Append(delivered, Head(rest))
      /\ \A b \in Answerers : b # a => ans'[b] = ans[b]
      /\ UNCHANGED <<stream, queued, con, emitted, dropped>>
  BY TakeFirst DEF TypeInv, TypeOK, Finals, AnswerTurnEnds, lossVars
<1>1. ASSUME NEW n \in Finals
      PROVE  /\ Count(rest, n) \in {0, 1} /\ (Count(rest, n) = 1 <=> a \in Holders(n))
             /\ PlacedOnce(n) /\ IsFiniteSet(Holders(n))
  <2>1. Count(rest, n) <= 1
    BY <1>0 DEF ConsInv, ListsOnce
  <2> QED
    BY <1>0, <2>1, Holding DEF ConsInv, PlacedOnce
<1>2. CASE rest = <<>>
  <2>1. ListsOnce'
    BY <1>0, <1>2 DEF ConsInv, ListsOnce
  <2>2. ASSUME NEW n \in Finals PROVE PlacedOnce(n)'
    <3>1. a \notin Holders(n)
      <4>1. Count(rest, n) = 0
        BY <1>2, CountEmpty
      <4> HIDE DEF rest
      <4> QED
        BY <1>1, <4>1
    <3>2. a \notin Holders(n)'
      BY <1>0, <1>2 DEF Holders
    <3>3. Holders(n)' = Holders(n) /\ InHand(n)' = InHand(n)
      BY <1>0, <3>1, <3>2 DEF Holders, InHand
    <3> QED
      BY <1>0, <1>1, <1>2, <3>3 DEF PlacedOnce, Due, Count, At
  <2> QED
    BY <2>1, <2>2 DEF ConsInv
<1>3. CASE rest # <<>>
  <2> DEFINE e == Head(rest)
             c(n) == Count(Tail(rest), n)
  <2>1. e \in Finals /\ Tail(rest) \in Seq(Finals)
    BY <1>0, <1>3, TakeFirst
  <2>2. ASSUME NEW n \in Finals
        PROVE  c(n) \in {0, 1} /\ PlacedOnce(n)'
    <3>1. /\ Count(stream, n) \in Nat /\ Count(queued, n) \in Nat /\ Count(delivered, n) \in Nat
          /\ InHand(n) \in {0, 1} /\ Cardinality(Holders(n)) \in Nat
      BY <1>1, Counted
    <3>2. Count(rest, n) = One(e, n) + c(n) /\ c(n) \in Nat /\ One(e, n) \in {0, 1}
      BY <1>0, <1>3, <2>1, CountFirst, CountType DEF One
    <3>3. Count(delivered', n) = Count(delivered, n) + One(e, n)
      BY <1>0, <1>3, <2>1, CountAppend
    <3>4. /\ Count(stream', n) = Count(stream, n) /\ Count(queued', n) = Count(queued, n)
          /\ InHand(n)' = InHand(n)
      BY <1>0 DEF InHand
    <3> DEFINE due == Due(n)
    <3>5. Count(stream, n) + Count(queued, n) + Count(delivered, n)
           + InHand(n) + Cardinality(Holders(n)) = due /\ due \in {0, 1}
      BY <1>1 DEF PlacedOnce, Due
    <3>6. Count(rest, n) \in {0, 1} /\ (Count(rest, n) = 1 <=> a \in Holders(n))
      BY <1>1
    <3>7. (\E i \in 2 .. Len(rest) : rest[i] = n) <=> c(n) # 0
      BY <1>0, <1>3, CountFirst
    <3> HIDE DEF due, c, e
    <3>8. c(n) \in {0, 1}
      BY <3>2, <3>6
    <3> HIDE DEF rest
    <3>9. /\ IsFiniteSet(Holders(n))'
          /\ Cardinality(Holders(n)') = Cardinality(Holders(n)) - Count(rest, n) + c(n)
      <4>1. c(n) = 1 <=> a \in Holders(n)'
        BY <1>0, <1>3, <3>7, <3>8 DEF Holders
      <4> QED
        BY <1>0, <1>1, <3>6, <3>8, <4>1, HolderMoves
    <3>10. Count(stream', n) + Count(queued', n) + Count(delivered', n)
            + InHand(n)' + Cardinality(Holders(n)') = due
      BY <3>1, <3>2, <3>3, <3>4, <3>5, <3>6, <3>8, <3>9
    <3> QED
      BY <1>0, <3>8, <3>9, <3>10 DEF PlacedOnce, Due, due, Count, At
  <2>3. ListsOnce'
    <3> SUFFICES ASSUME NEW b \in Answerers, ans'[b].pc = "deliver", NEW n \in Finals
                 PROVE  Count(Tail(ans'[b].list), n) <= 1
      BY DEF ListsOnce, Count, At
    <3>1. CASE b = a
      <4>0. c(n) \in {0, 1}
        BY <2>2
      <4> HIDE DEF c, rest
      <4>1. ans'[b].list = rest /\ c(n) <= 1
        BY <1>0, <3>1, <4>0
      <4> QED
        BY <4>1 DEF c
    <3>2. CASE b # a
      <4>1. ans'[b] = ans[b]
        BY <1>0, <3>2
      <4> QED
        BY <4>1 DEF ConsInv, ListsOnce
    <3> QED
      BY <3>1, <3>2
  <2> QED
    BY <2>2, <2>3 DEF ConsInv
<1> QED
  BY <1>2, <1>3

LEMMA ConsStep == TypeInv /\ ConsInv /\ [Next]_vars => ConsInv'
<1> SUFFICES ASSUME TypeInv, ConsInv, [Next]_vars PROVE ConsInv'
  OBVIOUS
<1>1. TypeInv'
  BY TypeStep
<1>2. CASE EmitFinal \/ ConsumeFinal \/ QueueFinal
  BY <1>2, ConsEmit, ConsConsume, ConsQueue
<1>3. CASE \E a \in Answerers : TakeQueuedFinals(a) \/ AnswerTurnEnds(a)
  BY <1>1, <1>3, ConsTake, ConsTurn
<1>4. CASE ~EmitFinal /\ ~ConsumeFinal /\ ~QueueFinal
           /\ \A a \in Answerers : ~TakeQueuedFinals(a) /\ ~AnswerTurnEnds(a)
  BY <1>4, StaysPut, ConsStay
<1> QED
  BY <1>2, <1>3, <1>4

-----------------------------------------------------------------------------
\* What is late: once the welcome is over the consumer judges no more finals to
\* be queued, so the one in its hand then is the last.
LateInv ==
  /\ welcomeCompleted => phase \in {"conversing", "draining"}
  /\ late # {} => welcomeCompleted /\ con.pc # "queue"
  /\ \A m, n \in late : m = n
  /\ OnlyLateStranded

LEMMA LateStep == TypeInv /\ LateInv /\ [Next]_vars => LateInv'
<1> SUFFICES ASSUME TypeInv, LateInv, [Next]_vars PROVE LateInv'
  OBVIOUS
<1> USE DEF LateInv, OnlyLateStranded, lossVars
<1>0. /\ con \in [pc : ConPC, final : 0 .. MaxFinals]
      /\ DOMAIN ans = Answerers /\ \A a \in Answerers : ans[a] \in AnsRec
  BY DEF TypeInv, TypeOK, AnsRec, Finals
<1>1. CASE OnEdgeAttach \/ NoteFirstUplink \/ EnterReadyFromSettle \/ EmitFinal
  BY <1>1 DEF OnEdgeAttach, NoteFirstUplink, EnterReadyFromSettle, EmitFinal, mediaVars
<1>2. CASE GoLive \/ ConsumerTurnEnds \/ ConsumerStops
  BY <1>0, <1>2 DEF GoLive, ConsumerTurnEnds, ConsumerStops, mediaVars
<1>3. CASE StopLiveTalk
  BY <1>3 DEF StopLiveTalk
<1>4. CASE ConsumeFinal
  <2>1. ShouldQueueFinal => late = {}
    BY RankConversing DEF TypeInv, TypeOK
  <2>2. ~ShouldQueueFinal => con'.pc # "queue"
    BY <1>0, <1>4 DEF ConsumeFinal
  <2> QED
    BY <1>0, <1>4, <2>1, <2>2 DEF ConsumeFinal, mediaVars
<1>5. CASE QueueFinal
  <2>1. late = {} /\ con'.pc = "recv" /\ late' = IF welcomeCompleted THEN {con.final} ELSE {}
    BY <1>5 DEF QueueFinal
  <2>2. ASSUME NEW i \in DOMAIN queued'
        PROVE  queued'[i] = con.final \/ (i \in DOMAIN queued /\ queued'[i] = queued[i])
    <3>1. queued \in Seq(Finals) /\ con.final \in Finals /\ queued' = Append(queued, con.final)
      BY <1>5 DEF TypeInv, TypeOK, Finals, QueueFinal
    <3> QED
      BY <2>2, <3>1, AppendProperties, LenProperties
  <2> QED
    BY <1>5, <2>1, <2>2 DEF QueueFinal, mediaVars
<1>6. ASSUME NEW a \in Answerers, AnswerEnter(a) \/ AnswerProgress(a)
      PROVE  LateInv'
  <2>1. UNCHANGED <<con, late>>
    BY <1>6 DEF AnswerEnter, AnswerProgress, AnswerView, BeginWelcome, AnswerTalk,
         WelcomeSpoken, WelcomeFails, WelcomeToolFails, RevertWelcome, CompleteWelcome,
         TakeQueuedFinals, AnswerTurnEnds
  <2>2. \A b \in Answerers : b # a => ans'[b] = ans[b]
    BY <1>0, <1>6 DEF AnswerEnter, AnswerProgress, AnswerView, BeginWelcome, AnswerTalk,
         WelcomeSpoken, WelcomeFails, WelcomeToolFails, RevertWelcome, CompleteWelcome,
         TakeQueuedFinals, AnswerTurnEnds, Step
  <2>3. CASE CompleteWelcome(a)
    <3>1. ans'[a].pc = "take"
      BY <1>0, <2>3 DEF CompleteWelcome, Step, AnsRec
    <3> QED
      BY <2>1, <2>3, <3>1 DEF CompleteWelcome
  <2>4. CASE TakeQueuedFinals(a)
    <3>1. queued' = <<>> /\ UNCHANGED <<phase, welcomeCompleted>>
      BY <2>4 DEF TakeQueuedFinals, QueueCleared, mediaVars
    <3> QED
      BY <2>1, <3>1
  <2>5. CASE ~CompleteWelcome(a) /\ ~TakeQueuedFinals(a)
    <3>1. UNCHANGED <<queued, welcomeCompleted>> /\ ans[a].pc # "take"
      BY <1>6, <2>5 DEF AnswerEnter, AnswerProgress, AnswerView, BeginWelcome, AnswerTalk,
         WelcomeSpoken, WelcomeFails, WelcomeToolFails, RevertWelcome, AnswerTurnEnds, mediaVars
    <3>2. welcomeCompleted => phase' = phase
      BY <1>6, <2>5 DEF AnswerEnter, AnswerProgress, AnswerView, BeginWelcome, AnswerTalk,
         WelcomeSpoken, WelcomeFails, WelcomeToolFails, RevertWelcome, PhaseReverted,
         AnswerTurnEnds, mediaVars
    <3> QED
      BY <2>1, <2>2, <3>1, <3>2
  <2> QED
    BY <2>3, <2>4, <2>5
<1>7. CASE UNCHANGED vars
  BY <1>7 DEF vars, mediaVars
<1> QED
  BY <1>1, <1>2, <1>3, <1>4, <1>5, <1>6, <1>7 DEF Next, ConsumerStep

\* MediaGate, FinalsConserved: however the consumer, the answers and the end of
\* the session interleave, each final the channel had room for is in one place
\* (the stream, the consumer's hand, the queue, the list of one answer, or among
\* those whose turn has begun), once; of the call's finals one at most, judged
\* before the welcome completed and queued after, is left in the queue.
THEOREM FinalsAreConserved == Spec => []FinalsConserved
<1>1. Init => TypeInv /\ ConsInv /\ LateInv
  <2>1. Init => LateInv
    BY DEF Init, LateInv, OnlyLateStranded
  <2> QED
    BY <2>1, TypeInit, ConsInit
<1>2. TypeInv /\ ConsInv /\ LateInv => FinalsConserved
  <2> SUFFICES ASSUME TypeInv, ConsInv, LateInv, NEW n \in 1 .. emitted
               PROVE  Occurrences(n) = IF n \in dropped THEN 0 ELSE 1
    BY DEF FinalsConserved, KeptOnce, LateInv
  <2>1. n \in Finals /\ n <= emitted
    BY GateAssumption DEF TypeInv, TypeOK, Finals
  <2>2. PlacedOnce(n)
    BY <2>1 DEF ConsInv
  <2> QED
    BY <2>1, <2>2, OccurrencesAre DEF PlacedOnce, Due
<1> QED
  BY <1>1, <1>2, TypeStep, ConsStep, LateStep, PTL DEF Spec
=============================================================================
