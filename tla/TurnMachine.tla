----------------------------- MODULE TurnMachine -----------------------------
(***************************************************************************)
(* The turn machine of one live session that walks a graph:                *)
(* runtime/composer/composer.go, with what control/callops.go and          *)
(* control/runtime_adapter.go do when it arms a Tool, ends or fails.       *)
(*                                                                         *)
(* A driver is a goroutine that runs turns: POST /answer (the welcome,     *)
(* then the finals queued meanwhile), the finals consumer, and POST        *)
(* /inject-text.  Nothing keeps two of them from running turns at once.    *)
(* Around them the energy VAD and the partials goroutine barge in, and a   *)
(* pipeline failure starts the one FailCall of the session.  The Talk's    *)
(* mutex covers single sections: each action is one of them.               *)
(*                                                                         *)
(* The cursor is represented by where it stands (FlowCursor has the walk;  *)
(* it arms at most once, so toolDone never refuses and is left out), the   *)
(* gate by conversing (MediaGate has the phases), the leg by whether it is *)
(* up and by the one verb it takes (EdgeConn has the queue and the marks). *)
(***************************************************************************)
EXTENDS Integers, FiniteSets

CONSTANTS Answer,     \* the driver of POST /answer
          Consumer,   \* the driver of the finals channel
          Injectors,  \* drivers of POST /inject-text
          Bargers,    \* goroutines that barge in and run no turns
          Vad,        \* the one of them that runs OnPCM
          Fail,       \* the goroutine of FailCall
          MaxTurns    \* bound: turns and welcomes begun

Drivers == {Answer, Consumer} \cup Injectors
Agents == Drivers \cup Bargers \cup {Fail}

ASSUME TurnAssumption ==
  /\ MaxTurns \in Nat
  /\ Answer # Consumer /\ Injectors \cap {Answer, Consumer} = {}
  /\ Drivers \cap (Bargers \cup {Fail}) = {} /\ Fail \notin Bargers
  /\ Vad \in Bargers

VARIABLES state,      \* Talk.state
          drv,        \* the drivers
          barge,      \* what each agent is about to do to the state
          fail,       \* FailCall: "none" until the first pipeline failure
          at,         \* where the cursor stands; "start": short of a node that waits
          welcomed,   \* Talk.welcomeCompleted
          conversing, \* the gate lets finals through
          leg,        \* "up" or "gone"
          verb,       \* the verb the leg has taken
          disp,       \* final disposition in the store
          stopped,    \* StopSession has run
          turns       \* turns and welcomes begun

callVars == <<leg, verb, disp, stopped>>
gateVars == <<welcomed, conversing, turns>>
vars == <<state, drv, barge, fail, at, gateVars, callVars>>

Tools == {"transfer", "hangup"}
Results == {"none", "reply", "end"} \cup Tools
DriverPC == {"idle", "look", "start", "think", "open", "loop", "settle", "tool", "verb", "record", "end"}
FailPC == {"none", "guard", "play", "verb", "record", "end", "done"}

\* ctx: the turn's context; "expired" is the answer's deadline, "canceled" an
\* injecting client that went away.  err: how the tool's verb failed.
Rest == [pc |-> "idle", job |-> "none", out |-> "none", ctx |-> "live", err |-> "none"]

Init ==
  /\ state = "Listening"
  /\ drv = [d \in Drivers |-> Rest]
  /\ barge = [g \in Agents |-> "none"]
  /\ fail = "none" /\ at = "start"
  /\ welcomed = FALSE /\ conversing = FALSE /\ turns = 0
  /\ leg = "up" /\ verb = "none" /\ disp = "none" /\ stopped = FALSE

Armed == at \in Tools
\* An agent inside bargeIn does nothing else.
Free(g) == barge[g] = "none"
At(d, pc) == drv[d].pc = pc /\ Free(d)
Goto(d, pc) == drv' = [drv EXCEPT ![d].pc = pc]
Over(d) == drv' = [drv EXCEPT ![d] = Rest]

\* failPipeline: the first failure starts FailCall, later ones do nothing.
FailPipeline == fail' = IF fail = "none" THEN "guard" ELSE fail

-----------------------------------------------------------------------------
\* bargeIn takes the floor in one section.  Then it flushes the sinks and
\* cancels streams, which end as they may at any time.
BargeCommit(g) ==
  /\ barge[g] = "commit"
  /\ barge' = [barge EXCEPT ![g] = "none"]
  /\ \/ state \in {"Speaking", "Thinking"} /\ state' = "Capturing"
     \/ state \notin {"Speaking", "Thinking"} /\ UNCHANGED state
  /\ UNCHANGED <<drv, fail, at, gateVars, callVars>>

Interrupt(g) == barge' = [barge EXCEPT ![g] = "commit"]

\* The welcome is not barged into.
Welcoming == drv[Answer].job = "welcome"

\* OnPCM with sustained speech while Speaking; barge is off once a Tool is
\* armed.  The partials goroutine looks at the state and the welcome only.
BargeIn(g) ==
  /\ Free(g) /\ ~Welcoming
  /\ IF g = Vad THEN state = "Speaking" /\ ~Armed
                ELSE state \in {"Speaking", "Thinking"}
  /\ Interrupt(g)
  /\ UNCHANGED <<state, drv, fail, at, gateVars, callVars>>

\* OnPCM hears speech while Listening: it writes Capturing in a later section.
HearSpeech ==
  /\ Free(Vad) /\ state = "Listening"
  /\ barge' = [barge EXCEPT ![Vad] = "capture"]
  /\ UNCHANGED <<state, drv, fail, at, gateVars, callVars>>

StartCapture ==
  /\ barge[Vad] = "capture"
  /\ state' = "Capturing"
  /\ barge' = [barge EXCEPT ![Vad] = "none"]
  /\ UNCHANGED <<drv, fail, at, gateVars, callVars>>

-----------------------------------------------------------------------------
\* shouldQueueFinal says no once the welcome is over, and again when the gate
\* drains: the consumer may have picked a final before it saw its context end.
LetsThrough(d) == conversing \/ (stopped /\ d = Consumer)

\* A seeded slip: the finals do not wait for the welcome.
DeliverUngated(d) ==
  /\ d \in {Answer, Consumer} /\ At(d, "idle") /\ turns < MaxTurns
  /\ drv' = [drv EXCEPT ![d] = [Rest EXCEPT !.pc = "look", !.job = "final"]]
  /\ turns' = turns + 1
  /\ UNCHANGED <<state, barge, fail, at, welcomed, conversing, callVars>>

\* deliverListenFinal, for a final of the channel or of the welcome's queue.
DeliverFinal(d) ==
  /\ d \in {Answer, Consumer} /\ LetsThrough(d) /\ At(d, "idle") /\ turns < MaxTurns
  /\ drv' = [drv EXCEPT ![d] = [Rest EXCEPT !.pc = "look", !.job = "final"]]
  /\ turns' = turns + 1
  /\ UNCHANGED <<state, barge, fail, at, welcomed, conversing, callVars>>

\* A final that arrives over Thinking or Speaking barges in, whatever is
\* armed, unless it is an echo or too short.
LookAndBarge(d) ==
  /\ At(d, "look") /\ state \in {"Thinking", "Speaking"}
  /\ Interrupt(d)
  /\ Goto(d, "start")
  /\ UNCHANGED <<state, fail, at, gateVars, callVars>>

LookAndSuppress(d) ==
  /\ At(d, "look")
  /\ Over(d)
  /\ UNCHANGED <<state, barge, fail, at, gateVars, callVars>>

LookAndGo(d) ==
  /\ At(d, "look") /\ state \notin {"Thinking", "Speaking"}
  /\ Goto(d, "start")
  /\ UNCHANGED <<state, barge, fail, at, gateVars, callVars>>

\* InjectText: no gate, and no look at the state.
InjectFinal(d) ==
  /\ d \in Injectors /\ ~stopped /\ At(d, "idle") /\ turns < MaxTurns
  /\ drv' = [drv EXCEPT ![d] = [Rest EXCEPT !.pc = "start", !.job = "inject"]]
  /\ turns' = turns + 1
  /\ UNCHANGED <<state, barge, fail, at, welcomed, conversing, callVars>>

\* OnListenFinal / InjectFinal: Capturing, and at once Thinking.
StartTurn(d) ==
  /\ At(d, "start")
  /\ state' = "Thinking"
  /\ Goto(d, "think")
  /\ UNCHANGED <<barge, fail, at, gateVars, callVars>>

\* runGraphTurn: the cursor handles the utterance where it listens.
Result(d, out, pc) == drv' = [drv EXCEPT ![d].out = out, ![d].pc = pc]

ThinkReply(d) ==
  /\ At(d, "think") /\ at = "listen"
  /\ \E to \in {"listen", "end"} \cup Tools :
       /\ at' = to
       /\ \/ /\ Result(d, IF to = "listen" THEN "reply" ELSE to, "open")
             /\ UNCHANGED state
          \/ /\ Result(d, IF to = "listen" THEN "reply" ELSE to, "settle")  \* nothing to say
             /\ state' = "Listening"
  /\ UNCHANGED <<barge, fail, gateVars, callVars>>

ThinkNoMatch(d) ==
  /\ At(d, "think") /\ at = "listen"
  /\ state' = "Listening"
  /\ Over(d)
  /\ UNCHANGED <<barge, fail, at, gateVars, callVars>>

\* The cursor fails, as it always does where it does not listen; a walk that
\* fails half-way leaves it there.
ThinkError(d) ==
  /\ At(d, "think")
  /\ state' = "Listening"
  /\ at' \in IF at = "listen" THEN {"listen", "start"} ELSE {at}
  /\ FailPipeline
  /\ Over(d)
  /\ UNCHANGED <<barge, gateVars, callVars>>

-----------------------------------------------------------------------------
\* AnswerCall on a graph: Bootstrap, from where the cursor stands.
AnswerCall ==
  /\ At(Answer, "idle") /\ ~welcomed /\ ~stopped /\ turns < MaxTurns
  /\ turns' = turns + 1
  /\ \E to \in IF at = "start" THEN {"listen", "end"} \cup Tools ELSE {at} \ Tools :
       /\ at' = to
       /\ \E pc \in {"open", "settle"} :
            /\ pc = "open" => at = "start"   \* a repeated walk has no lines
            /\ drv' = [drv EXCEPT ![Answer] =
                 [Rest EXCEPT !.pc = pc, !.job = "welcome",
                              !.out = IF to = "listen" THEN "reply" ELSE to]]
  /\ UNCHANGED <<state, barge, fail, welcomed, conversing, callVars>>

AnswerError ==
  /\ At(Answer, "idle") /\ ~welcomed /\ ~stopped /\ turns < MaxTurns
  /\ turns' = turns + 1
  /\ FailPipeline
  /\ UNCHANGED <<state, drv, barge, at, welcomed, conversing, callVars>>

-----------------------------------------------------------------------------
\* speak: the engine refuses, or opens a stream and the Talk is Speaking.
\* A seeded slip: the error is returned and nobody is told.
SpeakErrorQuiet(d) ==
  /\ At(d, "open")
  /\ state' = "Listening"
  /\ Over(d)
  /\ UNCHANGED <<barge, fail, at, gateVars, callVars>>

SpeakError(d) ==
  /\ At(d, "open")
  /\ state' = "Listening"
  /\ \/ FailPipeline
     \/ drv[d].ctx = "canceled" /\ UNCHANGED fail
  /\ Over(d)
  /\ UNCHANGED <<barge, at, gateVars, callVars>>

StartSpeaking(d) ==
  /\ At(d, "open")
  /\ state' = "Speaking"
  /\ Goto(d, "loop")
  /\ UNCHANGED <<barge, fail, at, gateVars, callVars>>

\* A seeded slip: the Talk stays Speaking.
StateAfterNone == state
StateAfter == IF state = "Speaking" THEN "Listening" ELSE state

\* finishSpeakToListening, when the stream has ended and played out, or has
\* been cancelled by a barge-in, a context or the end of another driver's
\* speech.  A frame that finds the Talk no longer Speaking just ends speak.
FinishSpeak(d) ==
  /\ At(d, "loop")
  /\ state' = StateAfter
  /\ Goto(d, "settle")
  /\ UNCHANGED <<barge, fail, at, gateVars, callVars>>

-----------------------------------------------------------------------------
\* What follows the speech: nothing, the Tool, or the end of the graph.
Settle(d) ==
  /\ At(d, "settle")
  /\ welcomed' = (welcomed \/ drv[d].job = "welcome")
  /\ \/ /\ drv[d].out = "reply"
        /\ conversing' = (conversing \/ drv[d].job = "welcome")
        /\ Over(d)
     \/ /\ drv[d].out \in Tools
        /\ Goto(d, "tool")
        /\ UNCHANGED conversing
     \/ /\ drv[d].out = "end"
        /\ Goto(d, "record")
        /\ UNCHANGED conversing
  /\ UNCHANGED <<state, barge, fail, at, turns, callVars>>

\* execGraphTool looks for the leg, then waits for playout.  A hangup without
\* a leg settles at once, a transfer without one fails the call.
BeginTool(d) ==
  /\ At(d, "tool")
  /\ \/ ~stopped /\ Goto(d, "verb") /\ UNCHANGED fail
     \/ stopped /\ drv[d].out = "hangup" /\ Goto(d, "record") /\ UNCHANGED fail
     \/ stopped /\ drv[d].out = "transfer" /\ Over(d) /\ FailPipeline
  /\ UNCHANGED <<state, barge, at, gateVars, callVars>>

\* Conn.Transfer / Conn.Hangup: a dead context and a closed leg are refused
\* before the once is taken; the write itself may fail.
VerbSent(d) ==
  /\ At(d, "verb") /\ drv[d].ctx = "live" /\ leg = "up" /\ verb = "none"
  /\ verb' = drv[d].out
  /\ Goto(d, "record")
  /\ UNCHANGED <<state, barge, fail, at, gateVars, leg, disp, stopped>>

VerbRefused(d) ==
  /\ At(d, "verb")
  /\ LET canceled == drv[d].ctx = "canceled" \/ (drv[d].ctx = "live" /\ leg = "gone")
     IN drv' = [drv EXCEPT ![d].pc = "record", ![d].err = IF canceled THEN "canceled" ELSE "error"]
  /\ \/ drv[d].ctx # "live" /\ UNCHANGED verb
     \/ leg = "gone" /\ UNCHANGED verb
     \/ verb # "none" /\ UNCHANGED verb
     \/ drv[d].ctx = "live" /\ leg = "up" /\ verb = "none" /\ verb' = "spent"
  /\ UNCHANGED <<state, barge, fail, at, gateVars, leg, disp, stopped>>

\* A seeded slip: what the verb said is ignored.
Planned(d) == IF drv[d].out = "transfer" THEN "transferred" ELSE "completed"
Outcome(d) == IF drv[d].err # "none" THEN "failure"
              ELSE IF drv[d].out = "transfer" THEN "transferred" ELSE "completed"

\* recordLiveDisposition (OnGraphEnd for an End): then the session ends, or
\* the error goes back up; a Canceled one fails nothing.
Record(d) ==
  /\ At(d, "record")
  /\ disp' = Outcome(d)
  /\ \/ drv[d].err = "none" /\ Goto(d, "end") /\ UNCHANGED fail
     \/ drv[d].err = "error" /\ Over(d) /\ FailPipeline
     \/ drv[d].err = "canceled" /\ Over(d) /\ UNCHANGED fail
  /\ UNCHANGED <<state, barge, at, gateVars, leg, verb, stopped>>

\* OnSessionEnd: EndSessionAfterTalk stops the session.
EndSession(d) ==
  /\ At(d, "end")
  /\ stopped' = TRUE
  /\ conversing' = (conversing \/ drv[d].job = "welcome")
  /\ Over(d)
  /\ UNCHANGED <<state, barge, fail, at, welcomed, turns, leg, verb, disp>>

\* The answer's thirty seconds are over; an injecting client disconnects.
ContextEnds(d) ==
  /\ drv[d].pc # "idle" /\ drv[d].job \in {"welcome", "inject"} /\ drv[d].ctx = "live"
  /\ drv' = [drv EXCEPT ![d].ctx = IF drv[d].job = "inject" THEN "canceled" ELSE "expired"]
  /\ UNCHANGED <<state, barge, fail, at, gateVars, callVars>>

-----------------------------------------------------------------------------
\* FailCall: interrupt, play the operator's prompt, hang up, record, end.
FailEnter ==
  /\ fail = "guard"
  /\ IF stopped THEN fail' = "done" /\ UNCHANGED barge
                ELSE fail' = "play" /\ Interrupt(Fail)
  /\ UNCHANGED <<state, drv, at, gateVars, callVars>>

PlayFallback ==
  /\ fail = "play" /\ Free(Fail)
  /\ fail' = IF stopped THEN "record" ELSE "verb"
  /\ UNCHANGED <<state, drv, barge, at, gateVars, callVars>>

FallbackHangup ==
  /\ fail = "verb"
  /\ fail' = "record"
  /\ \/ leg = "up" /\ verb = "none" /\ verb' \in {"hangup", "spent"}
     \/ (leg = "gone" \/ verb # "none") /\ UNCHANGED verb
  /\ UNCHANGED <<state, drv, barge, at, gateVars, leg, disp, stopped>>

FailRecord ==
  /\ fail = "record"
  /\ fail' = "end"
  /\ disp' = "failure"
  /\ UNCHANGED <<state, drv, barge, at, gateVars, leg, verb, stopped>>

FailEnd ==
  /\ fail = "end"
  /\ fail' = "done"
  /\ stopped' = TRUE
  /\ UNCHANGED <<state, drv, barge, at, gateVars, leg, verb, disp>>

\* The leg closes; its onGone stops the session, as POST /stop may at any time.
LegGone ==
  /\ leg = "up"
  /\ leg' = "gone"
  /\ UNCHANGED <<state, drv, barge, fail, at, gateVars, verb, disp, stopped>>

GoneStops ==
  /\ leg = "gone" /\ ~stopped
  /\ stopped' = TRUE
  /\ UNCHANGED <<state, drv, barge, fail, at, gateVars, leg, verb, disp>>

StopSession ==
  /\ ~stopped
  /\ stopped' = TRUE
  /\ UNCHANGED <<state, drv, barge, fail, at, gateVars, leg, verb, disp>>

-----------------------------------------------------------------------------
Turn(d) == \/ LookAndBarge(d) \/ LookAndSuppress(d) \/ LookAndGo(d) \/ StartTurn(d)
           \/ ThinkReply(d) \/ ThinkNoMatch(d) \/ ThinkError(d)
Speech(d) == SpeakError(d) \/ StartSpeaking(d) \/ FinishSpeak(d)
After(d) == \/ Settle(d) \/ BeginTool(d) \/ VerbSent(d) \/ VerbRefused(d)
            \/ Record(d) \/ EndSession(d)
DriverStep(d) == Turn(d) \/ Speech(d) \/ After(d)
FailStep == FailEnter \/ PlayFallback \/ FallbackHangup \/ FailRecord \/ FailEnd

Next ==
  \/ \E g \in Agents : BargeCommit(g)
  \/ \E g \in Bargers : BargeIn(g)
  \/ HearSpeech \/ StartCapture
  \/ AnswerCall \/ AnswerError
  \/ \E d \in Drivers : DeliverFinal(d) \/ InjectFinal(d) \/ DriverStep(d) \/ ContextEnds(d)
  \/ FailStep \/ LegGone \/ GoneStops \/ StopSession

Spec == Init /\ [][Next]_vars

\* A goroutine that runs goes on: engines end their streams, the sinks play
\* out and the waits of the verbs have deadlines.  Nobody must speak, call an
\* endpoint or hang up, but a leg that has gone is noticed.
Fairness ==
  /\ \A g \in Agents : WF_vars(BargeCommit(g))
  /\ \A d \in Drivers : WF_vars(DriverStep(d))
  /\ WF_vars(FailStep)
  /\ WF_vars(GoneStops)

FairSpec == Spec /\ Fairness

-----------------------------------------------------------------------------
Thinking == {"think", "open"}

\* Every variable ranges over the values the code can give it.
TypeOK ==
  /\ state \in {"Listening", "Capturing", "Thinking", "Speaking"}
  /\ drv \in [Drivers -> [pc : DriverPC, job : {"none", "welcome", "final", "inject"},
                          out : Results, ctx : {"live", "expired", "canceled"},
                          err : {"none", "error", "canceled"}]]
  /\ barge \in [Agents -> {"none", "commit", "capture"}]
  /\ fail \in FailPC /\ at \in {"start", "listen", "end"} \cup Tools
  /\ welcomed \in BOOLEAN /\ conversing \in BOOLEAN /\ turns \in 0 .. MaxTurns
  /\ leg \in {"up", "gone"} /\ verb \in {"none", "spent"} \cup Tools
  /\ disp \in {"none", "transferred", "completed", "failure"}
  /\ stopped \in BOOLEAN

\* The state the barge-in decisions are made on is never left behind: however
\* drivers and barge-ins interleave, a Talk that is Thinking or Speaking has a
\* driver that is, and will change it.
StateTruthful ==
  /\ state = "Thinking" => \E d \in Drivers : drv[d].pc \in Thinking
  /\ state = "Speaking" => \E d \in Drivers : drv[d].pc = "loop"

\* The store never says that a caller was transferred whose leg was not told
\* so, whatever FailCall and the drivers race to record.
TransferredIsTrue == disp = "transferred" => verb = "transfer"

\* A call is recorded as failed only when the pipeline has failed, or when the
\* verb of the armed Tool did not go out: not because a context ended after it.
FailureHasCause == disp = "failure" => fail # "none" \/ (Armed /\ verb # at)

\* A session whose graph has armed a Tool or reached End, or whose pipeline
\* has failed, is stopped in the end, whoever barges in, fails or hangs up
\* meanwhile; unless a lab client leaves its own /inject-text request, which
\* cancels the verb of the Tool that text has armed, and nothing retries it.
ClientLeft == \E d \in Injectors : drv[d].ctx = "canceled"
Closing == Armed \/ at = "end" \/ fail # "none"
CallsEnd == []~ClientLeft => (Closing ~> stopped)

\* The leg, the gate and the cursor that this module stands in for do nothing
\* here that EdgeConn, MediaGate and FlowCursor do not promise: whatever races,
\* each side of the three seams keeps to the same small machine.
Leg == INSTANCE CallLeg WITH
  up <- leg = "up", spent <- verb # "none", told <- IF verb \in Tools THEN 1 ELSE 0
Floor == INSTANCE FinalsFloor WITH
  open <- conversing,
  talking <- {w \in {"consumer", "answer"} :
                drv[IF w = "consumer" THEN Consumer ELSE Answer].job = "final"}
Walk == INSTANCE GraphWalk WITH arms <- IF Armed THEN 1 ELSE 0
KeepsToNeighbours == Leg!LegSpec /\ Floor!FloorSpec /\ Walk!WalkSpec

=============================================================================
