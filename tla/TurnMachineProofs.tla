--------------------------- MODULE TurnMachineProofs --------------------------
(***************************************************************************)
(* Proofs about TurnMachine for any number of injecting clients, barge-in  *)
(* goroutines and turns: type correctness, that the Talk's state is never  *)
(* left behind, what the recorded disposition says of the verb, and that   *)
(* the leg, the gate and the cursor it stands in for keep to what EdgeConn, *)
(* MediaGate and FlowCursor promise (CallLeg, FinalsFloor, GraphWalk). And *)
(* about FallbackStore, for any tenants, uploads and callers: what a call  *)
(* that fails plays is whole and was in place, and is what it asked for    *)
(* unless that was missing.                                                *)
(***************************************************************************)
EXTENDS TurnMachine, FallbackStore, TLAPS

\* TypeOK with what makes it inductive: only a Tool is asked of the leg.
TypeInv == TypeOK /\ \A d \in Drivers : drv[d].pc \in {"tool", "verb"} => drv[d].out \in Tools

\* A driver that carries a Tool is the only one, and the cursor stands there;
\* a driver whose verb failed still has to record it.
ArmInv ==
  /\ \A d \in Drivers :
       /\ drv[d].out \in Tools => at = drv[d].out
       /\ drv[d].err # "none" => drv[d].pc = "record" /\ drv[d].out \in Tools
  /\ \A d, e \in Drivers : drv[d].out \in Tools /\ drv[e].out \in Tools => d = e

\* While nothing has failed the pipeline, only the armed Tool's own driver can
\* have made the leg take a verb, and it is past asking.
CauseInv ==
  fail = "none" =>
    /\ verb \in Tools =>
         /\ Armed
         /\ \A d \in Drivers : drv[d].out \in Tools =>
              drv[d].pc \in {"record", "end"} /\ drv[d].err = "none"
    /\ \A d \in Drivers : drv[d].err # "none" => verb # at
    /\ disp = "failure" =>
         /\ Armed /\ verb # at
         /\ \A d \in Drivers : drv[d].out \notin Tools

\* A driver about to record a transfer has seen the leg take it.
RecordInv ==
  /\ TransferredIsTrue
  /\ \A d \in Drivers :
       drv[d].pc = "record" /\ drv[d].out = "transfer" /\ drv[d].err = "none" => verb = "transfer"

-----------------------------------------------------------------------------
LEMMA Members == Answer \in Drivers /\ Vad \in Agents /\ Fail \in Agents /\ Drivers \subseteq Agents /\ Bargers \subseteq Agents
BY TurnAssumption DEF Drivers, Agents

LEMMA TypeInit == Init => TypeInv
<1> SUFFICES ASSUME Init PROVE TypeInv
  OBVIOUS
<1>1. Rest \in [pc : DriverPC, job : {"none", "welcome", "final", "inject"}, out : Results,
                ctx : {"live", "expired", "canceled"}, err : {"none", "error", "canceled"}]
  BY DEF Rest, DriverPC, Results
<1>2. 0 \in 0 .. MaxTurns
  BY TurnAssumption
<1> QED
  BY <1>1, <1>2 DEF Init, TypeInv, TypeOK, FailPC, Rest

\* What a driver may hold.
Records == [pc : DriverPC, job : {"none", "welcome", "final", "inject"}, out : Results,
            ctx : {"live", "expired", "canceled"}, err : {"none", "error", "canceled"}]

\* A driver that goes on as one that asks only a Tool of the leg.
LEMMA DriverChange ==
  ASSUME TypeInv, NEW d \in Drivers, NEW r \in Records, drv' = [drv EXCEPT ![d] = r],
         r.pc \in {"tool", "verb"} => r.out \in Tools
  PROVE  /\ drv' \in [Drivers -> Records]
         /\ \A e \in Drivers : drv'[e].pc \in {"tool", "verb"} => drv'[e].out \in Tools
BY DEF TypeInv, TypeOK, Records

\* Every action keeps every variable within its type.
LEMMA TypeStep ==
  ASSUME TypeInv, [Next]_vars
  PROVE  TypeInv'
<1> USE TurnAssumption, Members DEF TypeInv, TypeOK, Records, DriverPC, Results, Tools, FailPC
<1>1. ASSUME NEW g \in Agents, BargeCommit(g) PROVE TypeInv'
  BY <1>1 DEF BargeCommit, gateVars, callVars
<1>2. ASSUME NEW g \in Bargers, BargeIn(g) PROVE TypeInv'
  BY <1>2 DEF BargeIn, gateVars, callVars, Interrupt, Free
<1>3. ASSUME NEW d \in Drivers, DeliverFinal(d) PROVE TypeInv'
  <2>1. PICK r \in Records : drv' = [drv EXCEPT ![d] = r] /\ (r.pc \in {"tool", "verb"} => r.out \in Tools)
    <3>1. [Rest EXCEPT !.pc = "look", !.job = "final"] \in Records
      BY DEF Rest, Records, DriverPC, Results
    <3> QED
      BY <1>3, <3>1 DEF DeliverFinal, Rest
  <2>2. drv' \in [Drivers -> Records] /\ \A e \in Drivers : drv'[e].pc \in {"tool", "verb"} => drv'[e].out \in Tools
    BY <2>1, DriverChange DEF TypeInv, TypeOK, Records
  <2> QED
    BY <1>3, <2>2 DEF DeliverFinal, gateVars, callVars
<1>4. ASSUME NEW d \in Drivers, InjectFinal(d) PROVE TypeInv'
  <2>1. PICK r \in Records : drv' = [drv EXCEPT ![d] = r] /\ (r.pc \in {"tool", "verb"} => r.out \in Tools)
    <3>1. [Rest EXCEPT !.pc = "start", !.job = "inject"] \in Records
      BY DEF Rest, Records, DriverPC, Results
    <3> QED
      BY <1>4, <3>1 DEF InjectFinal, Rest
  <2>2. drv' \in [Drivers -> Records] /\ \A e \in Drivers : drv'[e].pc \in {"tool", "verb"} => drv'[e].out \in Tools
    BY <2>1, DriverChange DEF TypeInv, TypeOK, Records
  <2> QED
    BY <1>4, <2>2 DEF InjectFinal, gateVars, callVars
<1>5. ASSUME NEW d \in Drivers, LookAndBarge(d) PROVE TypeInv'
  BY <1>5 DEF LookAndBarge, gateVars, callVars, At, Free, Interrupt, Goto
<1>6. ASSUME NEW d \in Drivers, LookAndSuppress(d) PROVE TypeInv'
  BY <1>6 DEF LookAndSuppress, gateVars, callVars, At, Free, Over, Rest
<1>7. ASSUME NEW d \in Drivers, LookAndGo(d) PROVE TypeInv'
  BY <1>7 DEF LookAndGo, gateVars, callVars, At, Free, Goto
<1>8. ASSUME NEW d \in Drivers, StartTurn(d) PROVE TypeInv'
  BY <1>8 DEF StartTurn, gateVars, callVars, At, Free, Goto
<1>9. ASSUME NEW d \in Drivers, ThinkReply(d) PROVE TypeInv'
  BY <1>9 DEF ThinkReply, gateVars, callVars, At, Free, Result, Armed
<1>10. ASSUME NEW d \in Drivers, ThinkNoMatch(d) PROVE TypeInv'
  BY <1>10 DEF ThinkNoMatch, gateVars, callVars, At, Free, Over, Rest
<1>11. ASSUME NEW d \in Drivers, ThinkError(d) PROVE TypeInv'
  BY <1>11 DEF ThinkError, gateVars, callVars, At, Free, Over, Rest, FailPipeline
<1>12. ASSUME NEW d \in Drivers, SpeakError(d) PROVE TypeInv'
  BY <1>12 DEF SpeakError, gateVars, callVars, At, Free, Over, Rest, FailPipeline
<1>13. ASSUME NEW d \in Drivers, StartSpeaking(d) PROVE TypeInv'
  BY <1>13 DEF StartSpeaking, gateVars, callVars, At, Free, Goto
<1>14. ASSUME NEW d \in Drivers, FinishSpeak(d) PROVE TypeInv'
  BY <1>14 DEF FinishSpeak, gateVars, callVars, At, Free, Goto, StateAfter
<1>15. ASSUME NEW d \in Drivers, Settle(d) PROVE TypeInv'
  <2>1. welcomed' \in BOOLEAN /\ conversing' \in BOOLEAN
    BY <1>15 DEF Settle
  <2>2. drv' \in [Drivers -> Records] /\ \A e \in Drivers : drv'[e].pc \in {"tool", "verb"} => drv'[e].out \in Tools
    <3>1. CASE drv[d].out \in Tools /\ Goto(d, "tool")
      BY <3>1 DEF Goto
    <3>2. CASE Goto(d, "record")
      BY <3>2 DEF Goto
    <3>3. CASE Over(d)
      BY <3>3 DEF Over, Rest
    <3> QED
      BY <1>15, <3>1, <3>2, <3>3 DEF Settle
  <2> QED
    BY <1>15, <2>1, <2>2 DEF Settle, gateVars, callVars
<1>16. ASSUME NEW d \in Drivers, BeginTool(d) PROVE TypeInv'
  BY <1>16 DEF BeginTool, gateVars, callVars, At, Free, Over, Rest, Goto, FailPipeline
<1>17. ASSUME NEW d \in Drivers, VerbSent(d) PROVE TypeInv'
  BY <1>17 DEF VerbSent, gateVars, callVars, At, Free, Goto
<1>18. ASSUME NEW d \in Drivers, VerbRefused(d) PROVE TypeInv'
  <2>1. PICK e \in {"canceled", "error"} : drv' = [drv EXCEPT ![d].pc = "record", ![d].err = e]
    BY <1>18 DEF VerbRefused
  <2>2. verb' \in {"none", "spent"} \cup Tools
    BY <1>18 DEF VerbRefused
  <2>3. drv' \in [Drivers -> Records] /\ \A f \in Drivers : drv'[f].pc \in {"tool", "verb"} => drv'[f].out \in Tools
    <3> DEFINE r == [drv[d] EXCEPT !.pc = "record", !.err = e]
    <3>1. r \in Records /\ r.pc = "record"
      <4>1. drv[d] \in Records
        OBVIOUS
      <4> HIDE DEF TypeInv, TypeOK
      <4> QED
        BY <4>1
    <3>2. drv' = [drv EXCEPT ![d] = r]
      BY <2>1
    <3> HIDE DEF r
    <3> QED
      BY <3>1, <3>2, DriverChange
  <2> QED
    BY <1>18, <2>2, <2>3 DEF VerbRefused, gateVars
<1>19. ASSUME NEW d \in Drivers, Record(d) PROVE TypeInv'
  BY <1>19 DEF Record, gateVars, callVars, At, Free, Outcome, Goto, Over, Rest, FailPipeline
<1>20. ASSUME NEW d \in Drivers, EndSession(d) PROVE TypeInv'
  BY <1>20 DEF EndSession, gateVars, callVars, At, Free, Over, Rest
<1>21. ASSUME NEW d \in Drivers, ContextEnds(d) PROVE TypeInv'
  BY <1>21 DEF ContextEnds, gateVars, callVars
<1>22. CASE HearSpeech
  BY <1>22 DEF HearSpeech, gateVars, callVars, Free
<1>23. CASE StartCapture
  BY <1>23 DEF StartCapture, gateVars, callVars
<1>24. CASE AnswerCall
  <2>1. PICK r \in Records : drv' = [drv EXCEPT ![Answer] = r] /\ (r.pc \in {"tool", "verb"} => r.out \in Tools)
    <3>1. PICK to \in {"start", "listen", "end"} \cup Tools, pc \in {"open", "settle"} :
            drv' = [drv EXCEPT ![Answer] = [Rest EXCEPT !.pc = pc, !.job = "welcome",
                                                        !.out = IF to = "listen" THEN "reply" ELSE to]]
            /\ to # "start"
      <4>1. PICK to \in (IF at = "start" THEN {"listen", "end"} \cup Tools ELSE {at} \ Tools) :
              \E pc \in {"open", "settle"} :
                /\ pc = "open" => at = "start"
                /\ drv' = [drv EXCEPT ![Answer] = [Rest EXCEPT !.pc = pc, !.job = "welcome",
                                                              !.out = IF to = "listen" THEN "reply" ELSE to]]
        BY <1>24 DEF AnswerCall
      <4>2. to \in {"start", "listen", "end"} \cup Tools /\ to # "start"
        BY <4>1 DEF TypeInv, TypeOK, Tools
      <4> QED
        BY <4>1, <4>2
    <3> DEFINE r == [Rest EXCEPT !.pc = pc, !.job = "welcome", !.out = IF to = "listen" THEN "reply" ELSE to]
    <3>2. r \in Records /\ r.pc \notin {"tool", "verb"}
      BY <3>1 DEF Rest, Records, DriverPC, Results
    <3>3. drv' = [drv EXCEPT ![Answer] = r]
      BY <3>1
    <3> HIDE DEF r
    <3> QED
      BY <3>2, <3>3
  <2>2. drv' \in [Drivers -> Records] /\ \A e \in Drivers : drv'[e].pc \in {"tool", "verb"} => drv'[e].out \in Tools
    BY <2>1, DriverChange, Members DEF TypeInv, TypeOK, Records
  <2> QED
    BY <1>24, <2>2 DEF AnswerCall, gateVars, callVars
<1>25. CASE AnswerError
  BY <1>25 DEF AnswerError, gateVars, callVars, FailPipeline
<1>26. CASE FailEnter
  BY <1>26 DEF FailEnter, gateVars, callVars, Interrupt
<1>27. CASE PlayFallback
  BY <1>27 DEF PlayFallback, gateVars, callVars, Free
<1>28. CASE FallbackHangup
  BY <1>28 DEF FallbackHangup, gateVars, callVars
<1>29. CASE FailRecord
  BY <1>29 DEF FailRecord, gateVars, callVars
<1>30. CASE FailEnd
  BY <1>30 DEF FailEnd, gateVars, callVars
<1>31. CASE LegGone
  BY <1>31 DEF LegGone, gateVars, callVars
<1>32. CASE GoneStops
  BY <1>32 DEF GoneStops, gateVars, callVars
<1>33. CASE StopSession
  BY <1>33 DEF StopSession, gateVars, callVars
<1>34. CASE UNCHANGED vars
  BY <1>34 DEF vars, gateVars, callVars
<1> QED
  BY <1>1, <1>2, <1>3, <1>4, <1>5, <1>6, <1>7, <1>8, <1>9, <1>10, <1>11, <1>12, <1>13, <1>14, <1>15, <1>16, <1>17, <1>18, <1>19, <1>20, <1>21, <1>22, <1>23, <1>24, <1>25, <1>26, <1>27, <1>28, <1>29, <1>30, <1>31, <1>32, <1>33, <1>34 DEF Next, DriverStep, Turn, Speech, After, FailStep

\* Who leaves Thinking or Speaking takes the state along.
LEMMA TruthStep ==
  ASSUME TypeInv, StateTruthful, [Next]_vars
  PROVE  StateTruthful'
<1> USE DEF TypeInv, TypeOK, StateTruthful, Thinking, Tools
<1>1. ASSUME NEW g \in Agents, BargeCommit(g) PROVE StateTruthful'
  BY <1>1 DEF BargeCommit, gateVars, callVars
<1>2. ASSUME NEW g \in Bargers, BargeIn(g) PROVE StateTruthful'
  BY <1>2 DEF BargeIn, gateVars, callVars, Interrupt, Free
<1>3. ASSUME NEW d \in Drivers, DeliverFinal(d) PROVE StateTruthful'
  BY <1>3 DEF DeliverFinal, gateVars, callVars, At, Free, Rest
<1>4. ASSUME NEW d \in Drivers, InjectFinal(d) PROVE StateTruthful'
  BY <1>4 DEF InjectFinal, gateVars, callVars, At, Free, Rest
<1>5. ASSUME NEW d \in Drivers, LookAndBarge(d) PROVE StateTruthful'
  BY <1>5 DEF LookAndBarge, gateVars, callVars, At, Free, Interrupt, Goto
<1>6. ASSUME NEW d \in Drivers, LookAndSuppress(d) PROVE StateTruthful'
  BY <1>6 DEF LookAndSuppress, gateVars, callVars, At, Free, Over, Rest
<1>7. ASSUME NEW d \in Drivers, LookAndGo(d) PROVE StateTruthful'
  BY <1>7 DEF LookAndGo, gateVars, callVars, At, Free, Goto
<1>8. ASSUME NEW d \in Drivers, StartTurn(d) PROVE StateTruthful'
  BY <1>8 DEF StartTurn, gateVars, callVars, At, Free, Goto
<1>9. ASSUME NEW d \in Drivers, ThinkReply(d) PROVE StateTruthful'
  BY <1>9 DEF ThinkReply, gateVars, callVars, At, Free, Result, Armed
<1>10. ASSUME NEW d \in Drivers, ThinkNoMatch(d) PROVE StateTruthful'
  BY <1>10 DEF ThinkNoMatch, gateVars, callVars, At, Free, Over, Rest
<1>11. ASSUME NEW d \in Drivers, ThinkError(d) PROVE StateTruthful'
  BY <1>11 DEF ThinkError, gateVars, callVars, At, Free, Over, Rest, FailPipeline
<1>12. ASSUME NEW d \in Drivers, SpeakError(d) PROVE StateTruthful'
  BY <1>12 DEF SpeakError, gateVars, callVars, At, Free, Over, Rest, FailPipeline
<1>13. ASSUME NEW d \in Drivers, StartSpeaking(d) PROVE StateTruthful'
  BY <1>13 DEF StartSpeaking, gateVars, callVars, At, Free, Goto
<1>14. ASSUME NEW d \in Drivers, FinishSpeak(d) PROVE StateTruthful'
  BY <1>14 DEF FinishSpeak, gateVars, callVars, At, Free, Goto, StateAfter
<1>15. ASSUME NEW d \in Drivers, Settle(d) PROVE StateTruthful'
  BY <1>15 DEF Settle, gateVars, callVars, At, Free, Over, Rest, Goto
<1>16. ASSUME NEW d \in Drivers, BeginTool(d) PROVE StateTruthful'
  BY <1>16 DEF BeginTool, gateVars, callVars, At, Free, Over, Rest, Goto, FailPipeline
<1>17. ASSUME NEW d \in Drivers, VerbSent(d) PROVE StateTruthful'
  BY <1>17 DEF VerbSent, gateVars, callVars, At, Free, Goto
<1>18. ASSUME NEW d \in Drivers, VerbRefused(d) PROVE StateTruthful'
  BY <1>18 DEF VerbRefused, gateVars, callVars, At, Free
<1>19. ASSUME NEW d \in Drivers, Record(d) PROVE StateTruthful'
  BY <1>19 DEF Record, gateVars, callVars, At, Free, Outcome, Goto, Over, Rest, FailPipeline
<1>20. ASSUME NEW d \in Drivers, EndSession(d) PROVE StateTruthful'
  BY <1>20 DEF EndSession, gateVars, callVars, At, Free, Over, Rest
<1>21. ASSUME NEW d \in Drivers, ContextEnds(d) PROVE StateTruthful'
  BY <1>21 DEF ContextEnds, gateVars, callVars
<1>22. CASE HearSpeech
  BY <1>22 DEF HearSpeech, gateVars, callVars, Free
<1>23. CASE StartCapture
  BY <1>23 DEF StartCapture, gateVars, callVars
<1>24. CASE AnswerCall
  BY <1>24 DEF AnswerCall, gateVars, callVars, At, Free, Rest, Armed
<1>25. CASE AnswerError
  BY <1>25 DEF AnswerError, gateVars, callVars, FailPipeline
<1>26. CASE FailEnter
  BY <1>26 DEF FailEnter, gateVars, callVars, Interrupt
<1>27. CASE PlayFallback
  BY <1>27 DEF PlayFallback, gateVars, callVars, Free
<1>28. CASE FallbackHangup
  BY <1>28 DEF FallbackHangup, gateVars, callVars
<1>29. CASE FailRecord
  BY <1>29 DEF FailRecord, gateVars, callVars
<1>30. CASE FailEnd
  BY <1>30 DEF FailEnd, gateVars, callVars
<1>31. CASE LegGone
  BY <1>31 DEF LegGone, gateVars, callVars
<1>32. CASE GoneStops
  BY <1>32 DEF GoneStops, gateVars, callVars
<1>33. CASE StopSession
  BY <1>33 DEF StopSession, gateVars, callVars
<1>34. CASE UNCHANGED vars
  BY <1>34 DEF vars, gateVars, callVars
<1> QED
  BY <1>1, <1>2, <1>3, <1>4, <1>5, <1>6, <1>7, <1>8, <1>9, <1>10, <1>11, <1>12, <1>13, <1>14, <1>15, <1>16, <1>17, <1>18, <1>19, <1>20, <1>21, <1>22, <1>23, <1>24, <1>25, <1>26, <1>27, <1>28, <1>29, <1>30, <1>31, <1>32, <1>33, <1>34 DEF Next, DriverStep, Turn, Speech, After, FailStep

\* The cursor arms once, so a Tool has one driver.
LEMMA ArmStep ==
  ASSUME TypeInv, ArmInv, [Next]_vars
  PROVE  ArmInv'
<1> USE DEF TypeInv, TypeOK, ArmInv, Tools, Results
<1>1. ASSUME NEW g \in Agents, BargeCommit(g) PROVE ArmInv'
  BY <1>1 DEF BargeCommit, gateVars, callVars
<1>2. ASSUME NEW g \in Bargers, BargeIn(g) PROVE ArmInv'
  BY <1>2 DEF BargeIn, gateVars, callVars, Interrupt, Free
<1>3. ASSUME NEW d \in Drivers, DeliverFinal(d) PROVE ArmInv'
  BY <1>3 DEF DeliverFinal, gateVars, callVars, At, Free, Rest
<1>4. ASSUME NEW d \in Drivers, InjectFinal(d) PROVE ArmInv'
  BY <1>4 DEF InjectFinal, gateVars, callVars, At, Free, Rest
<1>5. ASSUME NEW d \in Drivers, LookAndBarge(d) PROVE ArmInv'
  BY <1>5 DEF LookAndBarge, gateVars, callVars, At, Free, Interrupt, Goto
<1>6. ASSUME NEW d \in Drivers, LookAndSuppress(d) PROVE ArmInv'
  BY <1>6 DEF LookAndSuppress, gateVars, callVars, At, Free, Over, Rest
<1>7. ASSUME NEW d \in Drivers, LookAndGo(d) PROVE ArmInv'
  BY <1>7 DEF LookAndGo, gateVars, callVars, At, Free, Goto
<1>8. ASSUME NEW d \in Drivers, StartTurn(d) PROVE ArmInv'
  BY <1>8 DEF StartTurn, gateVars, callVars, At, Free, Goto
<1>9. ASSUME NEW d \in Drivers, ThinkReply(d) PROVE ArmInv'
  BY <1>9 DEF ThinkReply, gateVars, callVars, At, Free, Result, Armed
<1>10. ASSUME NEW d \in Drivers, ThinkNoMatch(d) PROVE ArmInv'
  BY <1>10 DEF ThinkNoMatch, gateVars, callVars, At, Free, Over, Rest
<1>11. ASSUME NEW d \in Drivers, ThinkError(d) PROVE ArmInv'
  BY <1>11 DEF ThinkError, gateVars, callVars, At, Free, Over, Rest, FailPipeline
<1>12. ASSUME NEW d \in Drivers, SpeakError(d) PROVE ArmInv'
  BY <1>12 DEF SpeakError, gateVars, callVars, At, Free, Over, Rest, FailPipeline
<1>13. ASSUME NEW d \in Drivers, StartSpeaking(d) PROVE ArmInv'
  BY <1>13 DEF StartSpeaking, gateVars, callVars, At, Free, Goto
<1>14. ASSUME NEW d \in Drivers, FinishSpeak(d) PROVE ArmInv'
  BY <1>14 DEF FinishSpeak, gateVars, callVars, At, Free, Goto, StateAfter
<1>15. ASSUME NEW d \in Drivers, Settle(d) PROVE ArmInv'
  BY <1>15 DEF Settle, gateVars, callVars, At, Free, Over, Rest, Goto
<1>16. ASSUME NEW d \in Drivers, BeginTool(d) PROVE ArmInv'
  BY <1>16 DEF BeginTool, gateVars, callVars, At, Free, Over, Rest, Goto, FailPipeline
<1>17. ASSUME NEW d \in Drivers, VerbSent(d) PROVE ArmInv'
  BY <1>17 DEF VerbSent, gateVars, callVars, At, Free, Goto
<1>18. ASSUME NEW d \in Drivers, VerbRefused(d) PROVE ArmInv'
  BY <1>18 DEF VerbRefused, gateVars, callVars, At, Free
<1>19. ASSUME NEW d \in Drivers, Record(d) PROVE ArmInv'
  BY <1>19 DEF Record, gateVars, callVars, At, Free, Outcome, Goto, Over, Rest, FailPipeline
<1>20. ASSUME NEW d \in Drivers, EndSession(d) PROVE ArmInv'
  BY <1>20 DEF EndSession, gateVars, callVars, At, Free, Over, Rest
<1>21. ASSUME NEW d \in Drivers, ContextEnds(d) PROVE ArmInv'
  BY <1>21 DEF ContextEnds, gateVars, callVars
<1>22. CASE HearSpeech
  BY <1>22 DEF HearSpeech, gateVars, callVars, Free
<1>23. CASE StartCapture
  BY <1>23 DEF StartCapture, gateVars, callVars
<1>24. CASE AnswerCall
  BY <1>24 DEF AnswerCall, gateVars, callVars, At, Free, Rest, Armed
<1>25. CASE AnswerError
  BY <1>25 DEF AnswerError, gateVars, callVars, FailPipeline
<1>26. CASE FailEnter
  BY <1>26 DEF FailEnter, gateVars, callVars, Interrupt
<1>27. CASE PlayFallback
  BY <1>27 DEF PlayFallback, gateVars, callVars, Free
<1>28. CASE FallbackHangup
  BY <1>28 DEF FallbackHangup, gateVars, callVars
<1>29. CASE FailRecord
  BY <1>29 DEF FailRecord, gateVars, callVars
<1>30. CASE FailEnd
  BY <1>30 DEF FailEnd, gateVars, callVars
<1>31. CASE LegGone
  BY <1>31 DEF LegGone, gateVars, callVars
<1>32. CASE GoneStops
  BY <1>32 DEF GoneStops, gateVars, callVars
<1>33. CASE StopSession
  BY <1>33 DEF StopSession, gateVars, callVars
<1>34. CASE UNCHANGED vars
  BY <1>34 DEF vars, gateVars, callVars
<1> QED
  BY <1>1, <1>2, <1>3, <1>4, <1>5, <1>6, <1>7, <1>8, <1>9, <1>10, <1>11, <1>12, <1>13, <1>14, <1>15, <1>16, <1>17, <1>18, <1>19, <1>20, <1>21, <1>22, <1>23, <1>24, <1>25, <1>26, <1>27, <1>28, <1>29, <1>30, <1>31, <1>32, <1>33, <1>34 DEF Next, DriverStep, Turn, Speech, After, FailStep

\* A failed disposition without a failed pipeline has the armed verb unsent.
LEMMA CauseStep ==
  ASSUME TypeInv, ArmInv, CauseInv, [Next]_vars
  PROVE  CauseInv'
<1> USE DEF TypeInv, TypeOK, ArmInv, CauseInv, Armed, Tools, Results
<1>1. ASSUME NEW g \in Agents, BargeCommit(g) PROVE CauseInv'
  BY <1>1 DEF BargeCommit, gateVars, callVars
<1>2. ASSUME NEW g \in Bargers, BargeIn(g) PROVE CauseInv'
  BY <1>2 DEF BargeIn, gateVars, callVars, Interrupt, Free
<1>3. ASSUME NEW d \in Drivers, DeliverFinal(d) PROVE CauseInv'
  BY <1>3 DEF DeliverFinal, gateVars, callVars, At, Free, Rest
<1>4. ASSUME NEW d \in Drivers, InjectFinal(d) PROVE CauseInv'
  BY <1>4 DEF InjectFinal, gateVars, callVars, At, Free, Rest
<1>5. ASSUME NEW d \in Drivers, LookAndBarge(d) PROVE CauseInv'
  BY <1>5 DEF LookAndBarge, gateVars, callVars, At, Free, Interrupt, Goto
<1>6. ASSUME NEW d \in Drivers, LookAndSuppress(d) PROVE CauseInv'
  BY <1>6 DEF LookAndSuppress, gateVars, callVars, At, Free, Over, Rest
<1>7. ASSUME NEW d \in Drivers, LookAndGo(d) PROVE CauseInv'
  BY <1>7 DEF LookAndGo, gateVars, callVars, At, Free, Goto
<1>8. ASSUME NEW d \in Drivers, StartTurn(d) PROVE CauseInv'
  BY <1>8 DEF StartTurn, gateVars, callVars, At, Free, Goto
<1>9. ASSUME NEW d \in Drivers, ThinkReply(d) PROVE CauseInv'
  BY <1>9 DEF ThinkReply, gateVars, callVars, At, Free, Result, Armed
<1>10. ASSUME NEW d \in Drivers, ThinkNoMatch(d) PROVE CauseInv'
  BY <1>10 DEF ThinkNoMatch, gateVars, callVars, At, Free, Over, Rest
<1>11. ASSUME NEW d \in Drivers, ThinkError(d) PROVE CauseInv'
  BY <1>11 DEF ThinkError, gateVars, callVars, At, Free, Over, Rest, FailPipeline
<1>12. ASSUME NEW d \in Drivers, SpeakError(d) PROVE CauseInv'
  BY <1>12 DEF SpeakError, gateVars, callVars, At, Free, Over, Rest, FailPipeline
<1>13. ASSUME NEW d \in Drivers, StartSpeaking(d) PROVE CauseInv'
  BY <1>13 DEF StartSpeaking, gateVars, callVars, At, Free, Goto
<1>14. ASSUME NEW d \in Drivers, FinishSpeak(d) PROVE CauseInv'
  BY <1>14 DEF FinishSpeak, gateVars, callVars, At, Free, Goto, StateAfter
<1>15. ASSUME NEW d \in Drivers, Settle(d) PROVE CauseInv'
  BY <1>15 DEF Settle, gateVars, callVars, At, Free, Over, Rest, Goto
<1>16. ASSUME NEW d \in Drivers, BeginTool(d) PROVE CauseInv'
  BY <1>16 DEF BeginTool, gateVars, callVars, At, Free, Over, Rest, Goto, FailPipeline
<1>17. ASSUME NEW d \in Drivers, VerbSent(d) PROVE CauseInv'
  BY <1>17 DEF VerbSent, gateVars, callVars, At, Free, Goto
<1>18. ASSUME NEW d \in Drivers, VerbRefused(d) PROVE CauseInv'
  BY <1>18 DEF VerbRefused, gateVars, callVars, At, Free
<1>19. ASSUME NEW d \in Drivers, Record(d) PROVE CauseInv'
  BY <1>19 DEF Record, gateVars, callVars, At, Free, Outcome, Goto, Over, Rest, FailPipeline
<1>20. ASSUME NEW d \in Drivers, EndSession(d) PROVE CauseInv'
  BY <1>20 DEF EndSession, gateVars, callVars, At, Free, Over, Rest
<1>21. ASSUME NEW d \in Drivers, ContextEnds(d) PROVE CauseInv'
  BY <1>21 DEF ContextEnds, gateVars, callVars
<1>22. CASE HearSpeech
  BY <1>22 DEF HearSpeech, gateVars, callVars, Free
<1>23. CASE StartCapture
  BY <1>23 DEF StartCapture, gateVars, callVars
<1>24. CASE AnswerCall
  BY <1>24 DEF AnswerCall, gateVars, callVars, At, Free, Rest, Armed
<1>25. CASE AnswerError
  BY <1>25 DEF AnswerError, gateVars, callVars, FailPipeline
<1>26. CASE FailEnter
  BY <1>26 DEF FailEnter, gateVars, callVars, Interrupt
<1>27. CASE PlayFallback
  BY <1>27 DEF PlayFallback, gateVars, callVars, Free
<1>28. CASE FallbackHangup
  BY <1>28 DEF FallbackHangup, gateVars, callVars
<1>29. CASE FailRecord
  BY <1>29 DEF FailRecord, gateVars, callVars
<1>30. CASE FailEnd
  BY <1>30 DEF FailEnd, gateVars, callVars
<1>31. CASE LegGone
  BY <1>31 DEF LegGone, gateVars, callVars
<1>32. CASE GoneStops
  BY <1>32 DEF GoneStops, gateVars, callVars
<1>33. CASE StopSession
  BY <1>33 DEF StopSession, gateVars, callVars
<1>34. CASE UNCHANGED vars
  BY <1>34 DEF vars, gateVars, callVars
<1> QED
  BY <1>1, <1>2, <1>3, <1>4, <1>5, <1>6, <1>7, <1>8, <1>9, <1>10, <1>11, <1>12, <1>13, <1>14, <1>15, <1>16, <1>17, <1>18, <1>19, <1>20, <1>21, <1>22, <1>23, <1>24, <1>25, <1>26, <1>27, <1>28, <1>29, <1>30, <1>31, <1>32, <1>33, <1>34 DEF Next, DriverStep, Turn, Speech, After, FailStep

\* A leg that has taken a verb keeps it.
LEMMA RecordStep ==
  ASSUME TypeInv, ArmInv, RecordInv, [Next]_vars
  PROVE  RecordInv'
<1> USE DEF TypeInv, TypeOK, ArmInv, RecordInv, TransferredIsTrue, Tools, Results
<1>1. ASSUME NEW g \in Agents, BargeCommit(g) PROVE RecordInv'
  BY <1>1 DEF BargeCommit, gateVars, callVars
<1>2. ASSUME NEW g \in Bargers, BargeIn(g) PROVE RecordInv'
  BY <1>2 DEF BargeIn, gateVars, callVars, Interrupt, Free
<1>3. ASSUME NEW d \in Drivers, DeliverFinal(d) PROVE RecordInv'
  BY <1>3 DEF DeliverFinal, gateVars, callVars, At, Free, Rest
<1>4. ASSUME NEW d \in Drivers, InjectFinal(d) PROVE RecordInv'
  BY <1>4 DEF InjectFinal, gateVars, callVars, At, Free, Rest
<1>5. ASSUME NEW d \in Drivers, LookAndBarge(d) PROVE RecordInv'
  BY <1>5 DEF LookAndBarge, gateVars, callVars, At, Free, Interrupt, Goto
<1>6. ASSUME NEW d \in Drivers, LookAndSuppress(d) PROVE RecordInv'
  BY <1>6 DEF LookAndSuppress, gateVars, callVars, At, Free, Over, Rest
<1>7. ASSUME NEW d \in Drivers, LookAndGo(d) PROVE RecordInv'
  BY <1>7 DEF LookAndGo, gateVars, callVars, At, Free, Goto
<1>8. ASSUME NEW d \in Drivers, StartTurn(d) PROVE RecordInv'
  BY <1>8 DEF StartTurn, gateVars, callVars, At, Free, Goto
<1>9. ASSUME NEW d \in Drivers, ThinkReply(d) PROVE RecordInv'
  BY <1>9 DEF ThinkReply, gateVars, callVars, At, Free, Result, Armed
<1>10. ASSUME NEW d \in Drivers, ThinkNoMatch(d) PROVE RecordInv'
  BY <1>10 DEF ThinkNoMatch, gateVars, callVars, At, Free, Over, Rest
<1>11. ASSUME NEW d \in Drivers, ThinkError(d) PROVE RecordInv'
  BY <1>11 DEF ThinkError, gateVars, callVars, At, Free, Over, Rest, FailPipeline
<1>12. ASSUME NEW d \in Drivers, SpeakError(d) PROVE RecordInv'
  BY <1>12 DEF SpeakError, gateVars, callVars, At, Free, Over, Rest, FailPipeline
<1>13. ASSUME NEW d \in Drivers, StartSpeaking(d) PROVE RecordInv'
  BY <1>13 DEF StartSpeaking, gateVars, callVars, At, Free, Goto
<1>14. ASSUME NEW d \in Drivers, FinishSpeak(d) PROVE RecordInv'
  BY <1>14 DEF FinishSpeak, gateVars, callVars, At, Free, Goto, StateAfter
<1>15. ASSUME NEW d \in Drivers, Settle(d) PROVE RecordInv'
  BY <1>15 DEF Settle, gateVars, callVars, At, Free, Over, Rest, Goto
<1>16. ASSUME NEW d \in Drivers, BeginTool(d) PROVE RecordInv'
  BY <1>16 DEF BeginTool, gateVars, callVars, At, Free, Over, Rest, Goto, FailPipeline
<1>17. ASSUME NEW d \in Drivers, VerbSent(d) PROVE RecordInv'
  BY <1>17 DEF VerbSent, gateVars, callVars, At, Free, Goto
<1>18. ASSUME NEW d \in Drivers, VerbRefused(d) PROVE RecordInv'
  BY <1>18 DEF VerbRefused, gateVars, callVars, At, Free
<1>19. ASSUME NEW d \in Drivers, Record(d) PROVE RecordInv'
  BY <1>19 DEF Record, gateVars, callVars, At, Free, Outcome, Goto, Over, Rest, FailPipeline
<1>20. ASSUME NEW d \in Drivers, EndSession(d) PROVE RecordInv'
  BY <1>20 DEF EndSession, gateVars, callVars, At, Free, Over, Rest
<1>21. ASSUME NEW d \in Drivers, ContextEnds(d) PROVE RecordInv'
  BY <1>21 DEF ContextEnds, gateVars, callVars
<1>22. CASE HearSpeech
  BY <1>22 DEF HearSpeech, gateVars, callVars, Free
<1>23. CASE StartCapture
  BY <1>23 DEF StartCapture, gateVars, callVars
<1>24. CASE AnswerCall
  BY <1>24 DEF AnswerCall, gateVars, callVars, At, Free, Rest, Armed
<1>25. CASE AnswerError
  BY <1>25 DEF AnswerError, gateVars, callVars, FailPipeline
<1>26. CASE FailEnter
  BY <1>26 DEF FailEnter, gateVars, callVars, Interrupt
<1>27. CASE PlayFallback
  BY <1>27 DEF PlayFallback, gateVars, callVars, Free
<1>28. CASE FallbackHangup
  BY <1>28 DEF FallbackHangup, gateVars, callVars
<1>29. CASE FailRecord
  BY <1>29 DEF FailRecord, gateVars, callVars
<1>30. CASE FailEnd
  BY <1>30 DEF FailEnd, gateVars, callVars
<1>31. CASE LegGone
  BY <1>31 DEF LegGone, gateVars, callVars
<1>32. CASE GoneStops
  BY <1>32 DEF GoneStops, gateVars, callVars
<1>33. CASE StopSession
  BY <1>33 DEF StopSession, gateVars, callVars
<1>34. CASE UNCHANGED vars
  BY <1>34 DEF vars, gateVars, callVars
<1> QED
  BY <1>1, <1>2, <1>3, <1>4, <1>5, <1>6, <1>7, <1>8, <1>9, <1>10, <1>11, <1>12, <1>13, <1>14, <1>15, <1>16, <1>17, <1>18, <1>19, <1>20, <1>21, <1>22, <1>23, <1>24, <1>25, <1>26, <1>27, <1>28, <1>29, <1>30, <1>31, <1>32, <1>33, <1>34 DEF Next, DriverStep, Turn, Speech, After, FailStep

-----------------------------------------------------------------------------
LEMMA TypeInvariant == Spec => []TypeInv
<1>1. TypeInv /\ [Next]_vars => TypeInv'
  BY TypeStep
<1> QED
  BY TypeInit, <1>1, PTL DEF Spec

\* Every reachable state has the types of the model.
THEOREM TypeCorrect == Spec => []TypeOK
<1>1. TypeInv => TypeOK
  BY DEF TypeInv
<1> QED
  BY TypeInvariant, <1>1, PTL

\* A Talk that is Thinking or Speaking always has a driver that is, and that
\* will change it: no interleaving of turns and barge-ins strands the state
\* the barge-in decisions are made on.
THEOREM StateNeverStranded == Spec => []StateTruthful
<1>1. Init => StateTruthful
  BY DEF Init, StateTruthful
<1>2. TypeInv /\ StateTruthful /\ [Next]_vars => StateTruthful'
  BY TruthStep
<1> QED
  BY TypeInvariant, <1>1, <1>2, PTL DEF Spec

\* One Tool, one driver.
THEOREM ToolHasOneDriver == Spec => []ArmInv
<1>1. Init => ArmInv
  BY DEF Init, ArmInv, Rest, Tools
<1>2. TypeInv /\ ArmInv /\ [Next]_vars => ArmInv'
  BY ArmStep
<1> QED
  BY TypeInvariant, <1>1, <1>2, PTL DEF Spec

\* The store calls a caller transferred only when the leg was told to transfer.
THEOREM TransferredCallersWere == Spec => []TransferredIsTrue
<1>1. Init => RecordInv
  BY DEF Init, RecordInv, TransferredIsTrue, Rest
<1>2. TypeInv /\ ArmInv /\ RecordInv /\ [Next]_vars => RecordInv'
  BY RecordStep
<1>3. RecordInv => TransferredIsTrue
  BY DEF RecordInv
<1> QED
  BY TypeInvariant, ToolHasOneDriver, <1>1, <1>2, <1>3, PTL DEF Spec

\* The store calls a call failed only when the pipeline failed or the verb of
\* the armed Tool did not go out.
THEOREM FailuresHaveCauses == Spec => []FailureHasCause
<1>1. Init => CauseInv
  BY DEF Init, CauseInv, Rest, Tools
<1>2. TypeInv /\ ArmInv /\ CauseInv /\ [Next]_vars => CauseInv'
  BY CauseStep
<1>3. CauseInv => FailureHasCause
  BY DEF CauseInv, FailureHasCause
<1> QED
  BY TypeInvariant, ToolHasOneDriver, <1>1, <1>2, <1>3, PTL DEF Spec

-----------------------------------------------------------------------------
(* The three seams: the leg, the cursor and the gate.                      *)
LegVars == <<leg = "up", IF verb \in Tools THEN 1 ELSE 0, verb # "none">>
WalkVars == <<at, IF Armed THEN 1 ELSE 0>>
Talking == {w \in {"consumer", "answer"} :
              drv[IF w = "consumer" THEN Consumer ELSE Answer].job = "final"}
FloorVars == <<conversing, stopped, Talking>>

\* The one verb is taken by a driver, or by FailCall, that found it free.
LEMMA LegStep ==
  ASSUME TypeInv, [Next]_vars
  PROVE  [Leg!Gone \/ Leg!Tell \/ Leg!Waste]_LegVars
<1> DEFINE Spends == leg' = leg /\ verb = "none" /\ verb' = "spent"
           Tells == leg = "up" /\ leg' = leg /\ verb = "none" /\ verb' \in Tools
<1>1. UNCHANGED <<leg, verb>> => UNCHANGED LegVars
  BY DEF LegVars
<1>2. Spends => Leg!Waste
  BY DEF Leg!Waste, Leg!Use, Tools
<1>3. Tells => Leg!Tell
  BY DEF Leg!Tell, Leg!Use, Tools
<1>4. LegGone => Leg!Gone
  BY DEF LegGone, Leg!Gone
<1>5. ASSUME NEW d \in Drivers, VerbSent(d)
      PROVE  Tells
  BY <1>5 DEF VerbSent, At, TypeInv
<1>6. ASSUME NEW d \in Drivers, VerbRefused(d)
      PROVE  Spends \/ UNCHANGED <<leg, verb>>
  BY <1>6 DEF VerbRefused
<1>7. FallbackHangup => Spends \/ Tells \/ UNCHANGED <<leg, verb>>
  BY DEF FallbackHangup, Tools
<1>8. ASSUME NEW d \in Drivers, Turn(d) \/ Speech(d)
      PROVE  UNCHANGED <<leg, verb>>
  BY <1>8 DEF Turn, LookAndBarge, LookAndSuppress, LookAndGo, StartTurn, ThinkReply, ThinkNoMatch,
       ThinkError, Speech, SpeakError, StartSpeaking, FinishSpeak, callVars
<1>9. ASSUME NEW d \in Drivers, Settle(d) \/ BeginTool(d) \/ Record(d) \/ EndSession(d)
      PROVE  UNCHANGED <<leg, verb>>
  BY <1>9 DEF Settle, BeginTool, Record, EndSession, callVars
<1>10. ASSUME NEW d \in Drivers, DeliverFinal(d) \/ InjectFinal(d) \/ ContextEnds(d)
       PROVE  UNCHANGED <<leg, verb>>
  BY <1>10 DEF DeliverFinal, InjectFinal, ContextEnds, callVars
<1>11. (\E g \in Agents : BargeCommit(g)) \/ (\E g \in Bargers : BargeIn(g)) \/ HearSpeech
         \/ StartCapture \/ AnswerCall \/ AnswerError => UNCHANGED <<leg, verb>>
  BY DEF BargeCommit, BargeIn, HearSpeech, StartCapture, AnswerCall, AnswerError, callVars
<1>12. FailEnter \/ PlayFallback \/ FailRecord \/ FailEnd \/ GoneStops \/ StopSession
         => UNCHANGED <<leg, verb>>
  BY DEF FailEnter, PlayFallback, FailRecord, FailEnd, GoneStops, StopSession, callVars
<1>13. UNCHANGED vars => UNCHANGED <<leg, verb>>
  BY DEF vars, callVars
<1> HIDE DEF Spends, Tells
<1> QED
  BY <1>1, <1>2, <1>3, <1>4, <1>5, <1>6, <1>7, <1>8, <1>9, <1>10, <1>11, <1>12, <1>13
     DEF Next, DriverStep, After, FailStep

\* Only a turn that thinks and the welcome's walk move the cursor.
LEMMA WalkStep ==
  ASSUME TypeInv, [Next]_vars
  PROVE  [Walk!Move]_WalkVars
<1> DEFINE Goes == \/ at = "start" /\ at' \in {"listen", "end"} \cup Tools
                   \/ at = "listen" /\ at' \in {"start", "listen", "end"} \cup Tools
<1>1. UNCHANGED at => UNCHANGED WalkVars
  BY DEF WalkVars, Armed
<1>2. Goes => [Walk!Move]_WalkVars
  BY <1>1 DEF Walk!Move, Walk!Goes, Walk!Finals, Armed, Tools
<1>3. ASSUME NEW d \in Drivers, Turn(d)
      PROVE  Goes \/ UNCHANGED at
  <2>1. CASE ThinkReply(d)
    BY <2>1 DEF ThinkReply
  <2>2. CASE ThinkError(d)
    BY <2>2 DEF ThinkError
  <2> QED
    BY <1>3, <2>1, <2>2 DEF Turn, LookAndBarge, LookAndSuppress, LookAndGo, StartTurn, ThinkNoMatch
<1>4. AnswerCall => Goes \/ UNCHANGED at
  BY DEF AnswerCall
<1>5. ASSUME NEW d \in Drivers, Speech(d) \/ After(d)
      PROVE  UNCHANGED at
  BY <1>5 DEF Speech, SpeakError, StartSpeaking, FinishSpeak, After, Settle, BeginTool, VerbSent,
       VerbRefused, Record, EndSession
<1>6. ASSUME NEW d \in Drivers, DeliverFinal(d) \/ InjectFinal(d) \/ ContextEnds(d)
      PROVE  UNCHANGED at
  BY <1>6 DEF DeliverFinal, InjectFinal, ContextEnds
<1>7. (\E g \in Agents : BargeCommit(g)) \/ (\E g \in Bargers : BargeIn(g)) \/ HearSpeech
        \/ StartCapture \/ AnswerError => UNCHANGED at
  BY DEF BargeCommit, BargeIn, HearSpeech, StartCapture, AnswerError
<1>8. FailStep \/ LegGone \/ GoneStops \/ StopSession => UNCHANGED at
  BY DEF FailStep, FailEnter, PlayFallback, FallbackHangup, FailRecord, FailEnd, LegGone,
         GoneStops, StopSession
<1>9. UNCHANGED vars => UNCHANGED at
  BY DEF vars
<1> HIDE DEF Goes
<1> QED
  BY <1>1, <1>2, <1>3, <1>4, <1>5, <1>6, <1>7, <1>8, <1>9 DEF Next, DriverStep

\* Who talks is what the two drivers' jobs say.
LEMMA TalkersAre ==
  /\ \A w : w \in Talking <=> \/ w = "consumer" /\ drv[Consumer].job = "final"
                              \/ w = "answer" /\ drv[Answer].job = "final"
  /\ \A w : w \in Talking' <=> \/ w = "consumer" /\ drv'[Consumer].job = "final"
                               \/ w = "answer" /\ drv'[Answer].job = "final"
BY DEF Talking

\* A driver that goes on with its job changes nobody's turn.
LEMMA SameJobs ==
  ASSUME \A d \in Drivers : drv'[d].job = drv[d].job
  PROVE  UNCHANGED Talking
<1>1. Consumer \in Drivers /\ Answer \in Drivers
  BY DEF Drivers
<1> QED
  BY <1>1 DEF Talking

LEMMA GoingOn ==
  ASSUME TypeInv, NEW d \in Drivers, NEW pc, Goto(d, pc) \/ (\E out : Result(d, out, pc))
  PROVE  UNCHANGED Talking
<1>1. CASE Goto(d, pc)
  <2>1. \A e \in Drivers : drv'[e].job = drv[e].job
    BY <1>1 DEF Goto, TypeInv, TypeOK
  <2> QED
    BY <2>1, SameJobs
<1>2. ASSUME NEW out, Result(d, out, pc)
      PROVE  UNCHANGED Talking
  <2>1. \A e \in Drivers : drv'[e] = IF e = d THEN [drv[d] EXCEPT !.out = out, !.pc = pc] ELSE drv[e]
    BY <1>2 DEF Result, TypeInv, TypeOK
  <2>2. [drv[d] EXCEPT !.out = out, !.pc = pc].job = drv[d].job
    BY DEF TypeInv, TypeOK
  <2> QED
    BY <2>1, <2>2, SameJobs
<1> QED
  BY <1>1, <1>2

\* A driver that takes up anything but a final ends the turn it was in, if any.
LEMMA Leaving ==
  ASSUME TypeInv, NEW d \in Drivers, NEW r, drv' = [drv EXCEPT ![d] = r], r.job # "final",
         UNCHANGED conversing, Floor!MayStop
  PROVE  [Floor!FloorNext]_FloorVars
<1>1. \A e \in Drivers : drv'[e] = IF e = d THEN r ELSE drv[e]
  BY DEF TypeInv, TypeOK
<1>2. Consumer \in Drivers /\ Answer \in Drivers /\ Consumer # Answer
  BY TurnAssumption DEF Drivers
<1>3. ASSUME NEW w \in {"consumer", "answer"}, d = (IF w = "consumer" THEN Consumer ELSE Answer),
             drv[d].job = "final"
      PROVE  Floor!FloorNext
  <2>1. w \in Talking /\ Talking' = Talking \ {w}
    BY <1>1, <1>2, <1>3, TalkersAre
  <2> QED
    BY <2>1 DEF Floor!FloorNext, Floor!EndTurn, Floor!Takers, Talking
<1>4. CASE d \notin {Consumer, Answer} \/ drv[d].job # "final"
  <2>1. UNCHANGED Talking
    BY <1>1, <1>2, <1>4, TalkersAre
  <2>2. CASE UNCHANGED stopped
    BY <2>1, <2>2 DEF FloorVars
  <2>3. CASE ~stopped /\ stopped' = TRUE
    BY <2>1, <2>3 DEF Floor!FloorNext, Floor!Stop, Talking
  <2> QED
    BY <2>2, <2>3 DEF Floor!MayStop, TypeInv, TypeOK
<1> QED
  BY <1>3, <1>4

LEMMA LeavingOver ==
  ASSUME TypeInv, NEW d \in Drivers, Over(d), UNCHANGED conversing, Floor!MayStop
  PROVE  [Floor!FloorNext]_FloorVars
<1>1. drv' = [drv EXCEPT ![d] = Rest] /\ Rest.job # "final"
  BY DEF Over, Rest
<1> QED
  BY <1>1, Leaving

\* The driver that ends the welcome opens the gate, and may stop the session.
LEMMA Opening ==
  ASSUME TypeInv, NEW d \in Drivers, Over(d), Floor!MayStop,
         conversing' = (conversing \/ drv[d].job = "welcome")
  PROVE  [Floor!FloorNext]_FloorVars
<1>1. CASE UNCHANGED conversing
  BY <1>1, LeavingOver
<1>2. CASE conversing' # conversing
  <2>1. ~conversing /\ conversing' = TRUE /\ drv[d].job = "welcome"
    BY <1>2 DEF TypeInv, TypeOK
  <2>2. \A e \in Drivers : drv'[e] = IF e = d THEN Rest ELSE drv[e]
    BY DEF Over, TypeInv, TypeOK
  <2>3. Consumer \in Drivers /\ Answer \in Drivers
    BY DEF Drivers
  <2>4. UNCHANGED Talking
    BY <2>1, <2>2, <2>3, TalkersAre DEF Rest
  <2> QED
    BY <2>1, <2>4 DEF Floor!FloorNext, Floor!WelcomeOver, Talking
<1> QED
  BY <1>1, <1>2

\* A final's turn begins where the gate lets it through.
LEMMA Beginning ==
  ASSUME TypeInv, NEW d \in Drivers, DeliverFinal(d)
  PROVE  [Floor!FloorNext]_FloorVars
<1>1. PICK w \in {"consumer", "answer"} : d = IF w = "consumer" THEN Consumer ELSE Answer
  BY DEF DeliverFinal
<1>2. \A e \in Drivers : drv'[e] = IF e = d THEN [Rest EXCEPT !.pc = "look", !.job = "final"] ELSE drv[e]
  BY DEF DeliverFinal, TypeInv, TypeOK
<1>3. [Rest EXCEPT !.pc = "look", !.job = "final"].job = "final"
  BY DEF Rest
<1>4. Consumer \in Drivers /\ Answer \in Drivers /\ Consumer # Answer
  BY TurnAssumption DEF Drivers
<1>5. Talking' = Talking \cup {w}
  <2>1. drv'[d].job = "final" /\ \A e \in Drivers \ {d} : drv'[e] = drv[e]
    BY <1>2, <1>3
  <2>2. CASE w = "consumer"
    BY <1>1, <1>4, <2>1, <2>2, TalkersAre
  <2>3. CASE w = "answer"
    BY <1>1, <1>4, <2>1, <2>3, TalkersAre
  <2> QED
    BY <2>2, <2>3
<1>6. UNCHANGED <<conversing, stopped>> /\ (conversing \/ (stopped /\ w = "consumer"))
  BY <1>1, <1>4 DEF DeliverFinal, LetsThrough, callVars
<1>7. CASE w \in Talking
  BY <1>5, <1>6, <1>7 DEF FloorVars
<1>8. CASE w \notin Talking
  BY <1>5, <1>6, <1>8 DEF Floor!FloorNext, Floor!BeginTurn, Floor!Takers, Talking
<1> QED
  BY <1>7, <1>8

\* Every step of a driver, by what it does to the driver's job.
LEMMA FloorOfDriver ==
  ASSUME TypeInv, NEW d \in Drivers, DriverStep(d)
  PROVE  [Floor!FloorNext]_FloorVars
<1>1. UNCHANGED <<conversing, stopped, Talking>> => UNCHANGED FloorVars
  BY DEF FloorVars
<1>2. UNCHANGED stopped => Floor!MayStop
  BY DEF Floor!MayStop
<1>3. CASE LookAndBarge(d) \/ LookAndGo(d) \/ StartTurn(d)
  BY <1>1, <1>3, GoingOn DEF LookAndBarge, LookAndGo, StartTurn, gateVars, callVars
<1>4. CASE ThinkReply(d)
  <2>1. UNCHANGED Talking
    BY <1>4, GoingOn DEF ThinkReply
  <2> QED
    BY <1>1, <1>4, <2>1 DEF ThinkReply, gateVars, callVars
<1>5. CASE LookAndSuppress(d) \/ ThinkNoMatch(d) \/ ThinkError(d) \/ SpeakError(d)
  BY <1>2, <1>5, LeavingOver
     DEF LookAndSuppress, ThinkNoMatch, ThinkError, SpeakError, gateVars, callVars
<1>6. CASE StartSpeaking(d) \/ FinishSpeak(d)
  BY <1>1, <1>6, GoingOn DEF StartSpeaking, FinishSpeak, gateVars, callVars
<1>7. CASE Settle(d)
  <2>1. CASE drv[d].out = "reply"
    BY <1>2, <1>7, <2>1, Opening DEF Settle, callVars, Tools
  <2>2. CASE drv[d].out # "reply"
    BY <1>1, <1>7, <2>2, GoingOn DEF Settle, callVars
  <2> QED
    BY <2>1, <2>2
<1>8. CASE BeginTool(d)
  <2>1. UNCHANGED <<conversing, stopped>>
    BY <1>8 DEF BeginTool, gateVars, callVars
  <2>2. Over(d) \/ Goto(d, "verb") \/ Goto(d, "record")
    BY <1>8 DEF BeginTool
  <2> QED
    BY <1>1, <1>2, <2>1, <2>2, GoingOn, LeavingOver
<1>9. CASE VerbSent(d)
  BY <1>1, <1>9, GoingOn DEF VerbSent, gateVars
<1>10. CASE VerbRefused(d)
  <2>1. \A e \in Drivers : drv'[e].job = drv[e].job
    BY <1>10 DEF VerbRefused, TypeInv, TypeOK
  <2> QED
    BY <1>1, <1>10, <2>1, SameJobs DEF VerbRefused, gateVars
<1>11. CASE Record(d)
  <2>1. UNCHANGED <<conversing, stopped>>
    BY <1>11 DEF Record, gateVars
  <2>2. Over(d) \/ Goto(d, "end")
    BY <1>11 DEF Record
  <2> QED
    BY <1>1, <1>2, <2>1, <2>2, GoingOn, LeavingOver
<1>12. CASE EndSession(d)
  BY <1>12, Opening DEF EndSession, Floor!MayStop
<1> QED
  BY <1>3, <1>4, <1>5, <1>6, <1>7, <1>8, <1>9, <1>10, <1>11, <1>12
     DEF DriverStep, Turn, Speech, After

\* Every step of the call, seen from the gate.
LEMMA FloorStep ==
  ASSUME TypeInv, [Next]_vars
  PROVE  [Floor!FloorNext]_FloorVars
<1>1. UNCHANGED <<drv, conversing, stopped>> => UNCHANGED FloorVars
  BY DEF FloorVars, Talking
<1>2. ASSUME UNCHANGED <<drv, conversing>>, stopped' = TRUE
      PROVE  [Floor!FloorNext]_FloorVars
  <2>1. UNCHANGED Talking
    BY <1>2 DEF Talking
  <2>2. CASE stopped
    BY <1>1, <1>2, <2>2 DEF TypeInv, TypeOK
  <2>3. CASE ~stopped
    BY <1>2, <2>1, <2>3 DEF Floor!FloorNext, Floor!Stop, Talking
  <2> QED
    BY <2>2, <2>3
<1>3. (\E g \in Agents : BargeCommit(g)) \/ (\E g \in Bargers : BargeIn(g)) \/ HearSpeech
        \/ StartCapture \/ AnswerError => UNCHANGED <<drv, conversing, stopped>>
  BY DEF BargeCommit, BargeIn, HearSpeech, StartCapture, AnswerError, gateVars, callVars
<1>4. CASE AnswerCall
  <2>1. PICK r : drv' = [drv EXCEPT ![Answer] = r] /\ r.job # "final"
    <3>1. PICK to \in {"start", "listen", "end"} \cup Tools : \E pc \in {"open", "settle"} :
            drv' = [drv EXCEPT ![Answer] = [Rest EXCEPT !.pc = pc, !.job = "welcome",
                                              !.out = IF to = "listen" THEN "reply" ELSE to]]
      BY <1>4 DEF AnswerCall, TypeInv, TypeOK
    <3>2. PICK pc \in {"open", "settle"} :
            drv' = [drv EXCEPT ![Answer] = [Rest EXCEPT !.pc = pc, !.job = "welcome",
                                              !.out = IF to = "listen" THEN "reply" ELSE to]]
      BY <3>1
    <3>3. [Rest EXCEPT !.pc = pc, !.job = "welcome",
                       !.out = IF to = "listen" THEN "reply" ELSE to].job # "final"
      BY DEF Rest
    <3> QED
      BY <3>2, <3>3
  <2>2. UNCHANGED <<conversing, stopped>> /\ Answer \in Drivers
    BY <1>4 DEF AnswerCall, callVars, Drivers
  <2> QED
    BY <2>1, <2>2, Leaving DEF Floor!MayStop
<1>5. ASSUME NEW d \in Drivers, InjectFinal(d)
      PROVE  [Floor!FloorNext]_FloorVars
  <2>1. /\ drv' = [drv EXCEPT ![d] = [Rest EXCEPT !.pc = "start", !.job = "inject"]]
        /\ [Rest EXCEPT !.pc = "start", !.job = "inject"].job # "final"
    BY <1>5 DEF InjectFinal, Rest
  <2>2. UNCHANGED <<conversing, stopped>>
    BY <1>5 DEF InjectFinal, callVars
  <2> QED
    BY <2>1, <2>2, Leaving DEF Floor!MayStop
<1>6. ASSUME NEW d \in Drivers, ContextEnds(d)
      PROVE  UNCHANGED FloorVars
  <2>1. \A e \in Drivers : drv'[e].job = drv[e].job
    BY <1>6 DEF ContextEnds, TypeInv, TypeOK
  <2> QED
    BY <1>6, <2>1, SameJobs DEF ContextEnds, gateVars, callVars, FloorVars
<1>7. FailEnter \/ PlayFallback \/ FallbackHangup \/ FailRecord \/ LegGone
        => UNCHANGED <<drv, conversing, stopped>>
  BY DEF FailEnter, PlayFallback, FallbackHangup, FailRecord, LegGone, gateVars, callVars
<1>8. FailEnd \/ GoneStops \/ StopSession => UNCHANGED <<drv, conversing>> /\ stopped' = TRUE
  BY DEF FailEnd, GoneStops, StopSession, gateVars
<1>9. UNCHANGED vars => UNCHANGED <<drv, conversing, stopped>>
  BY DEF vars, gateVars, callVars
<1> QED
  BY <1>1, <1>2, <1>3, <1>4, <1>5, <1>6, <1>7, <1>8, <1>9, FloorOfDriver, Beginning
     DEF Next, FailStep

\* TurnMachine, KeepsToNeighbours: the leg, the gate and the cursor that the
\* turn machine stands in for are those that EdgeConn (EdgeIsALeg), MediaGate
\* (GateKeepsTheFloor) and FlowCursor (CursorWalks) implement.
THEOREM SeamsHold == Spec => KeepsToNeighbours
<1>1. Init => Leg!LegInit /\ Floor!FloorInit /\ Walk!WalkInit
  <2> SUFFICES ASSUME Init
               PROVE  Leg!LegInit /\ Floor!FloorInit /\ Walk!WalkInit
    OBVIOUS
  <2>1. Leg!LegInit
    BY DEF Init, Leg!LegInit, Tools
  <2>2. Walk!WalkInit
    BY DEF Init, Walk!WalkInit, Armed, Tools
  <2>3. Consumer \in Drivers /\ Answer \in Drivers
    BY DEF Drivers
  <2>4. Talking = {}
    BY <2>3 DEF Init, Rest, Talking
  <2> QED
    BY <2>1, <2>2, <2>4 DEF Init, Floor!FloorInit, Talking
<1>2. TypeInv /\ [Next]_vars => [Leg!Gone \/ Leg!Tell \/ Leg!Waste]_LegVars
  BY LegStep
<1>3. TypeInv /\ [Next]_vars => [Walk!Move]_WalkVars
  BY WalkStep
<1>4. TypeInv /\ [Next]_vars => [Floor!FloorNext]_FloorVars
  BY FloorStep
<1> QED
  BY TypeInvariant, <1>1, <1>2, <1>3, <1>4, PTL
     DEF Spec, KeepsToNeighbours, Leg!LegSpec, Walk!WalkSpec, Floor!FloorSpec, LegVars, WalkVars,
         FloorVars, Talking

-----------------------------------------------------------------------------
(* The prompts a failing call plays.                                       *)
\* Where an inode belongs: a prompt that was there at the start at its path, an
\* upload's at the slot it is uploaded to.
Home(n) == IF n \in Puts THEN put[n].slot ELSE n
Fresh(n) == n \in Puts /\ put[n].pc = "new"

\* An inode is only where it belongs, never at a path and its ".tmp" at once, and
\* nowhere before its upload has opened it.
PathPlaced(p) == file[p] # None => Home(file[p]) = p /\ ~Fresh(file[p]) /\ file[p] # tmp[p]
TmpPlaced(p) == tmp[p] # None => tmp[p] \in Puts /\ Home(tmp[p]) = p /\ ~Fresh(tmp[p])
PutPlaced(u) ==
  /\ put[u].pc \notin {"head", "tail"} => put[u].fd = None
  /\ put[u].fd # None =>
       put[u].fd \in Puts /\ Home(put[u].fd) = put[u].slot /\ ~Fresh(put[u].fd)
Placed == /\ \A p \in Paths : PathPlaced(p) /\ TmpPlaced(p)
          /\ \A u \in Puts : PutPlaced(u)

\* At a path that two uploads have not written at once, one of them writes, to
\* the temporary file, and has written there as much as it has come.
Alone(p) ==
  /\ \A u, v \in Puts : Writing(u) /\ Writing(v) /\ put[u].slot = p /\ put[v].slot = p => u = v
  /\ \A u \in Puts : Writing(u) /\ put[u].slot = p =>
       /\ put[u].pc # "remove" /\ tmp[p] # None
       /\ put[u].pc \in {"head", "tail"} => put[u].fd = tmp[p]
       /\ put[u].pc = "tail" => data[tmp[p]].head = u
       /\ put[u].pc = "rename" => data[tmp[p]] = Full(u)

\* What is installed is one upload, whole.
Whole(wav) == wav.head = wav.tail /\ Decodes(wav)
Installed(p) == file[p] # None => Whole(data[file[p]])

\* A time and size that were seen at the path: they stand for an inode nobody
\* writes to any more, and that is not put back once it has been replaced.
Known(p, seen) ==
  /\ seen \in Uploads \X Nat /\ Home(seen[1]) = p /\ ~Fresh(seen[1]) /\ tmp[p] # seen[1]
  /\ stamp[seen[1]] = seen[2]

Loading(c) == res[c].pc \in {"lookup", "read", "store"}

\* Sound that may be cached under a time and size: it is one upload, the one in
\* place if the time and size are those in place, and whoever has seen the same
\* and is about to look for it in the cache has had it in place meanwhile.
Entry(p, seen, wav) ==
  /\ Known(p, seen) /\ Whole(wav)
  /\ file[p] = seen[1] => wav = data[file[p]]
  /\ \A c \in Callers : res[c].pc = "lookup" /\ Path(c) = p /\ res[c].seen = seen => wav \in live[c]

Cached(p) == cache[p].seen # None => Entry(p, cache[p].seen, cache[p].wav)

Searching(c) ==
  /\ Loading(c) => Known(Path(c), res[c].seen)
  /\ res[c].pc = "store" => Entry(Path(c), res[c].seen, res[c].got) /\ res[c].got \in live[c]

\* Each candidate the search has passed was missing at some moment of it.
PassedGaps(c) ==
  /\ res[c].pc # "idle" => \A j \in 1 .. res[c].i - 1 : res[c].cands[j] \in gap[c] \cup clash
  /\ res[c].pc = "silent" => Range(res[c].cands) \subseteq gap[c] \cup clash

\* The types, with those of a search that PromptTypeOK leaves open.
PutRec == [pc : PutStates, slot : Slots, fd : Uploads \cup {None}]
Search == [pc : {"idle", "stat", "lookup", "read", "store", "served", "silent"},
           cands : Seq(Paths), i : Nat, seen : Stamps, got : Contents]
DiskTyped ==
  /\ file \in [Paths -> Uploads \cup {None}] /\ tmp \in [Paths -> Uploads \cup {None}]
  /\ data \in [Uploads -> Contents] /\ stamp \in [Uploads -> Nat]
  /\ put \in [Puts -> PutRec]
  /\ del \in [Deletes -> [pc : {"new", "remove", "done"}, slot : Slots]]
  /\ clash \subseteq Paths
CacheTyped ==
  /\ cache \in [Paths -> [seen : Stamps, wav : Contents]]
  /\ \A p \in Paths : cache[p].seen # None => Decodes(cache[p].wav)
SearchTyped ==
  /\ res \in [Callers -> Search]
  /\ \A c \in Callers : /\ res[c].pc # "idle" => res[c].i \in 1 .. Len(res[c].cands)
                        /\ Loading(c) => res[c].seen \in Uploads \X Nat
                        /\ res[c].pc = "store" => Decodes(res[c].got)
HistoryTyped == live \in [Callers -> SUBSET Contents] /\ gap \in [Callers -> SUBSET Paths]

PromptTyped == DiskTyped /\ CacheTyped /\ SearchTyped /\ HistoryTyped

PromptInv ==
  /\ PromptTyped /\ Placed
  /\ \A p \in Paths \ clash : Alone(p) /\ Installed(p) /\ Cached(p)
  /\ \A c \in Callers : res[c].pc # "idle" /\ Path(c) \notin clash => Searching(c)
  /\ \A c \in Callers : PassedGaps(c)
  /\ ServedIsCurrent

-----------------------------------------------------------------------------
(* The steps on disk, upload by upload.                                    *)
Others(u) == \A v \in Puts : v # u => put'[v] = put[v]
\* An upload goes on, with the inode it holds open.
Moves(u, to, fd) ==
  Others(u) /\ put'[u].pc = to /\ put'[u].fd = fd /\ put'[u].slot = put[u].slot
OneInode(n) == \A m \in Uploads : m # n => data'[m] = data[m] /\ stamp'[m] = stamp[m]
OnlyTmp(s) == file' = file /\ \A p \in Paths : p # s => tmp'[p] = tmp[p]
SameDisk == UNCHANGED <<file, tmp, data, stamp>>

Opens(u, s) ==
  /\ Fresh(u) /\ Moves(u, "head", tmp'[s]) /\ s = put[u].slot
  /\ tmp'[s] = IF tmp[s] = None THEN u ELSE tmp[s]
  /\ OnlyTmp(s) /\ OneInode(tmp'[s])
  /\ clash \subseteq clash'
  /\ s \notin clash' => \A v \in Puts : v # u /\ put[v].slot = s => ~Writing(v)
WritesHead(u) ==
  /\ put[u].pc = "head" /\ Moves(u, "tail", put[u].fd) /\ OneInode(put[u].fd)
  /\ put[u].fd \in Uploads => data'[put[u].fd].head = u
  /\ file' = file /\ tmp' = tmp /\ clash' = clash
WritesTail(u) ==
  /\ put[u].pc = "tail" /\ Moves(u, "rename", None) /\ OneInode(put[u].fd)
  /\ put[u].fd \in Uploads => data'[put[u].fd] = [head |-> data[put[u].fd].head, tail |-> u]
  /\ file' = file /\ tmp' = tmp /\ clash' = clash
Installs(u, s) ==
  /\ put[u].pc = "rename" /\ Moves(u, "drop", None) /\ s = put[u].slot /\ tmp[s] # None
  /\ file'[s] = tmp[s] /\ tmp'[s] = None
  /\ \A p \in Paths : p # s => file'[p] = file[p] /\ tmp'[p] = tmp[p]
  /\ data' = data /\ stamp' = stamp /\ clash' = clash
Misses(u, s) ==
  /\ put[u].pc = "rename" /\ Moves(u, "remove", None) /\ s = put[u].slot /\ tmp[s] = None
  /\ SameDisk /\ clash' = clash
Removes(u, s) ==
  /\ put[u].pc = "remove" /\ Moves(u, "failed", None) /\ s = put[u].slot
  /\ OnlyTmp(s) /\ tmp'[s] = None /\ data' = data /\ stamp' = stamp /\ clash' = clash
Stops(u) ==
  /\ \/ put[u].pc = "new" /\ Moves(u, "refused", None)
     \/ put[u].pc \in {"head", "tail"} /\ Moves(u, "failed", None)
     \/ put[u].pc = "drop" /\ Moves(u, "done", None)
  /\ SameDisk /\ clash' = clash
Unlinks(s) ==
  /\ file' \in {file, [file EXCEPT ![s] = None]} /\ tmp' = tmp /\ data' = data /\ stamp' = stamp
  /\ put' = put /\ clash' = clash
CacheDrops == \A p \in Paths : cache'[p] \in {cache[p], NotCached}

LEMMA PromptTypes == PromptTyped /\ Placed => PromptTypeOK
<1> SUFFICES ASSUME PromptTyped, Placed PROVE PromptTypeOK
  OBVIOUS
<1>1. \A p, q \in Paths :
        /\ p # q /\ file[p] # None => file[p] # file[q]
        /\ file[p] # None => file[p] # tmp[q]
  BY DEF Placed, PathPlaced, TmpPlaced
<1>2. \A c \in Callers :
        /\ res[c].pc \in {"idle", "stat", "lookup", "read", "store", "served", "silent"}
        /\ Range(res[c].cands) \subseteq Paths
        /\ res[c].pc # "idle" => res[c].i \in DOMAIN res[c].cands
  BY DEF PromptTyped, SearchTyped, Search, Range
<1> QED BY <1>1, <1>2 DEF PromptTyped, DiskTyped, CacheTyped, HistoryTyped, PutRec, PromptTypeOK

UploadShape(u) ==
  \/ Opens(u, put[u].slot) \/ WritesHead(u) \/ WritesTail(u) \/ Installs(u, put[u].slot)
  \/ Misses(u, put[u].slot) \/ Removes(u, put[u].slot) \/ Stops(u)

\* The record of an upload that goes on.
LEMMA PutAt ==
  ASSUME DiskTyped, NEW u \in Puts, NEW to \in PutStates, NEW fd \in Uploads \cup {None},
         \/ put' = [put EXCEPT ![u].pc = to, ![u].fd = fd]
         \/ put' = [put EXCEPT ![u].pc = to] /\ fd = put[u].fd
  PROVE  put' \in [Puts -> PutRec] /\ Moves(u, to, fd)
BY DEF DiskTyped, PutRec, Moves, Others

LEMMA UploadSteps ==
  ASSUME DiskTyped, Placed, CacheTyped, NEW u \in Puts, PutStep(u)
  PROVE  /\ DiskTyped' /\ CacheTyped' /\ UploadShape(u) /\ CacheDrops /\ res' = res
<1> DEFINE s == put[u].slot
<1>0. /\ put \in [Puts -> PutRec] /\ put[u] \in PutRec /\ s \in Paths /\ u \in Uploads
      /\ put[u].fd \in Uploads \cup {None} /\ None \in Uploads \cup {None}
      /\ None \notin Uploads /\ data \in [Uploads -> Contents] /\ stamp \in [Uploads -> Nat]
      /\ file \in [Paths -> Uploads \cup {None}] /\ tmp \in [Paths -> Uploads \cup {None}]
      /\ clash \subseteq Paths
      /\ {"refused", "head", "tail", "rename", "remove", "drop", "done", "failed"} \subseteq PutStates
  BY FallbackAssumption DEF DiskTyped, PutRec, Uploads, PutStates
<1>1. ASSUME cache' = cache PROVE CacheTyped' /\ CacheDrops
  BY <1>1 DEF CacheTyped, CacheDrops
<1>2. ASSUME put' \in [Puts -> PutRec], del' = del, clash' \subseteq Paths, SameDisk
      PROVE  DiskTyped'
  BY <1>2 DEF DiskTyped, SameDisk
<1>3. CASE Refuse(u)
  <2>1. /\ put[u].pc = "new" /\ put' = [put EXCEPT ![u].pc = "refused"]
        /\ SameDisk /\ UNCHANGED <<cache, del, res, clash>>
    BY <1>3 DEF Refuse, PutGoes, diskVars, SameDisk
  <2>2. put[u].fd = None
    BY <2>1 DEF Placed, PutPlaced
  <2>3. put' \in [Puts -> PutRec] /\ Moves(u, "refused", None)
    BY <1>0, <2>1, <2>2, PutAt
  <2>4. DiskTyped' /\ CacheTyped' /\ CacheDrops
    BY <1>0, <1>1, <1>2, <2>1, <2>3
  <2> QED BY <2>1, <2>3, <2>4 DEF UploadShape, Stops
<1>4. CASE OpenTmp(u)
  <2> DEFINE n == IF tmp[s] = None THEN u ELSE tmp[s]
  <2>1. /\ put[u].pc = "new" /\ tmp' = [tmp EXCEPT ![s] = n]
        /\ data' = [data EXCEPT ![n] = Blank] /\ stamp' = [stamp EXCEPT ![n] = @ + 1]
        /\ put' = [put EXCEPT ![u].pc = "head", ![u].fd = n]
        /\ UNCHANGED <<file, cache, del, res>>
    BY <1>4 DEF OpenTmp, Slot
  <2>2. clash' = IF \E v \in Puts \ {u} : put[v].slot = s /\ Writing(v)
                 THEN clash \cup {s} ELSE clash
    BY <1>4 DEF OpenTmp, Slot
  <2>3. n \in Uploads /\ tmp'[s] = n
    BY <1>0, <2>1
  <2> HIDE DEF n
  <2>4. put' \in [Puts -> PutRec] /\ Moves(u, "head", n)
    BY <1>0, <2>1, <2>3, PutAt
  <2>5. /\ tmp' \in [Paths -> Uploads \cup {None}] /\ OnlyTmp(s)
    BY <1>0, <2>1, <2>3 DEF OnlyTmp
  <2>6. data' \in [Uploads -> Contents] /\ stamp' \in [Uploads -> Nat] /\ OneInode(n)
    <3>1. Blank \in Contents
      BY DEF Blank, Contents
    <3> QED BY <1>0, <2>1, <2>3, <3>1 DEF OneInode
  <2>7. clash \subseteq clash' /\ clash' \subseteq Paths
    BY <1>0, <2>2
  <2>8. s \notin clash' => \A v \in Puts : v # u /\ put[v].slot = s => ~Writing(v)
    BY <1>0, <2>2
  <2>9. DiskTyped' /\ CacheTyped' /\ CacheDrops
    BY <1>0, <1>1, <2>1, <2>4, <2>5, <2>6, <2>7 DEF DiskTyped
  <2>10. Opens(u, s)
    BY <2>1, <2>3, <2>4, <2>5, <2>6, <2>7, <2>8 DEF Opens, Fresh, n
  <2> QED BY <2>1, <2>9, <2>10 DEF UploadShape
<1>5. CASE WriteHead(u)
  <2> DEFINE n == put[u].fd
  <2>1. /\ put[u].pc = "head" /\ put' = [put EXCEPT ![u].pc = "tail"]
        /\ data' = [data EXCEPT ![n].head = u] /\ stamp' = [stamp EXCEPT ![n] = @ + 1]
        /\ UNCHANGED <<file, tmp, cache, del, res, clash>>
    BY <1>5 DEF WriteHead, PutGoes
  <2>2. put' \in [Puts -> PutRec] /\ Moves(u, "tail", n)
    BY <1>0, <2>1, PutAt
  <2>3. /\ data' \in [Uploads -> Contents] /\ stamp' \in [Uploads -> Nat] /\ OneInode(n)
        /\ n \in Uploads => data'[n].head = u
    <3>1. /\ DOMAIN data' = Uploads /\ data' = [m \in Uploads |-> data'[m]]
          /\ \A m \in Uploads : data'[m] = IF m = n THEN [data[m] EXCEPT !.head = u] ELSE data[m]
      BY <1>0, <2>1
    <3>2. \A m \in Uploads : [data[m] EXCEPT !.head = u] \in Contents
      BY <1>0 DEF Contents
    <3>3. n \in Uploads => [data[n] EXCEPT !.head = u] = [head |-> u, tail |-> data[n].tail]
      BY <1>0 DEF Contents
    <3>4. data' \in [Uploads -> Contents]
      BY <1>0, <3>1, <3>2
    <3>5. /\ stamp' = [m \in Uploads |-> stamp'[m]]
          /\ \A m \in Uploads : stamp'[m] = IF m = n THEN stamp[m] + 1 ELSE stamp[m]
      BY <1>0, <2>1
    <3>6. \A m \in Uploads : stamp'[m] \in Nat
      BY <1>0, <3>5
    <3>7. stamp' \in [Uploads -> Nat]
      BY <3>5, <3>6
    <3>8. OneInode(n)
      BY <3>1, <3>5 DEF OneInode
    <3> QED BY <3>1, <3>3, <3>4, <3>7, <3>8
  <2>4. DiskTyped' /\ CacheTyped' /\ CacheDrops
    BY <1>0, <1>1, <2>1, <2>2, <2>3 DEF DiskTyped
  <2> QED BY <2>1, <2>2, <2>3, <2>4 DEF UploadShape, WritesHead
<1>6. CASE WriteTail(u)
  <2> DEFINE n == put[u].fd
  <2>1. /\ put[u].pc = "tail" /\ put' = [put EXCEPT ![u].pc = "rename", ![u].fd = None]
        /\ data' = [data EXCEPT ![n].tail = u] /\ stamp' = [stamp EXCEPT ![n] = @ + 1]
        /\ UNCHANGED <<file, tmp, cache, del, res, clash>>
    BY <1>6 DEF WriteTail
  <2>2. put' \in [Puts -> PutRec] /\ Moves(u, "rename", None)
    BY <1>0, <2>1, PutAt
  <2>3. /\ data' \in [Uploads -> Contents] /\ stamp' \in [Uploads -> Nat] /\ OneInode(n)
        /\ n \in Uploads => data'[n] = [head |-> data[n].head, tail |-> u]
    <3>1. /\ DOMAIN data' = Uploads /\ data' = [m \in Uploads |-> data'[m]]
          /\ \A m \in Uploads : data'[m] = IF m = n THEN [data[m] EXCEPT !.tail = u] ELSE data[m]
      BY <1>0, <2>1
    <3>2. \A m \in Uploads : [data[m] EXCEPT !.tail = u] \in Contents
      BY <1>0 DEF Contents
    <3>3. n \in Uploads => [data[n] EXCEPT !.tail = u] = [head |-> data[n].head, tail |-> u]
      BY <1>0 DEF Contents
    <3>4. data' \in [Uploads -> Contents]
      BY <1>0, <3>1, <3>2
    <3>5. /\ stamp' = [m \in Uploads |-> stamp'[m]]
          /\ \A m \in Uploads : stamp'[m] = IF m = n THEN stamp[m] + 1 ELSE stamp[m]
      BY <1>0, <2>1
    <3>6. \A m \in Uploads : stamp'[m] \in Nat
      BY <1>0, <3>5
    <3>7. stamp' \in [Uploads -> Nat]
      BY <3>5, <3>6
    <3>8. OneInode(n)
      BY <3>1, <3>5 DEF OneInode
    <3> QED BY <3>1, <3>3, <3>4, <3>7, <3>8
  <2>4. DiskTyped' /\ CacheTyped' /\ CacheDrops
    BY <1>0, <1>1, <2>1, <2>2, <2>3 DEF DiskTyped
  <2> QED BY <2>1, <2>2, <2>3, <2>4 DEF UploadShape, WritesTail
<1>7. CASE WriteFails(u)
  <2>1. /\ put[u].pc \in {"head", "tail"} /\ put' = [put EXCEPT ![u].pc = "failed", ![u].fd = None]
        /\ SameDisk /\ UNCHANGED <<cache, del, res, clash>>
    BY <1>7 DEF WriteFails, diskVars, SameDisk
  <2>3. put' \in [Puts -> PutRec] /\ Moves(u, "failed", None)
    BY <1>0, <2>1, PutAt
  <2>4. DiskTyped' /\ CacheTyped' /\ CacheDrops
    BY <1>0, <1>1, <1>2, <2>1, <2>3
  <2> QED BY <2>1, <2>3, <2>4 DEF UploadShape, Stops
<1>8. CASE Rename(u)
  <2>1. /\ put[u].pc = "rename" /\ UNCHANGED <<data, stamp, cache, del, res, clash>>
        /\ put[u].fd = None
    BY <1>8 DEF Rename, Placed, PutPlaced
  <2>2. CASE tmp[s] = None
    <3>1. put' = [put EXCEPT ![u].pc = "remove"] /\ SameDisk
      BY <1>8, <2>2 DEF Rename, PutGoes, Slot, SameDisk
    <3>2. put' \in [Puts -> PutRec] /\ Moves(u, "remove", None)
      BY <1>0, <2>1, <3>1, PutAt
    <3>3. DiskTyped' /\ CacheTyped' /\ CacheDrops
      BY <1>0, <1>1, <1>2, <2>1, <3>1, <3>2
    <3> QED BY <2>1, <2>2, <3>1, <3>2, <3>3 DEF UploadShape, Misses
  <2>3. CASE tmp[s] # None
    <3>1. /\ put' = [put EXCEPT ![u].pc = "drop"]
          /\ file' = [file EXCEPT ![s] = tmp[s]] /\ tmp' = [tmp EXCEPT ![s] = None]
      BY <1>8, <2>3 DEF Rename, PutGoes, Slot
    <3>2. put' \in [Puts -> PutRec] /\ Moves(u, "drop", None)
      BY <1>0, <2>1, <3>1, PutAt
    <3>3. /\ file' \in [Paths -> Uploads \cup {None}] /\ tmp' \in [Paths -> Uploads \cup {None}]
          /\ file'[s] = tmp[s] /\ tmp'[s] = None
          /\ \A p \in Paths : p # s => file'[p] = file[p] /\ tmp'[p] = tmp[p]
      BY <1>0, <3>1
    <3>4. DiskTyped' /\ CacheTyped' /\ CacheDrops
      BY <1>0, <1>1, <2>1, <3>2, <3>3 DEF DiskTyped
    <3> QED BY <2>1, <2>3, <3>2, <3>3, <3>4 DEF UploadShape, Installs
  <2> QED BY <2>2, <2>3
<1>9. CASE RemoveTmp(u)
  <2>1. /\ put[u].pc = "remove" /\ put' = [put EXCEPT ![u].pc = "failed"] /\ put[u].fd = None
        /\ tmp' = [tmp EXCEPT ![s] = None]
        /\ UNCHANGED <<file, data, stamp, cache, del, res, clash>>
    BY <1>9 DEF RemoveTmp, PutGoes, Slot, Placed, PutPlaced
  <2>2. put' \in [Puts -> PutRec] /\ Moves(u, "failed", None)
    BY <1>0, <2>1, PutAt
  <2>3. tmp' \in [Paths -> Uploads \cup {None}] /\ OnlyTmp(s) /\ tmp'[s] = None
    BY <1>0, <2>1 DEF OnlyTmp
  <2>4. DiskTyped' /\ CacheTyped' /\ CacheDrops
    BY <1>0, <1>1, <2>1, <2>2, <2>3 DEF DiskTyped
  <2> QED BY <2>1, <2>2, <2>3, <2>4 DEF UploadShape, Removes
<1>10. CASE DropCached(u)
  <2>1. /\ put[u].pc = "drop" /\ put' = [put EXCEPT ![u].pc = "done"] /\ put[u].fd = None
        /\ cache' = [cache EXCEPT ![s] = NotCached]
        /\ SameDisk /\ UNCHANGED <<del, res, clash>>
    BY <1>10 DEF DropCached, PutGoes, Slot, diskVars, SameDisk, Placed, PutPlaced
  <2>2. put' \in [Puts -> PutRec] /\ Moves(u, "done", None)
    BY <1>0, <2>1, PutAt
  <2>3. CacheTyped' /\ CacheDrops
    BY <1>0, <2>1 DEF CacheTyped, CacheDrops, NotCached, Stamps, Contents, Blank
  <2>4. DiskTyped'
    BY <1>0, <1>2, <2>1, <2>2
  <2> QED BY <2>1, <2>2, <2>3, <2>4 DEF UploadShape, Stops
<1> QED BY <1>3, <1>4, <1>5, <1>6, <1>7, <1>8, <1>9, <1>10 DEF PutStep

LEMMA DeleteSteps ==
  ASSUME DiskTyped, CacheTyped, NEW d \in Deletes, DeleteCached(d) \/ DeleteFile(d)
  PROVE  /\ DiskTyped' /\ CacheTyped' /\ CacheDrops /\ res' = res
         /\ \E s \in Paths : Unlinks(s)
<1> DEFINE s == del[d].slot
<1>0. /\ s \in Paths /\ file \in [Paths -> Uploads \cup {None}]
      /\ del \in [Deletes -> [pc : {"new", "remove", "done"}, slot : Slots]]
  BY FallbackAssumption DEF DiskTyped
<1>1. CASE DeleteCached(d)
  <2>1. /\ cache' = [cache EXCEPT ![s] = NotCached] /\ del' = [del EXCEPT ![d].pc = "remove"]
        /\ UNCHANGED <<file, tmp, data, stamp, put, res, clash>>
    BY <1>1 DEF DeleteCached, diskVars
  <2>2. CacheTyped' /\ CacheDrops
    BY <1>0, <2>1 DEF CacheTyped, CacheDrops, NotCached, Stamps, Contents, Blank
  <2>3. DiskTyped'
    BY <1>0, <2>1 DEF DiskTyped
  <2> QED BY <1>0, <2>1, <2>2, <2>3 DEF Unlinks
<1>2. CASE DeleteFile(d)
  <2>1. /\ file' = [file EXCEPT ![s] = None] /\ del' = [del EXCEPT ![d].pc = "done"]
        /\ UNCHANGED <<tmp, data, stamp, cache, put, res, clash>>
    BY <1>2 DEF DeleteFile
  <2>2. CacheTyped' /\ CacheDrops
    BY <2>1 DEF CacheTyped, CacheDrops
  <2>3. DiskTyped'
    BY <1>0, <2>1 DEF DiskTyped
  <2> QED BY <1>0, <2>1, <2>2, <2>3 DEF Unlinks
<1> QED BY <1>1, <1>2
\* No inode changes its home, and none is fresh again.
LEMMA HomesStay ==
  ASSUME DiskTyped, DiskTyped', NEW u \in Puts, UploadShape(u)
  PROVE  /\ \A v \in Puts : put'[v].slot = put[v].slot /\ (put'[v].pc = "new" => put[v].pc = "new")
         /\ \A n \in Uploads : Home(n)' = Home(n) /\ (Fresh(n)' => Fresh(n))
<1>0. put'[u].slot = put[u].slot /\ put'[u].pc # "new" /\ Others(u)
  <2>1. CASE Opens(u, put[u].slot)
    BY <2>1 DEF Opens, Moves
  <2>2. CASE WritesHead(u) \/ WritesTail(u)
    BY <2>2 DEF WritesHead, WritesTail, Moves
  <2>3. CASE Installs(u, put[u].slot) \/ Misses(u, put[u].slot) \/ Removes(u, put[u].slot)
    BY <2>3 DEF Installs, Misses, Removes, Moves
  <2>4. CASE Stops(u)
    BY <2>4 DEF Stops, Moves
  <2> QED BY <2>1, <2>2, <2>3, <2>4 DEF UploadShape
<1>1. \A v \in Puts : put'[v].slot = put[v].slot /\ (put'[v].pc = "new" => put[v].pc = "new")
  BY <1>0 DEF Others
<1> QED BY <1>1 DEF Home, Fresh

LEMMA PlacedStep ==
  ASSUME DiskTyped, DiskTyped', Placed, NEW u \in Puts, UploadShape(u)
  PROVE  Placed'
<1> DEFINE s == put[u].slot
<1>0. /\ s \in Paths /\ u \in Uploads /\ None \notin Uploads /\ None \notin Puts
      /\ \A p \in Paths : /\ file[p] \in Uploads \cup {None} /\ file'[p] \in Uploads \cup {None}
                          /\ tmp[p] \in Uploads \cup {None} /\ tmp'[p] \in Uploads \cup {None}
      /\ \A v \in Puts : put[v].fd \in Uploads \cup {None} /\ put'[v].fd \in Uploads \cup {None}
  BY FallbackAssumption DEF DiskTyped, PutRec, Uploads
<1>h. \A v \in Puts : put'[v].slot = put[v].slot /\ (put'[v].pc = "new" => put[v].pc = "new")
  BY HomesStay
<1>f. \A p \in Paths : file'[p] = file[p] /\ tmp'[p] = tmp[p] => PathPlaced(p)' /\ TmpPlaced(p)'
  BY <1>h DEF Placed, PathPlaced, TmpPlaced, Home, Fresh
<1>v. \A v \in Puts : put'[v] = put[v] => PutPlaced(v)'
  BY <1>h DEF Placed, PutPlaced, Home, Fresh
<1>1. CASE Opens(u, s)
  <2>1. /\ file' = file /\ \A p \in Paths : p # s => tmp'[p] = tmp[p]
        /\ \A v \in Puts : v # u => put'[v] = put[v]
        /\ put[u].pc = "new" /\ put'[u].pc = "head" /\ put'[u].fd = tmp'[s]
        /\ tmp'[s] = IF tmp[s] = None THEN u ELSE tmp[s]
    BY <1>1 DEF Opens, OnlyTmp, Moves, Others, Fresh
  <2>2. TmpPlaced(s)'
    BY <1>0, <1>h, <2>1 DEF Placed, TmpPlaced, Home, Fresh
  <2>3. PathPlaced(s)'
    BY <1>0, <1>h, <2>1 DEF Placed, PathPlaced, TmpPlaced, Home, Fresh
  <2>4. PutPlaced(u)'
    BY <1>0, <1>h, <2>1, <2>2 DEF PutPlaced, TmpPlaced, Home, Fresh
  <2> QED BY <1>f, <1>h, <1>v, <2>1, <2>2, <2>3, <2>4 DEF Placed
<1>2. CASE WritesHead(u) \/ WritesTail(u) \/ Misses(u, s) \/ Stops(u)
  <2>1. /\ file' = file /\ tmp' = tmp /\ (put'[u].fd = None \/ put'[u].fd = put[u].fd)
        /\ put'[u].pc \notin {"head", "tail"} => put'[u].fd = None
        /\ \A v \in Puts : v # u => put'[v] = put[v]
    BY <1>2 DEF WritesHead, WritesTail, Misses, Stops, SameDisk, Moves, Others
  <2>2. PutPlaced(u)'
    BY <1>h, <2>1 DEF Placed, PutPlaced, Home, Fresh
  <2> QED BY <1>f, <1>h, <1>v, <2>1, <2>2 DEF Placed
<1>3. CASE Installs(u, s)
  <2>1. /\ put'[u].fd = None /\ file'[s] = tmp[s] /\ tmp'[s] = None /\ tmp[s] # None
        /\ \A p \in Paths : p # s => file'[p] = file[p] /\ tmp'[p] = tmp[p]
        /\ \A v \in Puts : v # u => put'[v] = put[v]
    BY <1>3 DEF Installs, Moves, Others
  <2>2. PathPlaced(s)' /\ TmpPlaced(s)'
    BY <1>0, <1>h, <2>1 DEF Placed, PathPlaced, TmpPlaced, Home, Fresh
  <2>3. PutPlaced(u)'
    BY <2>1 DEF PutPlaced
  <2> QED BY <1>f, <1>h, <1>v, <2>1, <2>2, <2>3 DEF Placed
<1>4. CASE Removes(u, s)
  <2>1. /\ put'[u].fd = None /\ file' = file /\ tmp'[s] = None
        /\ \A p \in Paths : p # s => tmp'[p] = tmp[p]
        /\ \A v \in Puts : v # u => put'[v] = put[v]
    BY <1>4 DEF Removes, OnlyTmp, Moves, Others
  <2>2. PathPlaced(s)' /\ TmpPlaced(s)'
    BY <1>0, <1>h, <2>1 DEF Placed, PathPlaced, TmpPlaced, Home, Fresh
  <2>3. PutPlaced(u)'
    BY <2>1 DEF PutPlaced
  <2> QED BY <1>f, <1>h, <1>v, <2>1, <2>2, <2>3 DEF Placed
<1> QED BY <1>1, <1>2, <1>3, <1>4 DEF UploadShape

\* An inode that has left the temporary file of a path without a clash is not
\* written to, and does not come back once it has been replaced.
LEMMA Frozen ==
  ASSUME DiskTyped, DiskTyped', Placed, NEW u \in Puts, UploadShape(u),
         NEW p \in Paths \ clash', Alone(p),
         NEW n \in Uploads, Home(n) = p, ~Fresh(n), tmp[p] # n
  PROVE  /\ data'[n] = data[n] /\ stamp'[n] = stamp[n]
         /\ Home(n)' = p /\ ~Fresh(n)' /\ tmp'[p] # n /\ (file'[p] = n => file[p] = n)
<1> DEFINE s == put[u].slot
<1>0. /\ s \in Paths /\ None \notin Uploads /\ Home(u) = s /\ u \in Uploads
      /\ Home(n)' = p /\ ~Fresh(n)'
  BY HomesStay, FallbackAssumption DEF DiskTyped, PutRec, Uploads, Home
<1>1. CASE Opens(u, s)
  <2>1. /\ tmp'[s] = (IF tmp[s] = None THEN u ELSE tmp[s]) /\ OnlyTmp(s)
        /\ OneInode(tmp'[s]) /\ Fresh(u)
    BY <1>1 DEF Opens
  <2>2. tmp'[s] # n
    BY <1>0, <2>1 DEF Placed, PathPlaced, TmpPlaced, PutPlaced
  <2> QED BY <1>0, <2>1, <2>2 DEF OnlyTmp, OneInode
<1>2. CASE WritesHead(u) \/ WritesTail(u)
  <2>1. put[u].pc \in {"head", "tail"} /\ OneInode(put[u].fd) /\ file' = file /\ tmp' = tmp
    BY <1>2 DEF WritesHead, WritesTail
  <2>2. put[u].fd # n
    BY <1>0, <2>1 DEF Placed, PathPlaced, TmpPlaced, PutPlaced, Alone, Writing
  <2> QED BY <1>0, <2>1, <2>2 DEF OneInode
<1>3. CASE Installs(u, s)
  BY <1>0, <1>3 DEF Installs
<1>4. CASE Removes(u, s) \/ Misses(u, s) \/ Stops(u)
  BY <1>0, <1>4 DEF Removes, Misses, Stops, OnlyTmp, SameDisk
<1> QED BY <1>1, <1>2, <1>3, <1>4 DEF UploadShape

KeepsPath(p) ==
  /\ Alone(p)' /\ Installed(p)'
  /\ \A seen \in Uploads \X Nat : Known(p, seen) =>
       Known(p, seen)' /\ (file'[p] = seen[1] => file[p] = seen[1] /\ data'[file'[p]] = data[file[p]])

LEMMA AloneStep ==
  ASSUME DiskTyped, DiskTyped', Placed, NEW u \in Puts, UploadShape(u),
         NEW p \in Paths \ clash', Alone(p)
  PROVE  Alone(p)'
<1> DEFINE s == put[u].slot
<1>0. /\ s \in Paths /\ None \notin Uploads /\ Home(u) = s /\ u \in Uploads
      /\ \A v \in Puts : put'[v].slot = put[v].slot
      /\ \A v \in Puts : v # u => put'[v] = put[v] /\ (Writing(v)' <=> Writing(v))
  BY HomesStay, FallbackAssumption
     DEF DiskTyped, PutRec, Uploads, Home, UploadShape, Opens, WritesHead, WritesTail, Installs,
         Misses, Removes, Stops, Moves, Others, Writing
<1>a. ASSUME \/ Writing(u)' => Writing(u) \/ s # p
             \/ \A v \in Puts : v # u /\ put[v].slot = p => ~Writing(v)
      PROVE  \A v, w \in Puts : /\ Writing(v)' /\ Writing(w)' /\ put'[v].slot = p /\ put'[w].slot = p
                                => v = w
  BY <1>0, <1>a DEF Alone
<1>1. CASE s # p
  <2>1. tmp[p] # None => tmp[p] \in Uploads /\ Home(tmp[p]) = p
    BY DEF Placed, PathPlaced, TmpPlaced, PutPlaced, Uploads
  <2>2. tmp'[p] = tmp[p] /\ (tmp[p] # None => data'[tmp[p]] = data[tmp[p]])
    <3>1. CASE Opens(u, s)
      <4>1. Home(tmp'[s]) = s
        BY <1>0, <3>1 DEF Opens, Placed, PathPlaced, TmpPlaced, PutPlaced
      <4> QED BY <1>1, <2>1, <3>1, <4>1 DEF Opens, OnlyTmp, OneInode
    <3>2. CASE WritesHead(u) \/ WritesTail(u)
      <4>1. put[u].fd # None => Home(put[u].fd) = s
        BY DEF Placed, PathPlaced, TmpPlaced, PutPlaced
      <4> QED BY <1>0, <1>1, <2>1, <3>2, <4>1 DEF WritesHead, WritesTail, OneInode
    <3>3. CASE Installs(u, s) \/ Removes(u, s) \/ Misses(u, s) \/ Stops(u)
      BY <1>1, <3>3 DEF Installs, Removes, Misses, Stops, OnlyTmp, SameDisk
    <3> QED BY <3>1, <3>2, <3>3 DEF UploadShape
  <2> QED BY <1>0, <1>1, <1>a, <2>2 DEF Alone
<1>2. CASE s = p
  <2>a. ASSUME ~Writing(u)' PROVE Alone(p)'
    <3>1. Writing(u) => \A v \in Puts : v # u /\ put[v].slot = p => ~Writing(v)
      BY <1>2 DEF Alone
    <3>2. CASE Writing(u)
      <4>1. \A v \in Puts : put'[v].slot = p => ~Writing(v)'
        BY <1>0, <2>a, <3>1, <3>2
      <4> QED BY <4>1 DEF Alone
    <3>3. CASE ~Writing(u)
      <4>1. SameDisk
        BY <3>3, <2>a DEF UploadShape, Opens, WritesHead, WritesTail, Installs, Misses, Removes,
                     Stops, Writing, Fresh, Moves
      <4> QED BY <1>0, <1>a, <2>a, <4>1 DEF Alone, SameDisk
    <3> QED BY <3>2, <3>3
  <2>1. CASE Opens(u, s)
    <3>1. \A v \in Puts : v # u /\ put[v].slot = p => ~Writing(v)
      BY <1>2, <2>1 DEF Opens
    <3>2. put'[u].pc = "head" /\ put'[u].fd = tmp'[p] /\ tmp'[p] # None
      BY <1>0, <1>2, <2>1 DEF Opens, Moves
    <3> QED BY <1>0, <1>2, <1>a, <3>1, <3>2 DEF Alone
  <2>2. CASE WritesHead(u)
    <3>1. put[u].fd = tmp[p] /\ tmp[p] # None /\ tmp[p] \in Uploads /\ Writing(u)
      BY <1>2, <2>2 DEF WritesHead, Alone, Writing, DiskTyped
    <3>2. put'[u].pc = "tail" /\ put'[u].fd = tmp'[p] /\ tmp' = tmp /\ data'[tmp'[p]].head = u
      BY <2>2, <3>1 DEF WritesHead, Moves
    <3>3. \A v \in Puts : v # u /\ put[v].slot = p => ~Writing(v)
      BY <1>2, <3>1 DEF Alone
    <3> QED BY <1>0, <1>2, <1>a, <3>1, <3>2, <3>3 DEF Alone
  <2>3. CASE WritesTail(u)
    <3>1. /\ put[u].fd = tmp[p] /\ tmp[p] # None /\ tmp[p] \in Uploads /\ Writing(u)
          /\ data[tmp[p]].head = u
      BY <1>2, <2>3 DEF WritesTail, Alone, Writing, DiskTyped
    <3>2. put'[u].pc = "rename" /\ tmp' = tmp /\ data'[tmp'[p]] = Full(u)
      BY <2>3, <3>1 DEF WritesTail, Moves, Full
    <3>3. \A v \in Puts : v # u /\ put[v].slot = p => ~Writing(v)
      BY <1>2, <3>1 DEF Alone
    <3> QED BY <1>0, <1>2, <1>a, <3>1, <3>2, <3>3 DEF Alone
  <2>4. CASE Installs(u, s) \/ Stops(u)
    <3>1. ~Writing(u)'
      BY <2>4 DEF Installs, Stops, Moves, Writing
    <3> QED BY <2>a, <3>1
  <2>5. ~Misses(u, s) /\ ~Removes(u, s)
    BY <1>2 DEF Misses, Removes, Alone, Writing
  <2> QED BY <2>1, <2>2, <2>3, <2>4, <2>5 DEF UploadShape
<1> QED BY <1>1, <1>2

LEMMA UploadKeeps ==
  ASSUME DiskTyped, DiskTyped', Placed, NEW u \in Puts, UploadShape(u),
         NEW p \in Paths \ clash', Alone(p), Installed(p)
  PROVE  KeepsPath(p)
<1> DEFINE s == put[u].slot
<1>0. None \notin Uploads /\ u \in Uploads /\ u # None
  BY FallbackAssumption DEF Uploads
<1>1. Installed(p)'
  <2>1. CASE Installs(u, s) /\ s = p
    <3>1. data'[file'[p]] = Full(u)
      BY <2>1 DEF Installs, Alone, Writing
    <3> QED BY <1>0, <3>1 DEF Installed, Whole, Full, Decodes
  <2>2. CASE ~(Installs(u, s) /\ s = p)
    <3>1. file'[p] = file[p]
      BY <2>2 DEF UploadShape, Opens, WritesHead, WritesTail, Installs, Misses, Removes, Stops,
                  OnlyTmp, SameDisk
    <3>2. file[p] # None => data'[file[p]] = data[file[p]]
      BY Frozen DEF Placed, PathPlaced, TmpPlaced, PutPlaced, DiskTyped
    <3> QED BY <3>1, <3>2 DEF Installed
  <2> QED BY <2>1, <2>2
<1>2. ASSUME NEW seen \in Uploads \X Nat, Known(p, seen)
      PROVE  /\ Known(p, seen)'
             /\ file'[p] = seen[1] => file[p] = seen[1] /\ data'[file'[p]] = data[file[p]]
  <2>1. seen[1] \in Uploads
    OBVIOUS
  <2>2. /\ data'[seen[1]] = data[seen[1]] /\ stamp'[seen[1]] = stamp[seen[1]]
        /\ Home(seen[1])' = p /\ ~Fresh(seen[1])' /\ tmp'[p] # seen[1]
        /\ file'[p] = seen[1] => file[p] = seen[1]
    BY <1>2, <2>1, Frozen DEF Known
  <2> QED BY <1>2, <2>1, <2>2 DEF Known
<1> QED BY <1>1, <1>2, AloneStep DEF KeepsPath

LEMMA UnlinkKeeps ==
  ASSUME DiskTyped, DiskTyped', Placed, NEW s \in Paths, Unlinks(s)
  PROVE  /\ Placed'
         /\ \A p \in Paths \ clash' : Alone(p) /\ Installed(p) => KeepsPath(p)
<1>1. /\ \A p \in Paths : file'[p] = file[p] \/ file'[p] = None
      /\ UNCHANGED <<tmp, data, stamp, put, clash>>
  BY DEF Unlinks, DiskTyped
<1>2. None \notin Uploads
  BY FallbackAssumption DEF Uploads
<1>3. Placed'
  BY <1>1 DEF Placed, PathPlaced, TmpPlaced, PutPlaced, Home, Fresh
<1>4. ASSUME NEW p \in Paths, Alone(p), Installed(p) PROVE KeepsPath(p)
  <2>1. Alone(p)'
    BY <1>1, <1>4 DEF Alone, Writing
  <2>2. Installed(p)'
    BY <1>1, <1>4 DEF Installed
  <2>3. ASSUME NEW seen \in Uploads \X Nat, Known(p, seen)
        PROVE  /\ Known(p, seen)'
               /\ file'[p] = seen[1] => file[p] = seen[1] /\ data'[file'[p]] = data[file[p]]
    BY <1>1, <1>2, <2>3 DEF Known, Home, Fresh
  <2> QED BY <2>1, <2>2, <2>3 DEF KeepsPath
<1> QED BY <1>3, <1>4

\* A step of a search leaves the disk and the uploads alone.
LEMMA SearchKeeps ==
  ASSUME SameDisk, UNCHANGED <<put, clash>>
  PROVE  /\ Placed => Placed'
         /\ \A p \in Paths : Alone(p) /\ Installed(p) => KeepsPath(p)
BY DEF SameDisk, Placed, PathPlaced, TmpPlaced, PutPlaced, Home, Fresh, KeepsPath, Alone, Writing, Installed, Known

-----------------------------------------------------------------------------
(* The steps of a search.                                                  *)
Alike(c) == /\ \A e \in Callers : e # c => res'[e] = res[e]
            /\ res'[c].cands = res[c].cands
Stays(c) == Alike(c) /\ res'[c].i = res[c].i

Starts(c) ==
  /\ res[c].pc \in {"idle", "served", "silent"} /\ res'[c].pc = "stat" /\ res'[c].i = 1
  /\ \A e \in Callers : e # c => res'[e] = res[e]
  /\ cache' = cache
Finds(c) ==
  /\ res[c].pc = "stat" /\ file[Path(c)] # None
  /\ Stays(c) /\ res'[c].pc = "lookup" /\ res'[c].got = res[c].got
  /\ res'[c].seen = <<file[Path(c)], stamp[file[Path(c)]]>>
  /\ cache' = cache
Passes(c) ==
  /\ res[c].pc \in {"stat", "read"}
  /\ file[Path(c)] = None \/ ~Decodes(data[file[Path(c)]])
  /\ Alike(c) /\ res'[c].seen = res[c].seen /\ res'[c].got = res[c].got
  /\ \/ res[c].i = Len(res[c].cands) /\ res'[c].pc = "silent" /\ res'[c].i = res[c].i
     \/ res[c].i # Len(res[c].cands) /\ res'[c].pc = "stat" /\ res'[c].i = res[c].i + 1
  /\ cache' = cache
Hits(c) ==
  /\ res[c].pc = "lookup" /\ cache[Path(c)].seen = res[c].seen
  /\ Stays(c) /\ res'[c].pc = "served" /\ res'[c].seen = res[c].seen
  /\ res'[c].got = cache[Path(c)].wav
  /\ cache' = cache
Overlooks(c) ==
  /\ res[c].pc = "lookup"
  /\ Stays(c) /\ res'[c].pc = "read" /\ res'[c].seen = res[c].seen /\ res'[c].got = res[c].got
  /\ cache' = cache
Reads(c) ==
  /\ res[c].pc = "read" /\ file[Path(c)] # None /\ Decodes(data[file[Path(c)]])
  /\ Stays(c) /\ res'[c].pc = "store" /\ res'[c].seen = res[c].seen
  /\ res'[c].got = data[file[Path(c)]]
  /\ cache' = cache
Keeps(c, p) ==
  /\ res[c].pc = "store" /\ p = Path(c)
  /\ Stays(c) /\ res'[c].pc = "served" /\ res'[c].seen = res[c].seen /\ res'[c].got = res[c].got
  /\ cache'[p] = [seen |-> res[c].seen, wav |-> res[c].got]
  /\ \A q \in Paths : q # p => cache'[q] = cache[q]

SearchShape(c) ==
  \/ Starts(c) \/ Finds(c) \/ Passes(c) \/ Hits(c) \/ Overlooks(c) \/ Reads(c) \/ Keeps(c, Path(c))

LEMMA CandidatesArePaths ==
  ASSUME NEW dir \in Dirs, NEW sc \in Scenarios
  PROVE  Candidates(dir, sc) \in Seq(Paths) /\ Len(Candidates(dir, sc)) = 4
<1>1. /\ <<dir, sc>> \in Paths /\ <<dir, "generic">> \in Paths
      /\ <<Default, sc>> \in Paths /\ <<Default, "generic">> \in Paths
  BY FallbackAssumption DEF Paths, Scenarios
<1> QED BY <1>1 DEF Candidates

LEMMA ResolveStep ==
  ASSUME SearchTyped, NEW c \in Callers, NEW cands \in Seq(Paths), Len(cands) > 0, Resolve(c, cands)
  PROVE  Starts(c) /\ SearchTyped'
<1> DEFINE r == [Idle EXCEPT !.pc = "stat", !.cands = cands]
<1>1. res[c].pc \in {"idle", "served", "silent"} /\ cache' = cache /\ res' = [res EXCEPT ![c] = r]
  BY DEF Resolve
<1>2. Idle \in Search
  BY DEF Idle, Search, Stamps, Blank, Contents
<1>3. r.pc = "stat" /\ r.cands = cands /\ r.i = 1
  BY DEF Idle
<1>4. r \in Search
  BY <1>2 DEF Search
<1> HIDE DEF r
<1>5. /\ res' \in [Callers -> Search] /\ res'[c] = r
      /\ \A e \in Callers : e # c => res'[e] = res[e]
  BY <1>1, <1>4 DEF SearchTyped
<1>6. Starts(c)
  BY <1>1, <1>3, <1>5 DEF Starts
<1>7. 1 \in 1 .. Len(cands)
  OBVIOUS
<1>8. SearchTyped'
  BY <1>3, <1>5, <1>7 DEF SearchTyped, Loading
<1> QED BY <1>6, <1>8

\* A search goes on, with one record changed.
LEMMA SearchMoves ==
  ASSUME SearchTyped, NEW c \in Callers, NEW r \in Search, res' = [res EXCEPT ![c] = r],
         r.pc # "idle", r.i \in 1 .. Len(r.cands),
         r.pc \in {"lookup", "read", "store"} => r.seen \in Uploads \X Nat,
         r.pc = "store" => Decodes(r.got)
  PROVE  /\ SearchTyped' /\ res'[c] = r
         /\ \A e \in Callers : e # c => res'[e] = res[e]
<1>1. /\ res' \in [Callers -> Search] /\ res'[c] = r
      /\ \A e \in Callers : e # c => res'[e] = res[e]
  BY DEF SearchTyped
<1>2. SearchTyped'
  BY <1>1 DEF SearchTyped, Loading
<1> QED BY <1>1, <1>2

LEMMA WidenedStep ==
  ASSUME SearchTyped, NEW c \in Callers, res[c].pc \in {"stat", "read"}, res' = Widened(c),
         file[Path(c)] = None \/ ~Decodes(data[file[Path(c)]]), cache' = cache
  PROVE  Passes(c) /\ SearchTyped'
<1>0. res[c] \in Search /\ res[c].i \in 1 .. Len(res[c].cands) /\ Len(res[c].cands) \in Nat
  BY DEF SearchTyped, Search
<1>1. CASE res[c].i = Len(res[c].cands)
  <2> DEFINE r == [res[c] EXCEPT !.pc = "silent"]
  <2>1. res' = [res EXCEPT ![c] = r]
    BY <1>1 DEF Widened
  <2>2. /\ r \in Search /\ r.pc = "silent" /\ r.i = res[c].i /\ r.cands = res[c].cands
        /\ r.seen = res[c].seen /\ r.got = res[c].got
    BY <1>0 DEF Search
  <2> HIDE DEF r
  <2>3. SearchTyped' /\ res'[c] = r /\ \A e \in Callers : e # c => res'[e] = res[e]
    BY <1>0, <2>1, <2>2, SearchMoves
  <2> QED BY <1>1, <2>2, <2>3 DEF Passes, Alike
<1>2. CASE res[c].i # Len(res[c].cands)
  <2> DEFINE n == res[c].i + 1
             r == [res[c] EXCEPT !.pc = "stat", !.i = n]
  <2>1. res' = [res EXCEPT ![c] = r]
    BY <1>2 DEF Widened
  <2>0. n \in Nat /\ n \in 1 .. Len(res[c].cands)
    BY <1>0, <1>2
  <2> HIDE DEF n
  <2>2. /\ r \in Search /\ r.pc = "stat" /\ r.i = n /\ r.cands = res[c].cands
        /\ r.seen = res[c].seen /\ r.got = res[c].got
    BY <1>0, <2>0 DEF Search
  <2> HIDE DEF r
  <2>3. r.i \in 1 .. Len(r.cands)
    BY <2>0, <2>2
  <2>4. SearchTyped' /\ res'[c] = r /\ \A e \in Callers : e # c => res'[e] = res[e]
    BY <2>1, <2>2, <2>3, SearchMoves
  <2> QED BY <1>2, <2>2, <2>4 DEF Passes, Alike, n
<1> QED BY <1>1, <1>2

LEMMA LoadSteps ==
  ASSUME DiskTyped, CacheTyped, SearchTyped, NEW c \in Callers, Load(c)
  PROVE  SearchShape(c) /\ SearchTyped' /\ CacheTyped' /\ SameDisk /\ UNCHANGED <<put, del, clash>>
<1> DEFINE p == Path(c)
<1>0. /\ SameDisk /\ UNCHANGED <<put, del, clash>>
  BY DEF Load, Stat, Lookup, ReadFile, StoreCached, diskVars, SameDisk
<1>i. /\ res[c] \in Search /\ res[c].cands \in Seq(Paths) /\ None \notin Uploads \cup (Uploads \X Nat)
      /\ res[c].pc # "idle" => res[c].i \in 1 .. Len(res[c].cands) /\ p \in Paths
      /\ {"lookup", "served", "read", "store"}
           \subseteq {"idle", "stat", "lookup", "read", "store", "served", "silent"}
  BY FallbackAssumption DEF SearchTyped, Search, Path, Uploads
<1>c. cache' = cache => CacheTyped'
  BY DEF CacheTyped
<1>1. CASE Stat(c)
  <2>0. res[c].pc = "stat" /\ cache' = cache
    BY <1>1 DEF Stat
  <2>1. CASE file[p] = None
    <3>1. res' = Widened(c)
      BY <1>1, <2>1 DEF Stat
    <3> QED BY <1>0, <1>c, <2>0, <2>1, <3>1, WidenedStep DEF SearchShape
  <2>2. CASE file[p] # None
    <3> DEFINE r == [res[c] EXCEPT !.pc = "lookup", !.seen = <<file[p], stamp[file[p]]>>]
    <3>1. res' = [res EXCEPT ![c] = r]
      BY <1>1, <2>2 DEF Stat
    <3>2. <<file[p], stamp[file[p]]>> \in Uploads \X Nat
      BY <1>i, <2>0, <2>2 DEF DiskTyped
    <3>3. /\ r \in Search /\ r.pc = "lookup" /\ r.i = res[c].i /\ r.cands = res[c].cands
          /\ r.seen = <<file[p], stamp[file[p]]>> /\ r.got = res[c].got
      BY <1>i, <3>2 DEF Search, Stamps
    <3> HIDE DEF r
    <3>4. SearchTyped' /\ res'[c] = r /\ \A e \in Callers : e # c => res'[e] = res[e]
      BY <1>i, <2>0, <3>1, <3>2, <3>3, SearchMoves
    <3>5. Finds(c)
      BY <2>0, <2>2, <3>3, <3>4 DEF Finds, Stays, Alike
    <3> QED BY <1>0, <1>c, <2>0, <3>4, <3>5 DEF SearchShape
  <2> QED BY <2>1, <2>2
<1>2. CASE Lookup(c)
  <2>0. res[c].pc = "lookup" /\ cache' = cache /\ res[c].seen \in Uploads \X Nat
    BY <1>2 DEF Lookup, SearchTyped, Loading
  <2>1. CASE cache[p].seen = res[c].seen
    <3> DEFINE r == [res[c] EXCEPT !.pc = "served", !.got = cache[p].wav]
    <3>1. res' = [res EXCEPT ![c] = r]
      BY <1>2, <2>1 DEF Lookup
    <3>2. cache[p].wav \in Contents
      BY <1>i, <2>0 DEF CacheTyped
    <3>3. /\ r \in Search /\ r.pc = "served" /\ r.i = res[c].i /\ r.cands = res[c].cands
          /\ r.seen = res[c].seen /\ r.got = cache[p].wav
      BY <1>i, <3>2 DEF Search
    <3> HIDE DEF r
    <3>4. SearchTyped' /\ res'[c] = r /\ \A e \in Callers : e # c => res'[e] = res[e]
      BY <1>i, <2>0, <3>1, <3>3, SearchMoves
    <3>5. Hits(c)
      BY <2>0, <2>1, <3>3, <3>4 DEF Hits, Stays, Alike
    <3> QED BY <1>0, <1>c, <2>0, <3>4, <3>5 DEF SearchShape
  <2>2. CASE cache[p].seen # res[c].seen
    <3> DEFINE r == [res[c] EXCEPT !.pc = "read"]
    <3>1. res' = [res EXCEPT ![c] = r]
      BY <1>2, <2>2 DEF Lookup
    <3>3. /\ r \in Search /\ r.pc = "read" /\ r.i = res[c].i /\ r.cands = res[c].cands
          /\ r.seen = res[c].seen /\ r.got = res[c].got
      BY <1>i DEF Search
    <3> HIDE DEF r
    <3>4. SearchTyped' /\ res'[c] = r /\ \A e \in Callers : e # c => res'[e] = res[e]
      BY <1>i, <2>0, <3>1, <3>3, SearchMoves
    <3>5. Overlooks(c)
      BY <2>0, <3>3, <3>4 DEF Overlooks, Stays, Alike
    <3> QED BY <1>0, <1>c, <2>0, <3>4, <3>5 DEF SearchShape
  <2> QED BY <2>1, <2>2
<1>3. CASE ReadFile(c)
  <2>0. res[c].pc = "read" /\ cache' = cache /\ res[c].seen \in Uploads \X Nat
    BY <1>3 DEF ReadFile, SearchTyped, Loading
  <2>1. CASE file[p] = None \/ ~Decodes(data[file[p]])
    <3>1. res' = Widened(c)
      BY <1>3, <2>1 DEF ReadFile
    <3> QED BY <1>0, <1>c, <2>0, <2>1, <3>1, WidenedStep DEF SearchShape
  <2>2. CASE file[p] # None /\ Decodes(data[file[p]])
    <3> DEFINE r == [res[c] EXCEPT !.pc = "store", !.got = data[file[p]]]
    <3>1. res' = [res EXCEPT ![c] = r]
      BY <1>3, <2>2 DEF ReadFile
    <3>2. data[file[p]] \in Contents
      BY <1>i, <2>0, <2>2 DEF DiskTyped
    <3>3. /\ r \in Search /\ r.pc = "store" /\ r.i = res[c].i /\ r.cands = res[c].cands
          /\ r.seen = res[c].seen /\ r.got = data[file[p]]
      BY <1>i, <3>2 DEF Search
    <3> HIDE DEF r
    <3>4. SearchTyped' /\ res'[c] = r /\ \A e \in Callers : e # c => res'[e] = res[e]
      BY <1>i, <2>0, <2>2, <3>1, <3>3, SearchMoves
    <3>5. Reads(c)
      BY <2>0, <2>2, <3>3, <3>4 DEF Reads, Stays, Alike
    <3> QED BY <1>0, <1>c, <2>0, <3>4, <3>5 DEF SearchShape
  <2> QED BY <2>1, <2>2
<1>4. CASE StoreCached(c)
  <2> DEFINE r == [res[c] EXCEPT !.pc = "served"]
  <2>0. /\ res[c].pc = "store" /\ res[c].seen \in Uploads \X Nat /\ Decodes(res[c].got)
        /\ res[c].got \in Contents
        /\ cache' = [cache EXCEPT ![p] = [seen |-> res[c].seen, wav |-> res[c].got]]
        /\ res' = [res EXCEPT ![c] = r]
    BY <1>4 DEF StoreCached, SearchTyped, Search, Loading
  <2>1. /\ r \in Search /\ r.pc = "served" /\ r.i = res[c].i /\ r.cands = res[c].cands
        /\ r.seen = res[c].seen /\ r.got = res[c].got
    BY <1>i DEF Search
  <2> HIDE DEF r
  <2>2. SearchTyped' /\ res'[c] = r /\ \A e \in Callers : e # c => res'[e] = res[e]
    BY <1>i, <2>0, <2>1, SearchMoves
  <2>3. /\ cache'[p] = [seen |-> res[c].seen, wav |-> res[c].got]
        /\ \A q \in Paths : q # p => cache'[q] = cache[q]
        /\ cache' \in [Paths -> [seen : Stamps, wav : Contents]]
    BY <1>i, <2>0 DEF CacheTyped, Stamps
  <2>4. CacheTyped'
    BY <2>0, <2>3 DEF CacheTyped
  <2>5. Keeps(c, p)
    BY <2>0, <2>1, <2>2, <2>3 DEF Keeps, Stays, Alike
  <2> QED BY <1>0, <2>2, <2>4, <2>5 DEF SearchShape
<1> QED BY <1>1, <1>2, <1>3, <1>4 DEF Load

LEMMA CallerSteps ==
  ASSUME DiskTyped, CacheTyped, SearchTyped, NEW c \in Callers,
         PlayPrompt(c) \/ GetFallback(c) \/ List(c) \/ Load(c)
  PROVE  SearchShape(c) /\ SearchTyped' /\ CacheTyped' /\ SameDisk /\ UNCHANGED <<put, del, clash>>
<1>1. ASSUME NEW cands \in Seq(Paths), Len(cands) > 0, Resolve(c, cands)
      PROVE  SearchShape(c) /\ SearchTyped' /\ CacheTyped' /\ SameDisk /\ UNCHANGED <<put, del, clash>>
  <2>1. SameDisk /\ UNCHANGED <<cache, put, del, clash>>
    BY <1>1 DEF Resolve, diskVars, SameDisk
  <2> QED BY <1>1, <2>1, ResolveStep DEF SearchShape, CacheTyped
<1>2. CASE PlayPrompt(c)
  <2>1. PICK dir \in Dirs, code \in Codes : Resolve(c, Candidates(dir, Classify(code)))
    BY <1>2 DEF PlayPrompt
  <2>2. Classify(code) \in Scenarios
    BY DEF Classify, Scenarios
  <2> DEFINE cs == Candidates(dir, Classify(code))
  <2>3. cs \in Seq(Paths) /\ Len(cs) = 4
    BY <2>2, CandidatesArePaths
  <2> HIDE DEF cs
  <2>4. Resolve(c, cs)
    BY <2>1 DEF cs
  <2>5. Len(cs) > 0
    BY <2>3
  <2> QED BY <1>1, <2>3, <2>4, <2>5, Zenon
<1>3. CASE GetFallback(c)
  <2>1. PICK s \in Slots : Resolve(c, Candidates(s[1], s[2]))
    BY <1>3 DEF GetFallback
  <2>2. s[1] \in Dirs /\ s[2] \in Scenarios
    BY FallbackAssumption DEF Paths
  <2> DEFINE cs == Candidates(s[1], s[2])
  <2>3. cs \in Seq(Paths) /\ Len(cs) = 4
    BY <2>2, CandidatesArePaths
  <2> HIDE DEF cs
  <2>4. Resolve(c, cs)
    BY <2>1 DEF cs
  <2>5. Len(cs) > 0
    BY <2>3
  <2> QED BY <1>1, <2>3, <2>4, <2>5, Zenon
<1>4. CASE List(c)
  <2>1. PICK s \in Slots : Resolve(c, <<s>>)
    BY <1>4 DEF List
  <2> DEFINE cs == <<s>>
  <2>2. cs \in Seq(Paths) /\ Len(cs) > 0 /\ Resolve(c, cs)
    BY <2>1, FallbackAssumption
  <2> HIDE DEF cs
  <2> QED BY <1>1, <2>2
<1> QED BY <1>2, <1>3, <1>4, LoadSteps

-----------------------------------------------------------------------------
(* The invariant, step by step.                                            *)
PutsOrDeletes == CacheDrops /\ res' = res
Searches(c) == SameDisk /\ put' = put /\ clash' = clash /\ SearchShape(c)

LEMMA StepShape ==
  ASSUME PromptInv, PromptNext
  PROVE  /\ DiskTyped' /\ CacheTyped' /\ SearchTyped' /\ Placed'
         /\ clash \subseteq clash'
         /\ \A p \in Paths \ clash' : KeepsPath(p)
         /\ PutsOrDeletes \/ \E c \in Callers : Searches(c)
<1>0. /\ DiskTyped /\ CacheTyped /\ SearchTyped /\ Placed
      /\ \A p \in Paths \ clash : Alone(p) /\ Installed(p)
  BY DEF PromptInv, PromptTyped
<1>s. res' = res => SearchTyped'
  BY <1>0 DEF SearchTyped, Loading
<1>1. CASE \E u \in Puts : PutStep(u)
  <2>1. PICK u \in Puts : PutStep(u)
    BY <1>1
  <2>2. DiskTyped' /\ CacheTyped' /\ UploadShape(u) /\ CacheDrops /\ res' = res
    BY <1>0, <2>1, UploadSteps
  <2>3. clash \subseteq clash'
    BY <2>2 DEF UploadShape, Opens, WritesHead, WritesTail, Installs, Misses, Removes, Stops
  <2>4. \A p \in Paths \ clash' : KeepsPath(p)
    BY <1>0, <2>2, <2>3, UploadKeeps
  <2> QED BY <1>0, <1>s, <2>2, <2>3, <2>4, PlacedStep DEF PutsOrDeletes
<1>2. CASE \E d \in Deletes : DeleteCached(d) \/ DeleteFile(d)
  <2>1. PICK d \in Deletes : DeleteCached(d) \/ DeleteFile(d)
    BY <1>2
  <2>2. DiskTyped' /\ CacheTyped' /\ CacheDrops /\ res' = res /\ \E s \in Paths : Unlinks(s)
    BY <1>0, <2>1, DeleteSteps
  <2>3. clash' = clash
    BY <2>2 DEF Unlinks
  <2> QED BY <1>0, <1>s, <2>2, <2>3, UnlinkKeeps DEF PutsOrDeletes
<1>3. CASE \E c \in Callers : PlayPrompt(c) \/ GetFallback(c) \/ List(c) \/ Load(c)
  <2>1. PICK c \in Callers : PlayPrompt(c) \/ GetFallback(c) \/ List(c) \/ Load(c)
    BY <1>3
  <2>2. SearchShape(c) /\ SearchTyped' /\ CacheTyped' /\ SameDisk /\ UNCHANGED <<put, del, clash>>
    BY <1>0, <2>1, CallerSteps
  <2>3. DiskTyped'
    BY <1>0, <2>2 DEF DiskTyped, SameDisk
  <2> QED BY <1>0, <2>2, <2>3, SearchKeeps DEF Searches
<1> QED BY <1>1, <1>2, <1>3 DEF PromptNext

\* Who loads takes down what is at the path, and who has been served no more.
LEMMA Heard ==
  ASSUME Observe, NEW c \in Callers
  PROVE  /\ Loading(c)' => live'[c] = live[c] \cup {Shown(Path(c))'}
         /\ res'[c].pc = "served" /\ res[c].pc # "served" =>
              live'[c] = live[c] \cup {Shown(Path(c))'}
         /\ res'[c].pc = "served" /\ res[c].pc = "served" => live'[c] = live[c]
<1>1. live'[c] = CASE res'[c].pc \in {"idle", "stat", "silent"} -> {}
                   [] res[c].pc = "served" /\ res'[c].pc = "served" -> live[c]
                   [] OTHER -> live[c] \cup {Shown(Path(c))'}
  BY DEF Observe
<1> QED BY <1>1 DEF Loading

\* A search that goes on forgets no gap, and takes down those of this step.
LEMMA Missed ==
  ASSUME Observe, NEW c \in Callers
  PROVE  /\ res[c].pc # "idle" /\ (Ended(res[c]) => Ended(res'[c])) => gap[c] \subseteq gap'[c]
         /\ ~Ended(res[c]) =>
              \A p \in Paths : p \in Range(res'[c].cands) /\ file'[p] = None => p \in gap'[c]
<1> DEFINE missing == {p \in Range(res'[c].cands) : file'[p] = None}
<1>1. gap'[c] = CASE Ended(res[c]) /\ Ended(res'[c]) -> gap[c]
                  [] res[c].pc = "idle" \/ (Ended(res[c]) /\ ~Ended(res'[c])) -> missing
                  [] OTHER -> gap[c] \cup missing
  BY DEF Observe
<1> HIDE DEF missing
<1>2. /\ res[c].pc # "idle" /\ (Ended(res[c]) => Ended(res'[c])) => gap[c] \subseteq gap'[c]
      /\ ~Ended(res[c]) => missing \subseteq gap'[c]
  BY <1>1 DEF Ended
<1> QED BY <1>2 DEF missing

LEMMA HistoryStep ==
  ASSUME HistoryTyped, DiskTyped', SearchTyped', Observe
  PROVE  HistoryTyped'
<1>1. ASSUME NEW c \in Callers PROVE live'[c] \subseteq Contents
  <2>1. CASE res'[c].pc \in {"idle", "stat", "silent"}
    BY <2>1 DEF Observe
  <2>2. CASE res'[c].pc \notin {"idle", "stat", "silent"}
    <3>1. Path(c)' \in Paths
      BY <2>2 DEF SearchTyped, Search, Path
    <3>2. Shown(Path(c))' \in Contents
      BY <3>1 DEF Shown, DiskTyped, Blank, Contents
    <3>3. live'[c] = live[c] \/ live'[c] = live[c] \cup {Shown(Path(c))'}
      BY <2>2 DEF Observe
    <3> QED BY <3>2, <3>3 DEF HistoryTyped
  <2> QED BY <2>1, <2>2
<1>2. ASSUME NEW c \in Callers PROVE gap'[c] \subseteq Paths
  <2>1. Range(res'[c].cands) \subseteq Paths
    BY DEF SearchTyped, Search, Range
  <2> DEFINE missing == {p \in Range(res'[c].cands) : file'[p] = None}
  <2>2. missing \subseteq Paths
    BY <2>1
  <2>3. gap'[c] = CASE Ended(res[c]) /\ Ended(res'[c]) -> gap[c]
                    [] res[c].pc = "idle" \/ (Ended(res[c]) /\ ~Ended(res'[c])) -> missing
                    [] OTHER -> gap[c] \cup missing
    BY DEF Observe
  <2> HIDE DEF missing
  <2>4. gap[c] \subseteq Paths
    BY DEF HistoryTyped
  <2> QED BY <2>2, <2>3, <2>4
<1>3. /\ live' = [c \in Callers |-> live'[c]]
      /\ gap' = [c \in Callers |-> gap'[c]]
  BY DEF Observe
<1> QED BY <1>1, <1>2, <1>3 DEF HistoryTyped

\* A caller that looks in the cache has the prompt's time and size from before
\* this step, or has just taken those of the file that is there.
LEMMA LookupSince ==
  ASSUME PutsOrDeletes \/ \E c \in Callers : Searches(c), NEW e \in Callers, res'[e].pc = "lookup"
  PROVE  /\ Path(e)' = Path(e)
         /\ \/ res'[e] = res[e]
            \/ /\ SameDisk /\ file[Path(e)] # None
               /\ res'[e].seen = <<file[Path(e)], stamp[file[Path(e)]]>>
<1>1. CASE res'[e] = res[e]
  BY <1>1 DEF Path
<1>2. CASE res'[e] # res[e]
  <2>1. Searches(e)
    <3>1. PICK c \in Callers : Searches(c)
      BY <1>2 DEF PutsOrDeletes
    <3>2. c = e
      BY <1>2, <3>1 DEF Searches, SearchShape, Starts, Finds, Passes, Hits, Overlooks, Reads, Keeps,
                        Stays, Alike
    <3> QED BY <3>1, <3>2
  <2>2. Finds(e)
    BY <2>1 DEF Searches, SearchShape, Starts, Finds, Passes, Hits, Overlooks, Reads, Keeps
  <2> QED BY <2>1, <2>2 DEF Finds, Stays, Alike, Path, Searches
<1> QED BY <1>1, <1>2

LEMMA EntryKept ==
  ASSUME PutsOrDeletes \/ \E c \in Callers : Searches(c), Observe,
         NEW p \in Paths, KeepsPath(p), NEW seen \in Uploads \X Nat, NEW wav, Entry(p, seen, wav)
  PROVE  Entry(p, seen, wav)'
<1>1. /\ Known(p, seen)'
      /\ file'[p] = seen[1] => file[p] = seen[1] /\ data'[file'[p]] = data[file[p]]
  BY DEF KeepsPath, Entry
<1>2. Whole(wav) /\ (file'[p] = seen[1] => wav = data'[file'[p]])
  BY <1>1 DEF Entry
<1>3. ASSUME NEW e \in Callers, res'[e].pc = "lookup", Path(e)' = p, res'[e].seen = seen
      PROVE  wav \in live'[e]
  <2>1. live'[e] = live[e] \cup {Shown(Path(e))'}
    BY <1>3, Heard DEF Loading
  <2>2. Path(e) = p
    BY <1>3, LookupSince
  <2>3. CASE res'[e] = res[e]
    BY <1>3, <2>1, <2>2, <2>3 DEF Entry
  <2>4. CASE res'[e] # res[e]
    <3>1. SameDisk /\ file[p] # None /\ seen = <<file[p], stamp[file[p]]>>
      BY <1>3, <2>2, <2>4, LookupSince
    <3>2. file'[p] = seen[1] /\ Shown(Path(e))' = data'[file'[p]]
      BY <1>3, <3>1 DEF SameDisk, Shown
    <3> QED BY <1>2, <2>1, <3>2
  <2> QED BY <2>3, <2>4
<1> QED BY <1>1, <1>2, <1>3 DEF Entry, Whole, Decodes

LEMMA CachedStep ==
  ASSUME PromptInv, CacheTyped', SearchTyped', clash \subseteq clash', Observe,
         PutsOrDeletes \/ \E c \in Callers : Searches(c),
         NEW p \in Paths \ clash', KeepsPath(p)
  PROVE  Cached(p)'
<1>0. /\ Cached(p) /\ cache \in [Paths -> [seen : Stamps, wav : Contents]]
      /\ \A c \in Callers : res[c].pc # "idle" /\ Path(c) \notin clash => Searching(c)
      /\ \A seen \in Stamps : seen # None => seen \in Uploads \X Nat
  BY DEF PromptInv, PromptTyped, CacheTyped, Stamps
<1>1. CASE cache'[p] = cache[p]
  <2>1. CASE cache[p].seen = None
    BY <1>1, <2>1 DEF Cached
  <2>2. CASE cache[p].seen # None
    <3> DEFINE seen == cache[p].seen
               wav == cache[p].wav
    <3>1. seen \in Uploads \X Nat /\ Entry(p, seen, wav)
      BY <1>0, <2>2 DEF Cached
    <3>2. \A s \in Uploads \X Nat : \A w : Entry(p, s, w) => Entry(p, s, w)'
      BY EntryKept
    <3> QED BY <1>1, <3>1, <3>2 DEF Cached, Entry, Known, Whole, Decodes
  <2> QED BY <2>1, <2>2
<1>2. CASE cache'[p] = NotCached
  BY <1>2 DEF Cached, NotCached
<1>3. CASE cache'[p] # cache[p] /\ cache'[p] # NotCached
  <2>1. PICK c \in Callers : Searches(c)
    BY <1>3 DEF PutsOrDeletes, CacheDrops
  <2>2. Keeps(c, Path(c)) /\ p = Path(c)
    BY <1>3, <2>1 DEF Searches, SearchShape, Starts, Finds, Passes, Hits, Overlooks, Reads, Keeps
  <2>3. cache'[p].seen = res[c].seen /\ cache'[p].wav = res[c].got /\ res[c].pc = "store"
    BY <2>2 DEF Keeps
  <2>4. Entry(p, res[c].seen, res[c].got) /\ res[c].seen \in Uploads \X Nat
    BY <1>0, <2>2, <2>3 DEF Searching, Entry, Known
  <2>5. \A s \in Uploads \X Nat : \A w : Entry(p, s, w) => Entry(p, s, w)'
    BY EntryKept
  <2> QED BY <2>3, <2>4, <2>5 DEF Cached, Entry, Known, Whole, Decodes
<1> QED BY <1>1, <1>2, <1>3


LEMMA SearchingStep ==
  ASSUME PromptInv, DiskTyped', SearchTyped', clash \subseteq clash', Observe,
         PutsOrDeletes \/ \E c \in Callers : Searches(c),
         \A p \in Paths \ clash' : KeepsPath(p),
         NEW e \in Callers, res'[e].pc # "idle", Path(e)' \notin clash'
  PROVE  Searching(e)'
<1>0. /\ \A c \in Callers : res[c].pc # "idle" /\ Path(c) \notin clash => Searching(c)
      /\ \A p \in Paths \ clash : Installed(p)
      /\ \A p \in Paths : PathPlaced(p)
      /\ SearchTyped /\ DiskTyped /\ None \notin Uploads
  BY FallbackAssumption DEF PromptInv, PromptTyped, Placed, Uploads
<1>p. Path(e)' \in Paths
  BY DEF SearchTyped, Search, Path
<1>l. Loading(e)' => live'[e] = live[e] \cup {Shown(Path(e))'}
  BY Heard
<1>k. \A s \in Uploads \X Nat : \A w : Path(e)' = Path(e) /\ Entry(Path(e), s, w) => Entry(Path(e), s, w)'
  <2>1. \A p \in Paths \ clash' : \A s \in Uploads \X Nat : \A w : Entry(p, s, w) => Entry(p, s, w)'
    BY EntryKept
  <2> QED BY <1>p, <2>1 DEF Entry, Known, Whole, Decodes
<1>n. \A s \in Uploads \X Nat : Path(e)' = Path(e) /\ Known(Path(e), s) => Known(Path(e), s)'
  BY <1>p DEF KeepsPath, Known
<1>1. CASE res'[e] = res[e]
  <2>1. Path(e)' = Path(e) /\ (Loading(e)' <=> Loading(e)) /\ Searching(e)
    BY <1>0, <1>1 DEF Path, Loading
  <2>2. Loading(e) => res[e].seen \in Uploads \X Nat
    BY <1>0 DEF SearchTyped
  <2>3. Loading(e) => Known(Path(e), res[e].seen)'
    BY <1>1, <1>n, <2>1, <2>2 DEF Searching, Known
  <2>4. res[e].pc = "store" => Entry(Path(e), res[e].seen, res[e].got)' /\ res[e].got \in live'[e]
    BY <1>1, <1>k, <1>l, <2>1, <2>2 DEF Searching, Loading, Entry, Known, Whole, Decodes
  <2> QED BY <1>1, <2>1, <2>3, <2>4 DEF Searching
<1>2. CASE res'[e] # res[e]
  <2>1. Searches(e)
    <3>1. PICK c \in Callers : Searches(c)
      BY <1>2 DEF PutsOrDeletes
    <3>2. c = e
      BY <1>2, <3>1 DEF Searches, SearchShape, Starts, Finds, Passes, Hits, Overlooks, Reads, Keeps,
                        Stays, Alike
    <3> QED BY <3>1, <3>2
  <2>2. SameDisk /\ put' = put /\ clash' = clash
    BY <2>1 DEF Searches
  <2>3. CASE Finds(e)
    <3>1. /\ Path(e)' = Path(e) /\ res'[e].pc = "lookup" /\ file[Path(e)] # None
          /\ res'[e].seen = <<file[Path(e)], stamp[file[Path(e)]]>>
      BY <2>3 DEF Finds, Stays, Alike, Path
    <3>2. PathPlaced(Path(e)) /\ file[Path(e)] \in Uploads /\ stamp[file[Path(e)]] \in Nat
      BY <1>0, <1>p, <3>1 DEF DiskTyped
    <3>3. Known(Path(e), res[e].seen)'
      BY <2>2, <3>1, <3>2 DEF PathPlaced, Known, Home, Fresh, SameDisk
    <3> QED BY <3>1, <3>3 DEF Searching
  <2>4. CASE Overlooks(e)
    <3>1. /\ Path(e)' = Path(e) /\ res[e].pc = "lookup" /\ res'[e].pc = "read"
          /\ res'[e].seen = res[e].seen
      BY <2>4 DEF Overlooks, Stays, Alike, Path
    <3>2. Known(Path(e), res[e].seen) /\ res[e].seen \in Uploads \X Nat
      BY <1>0, <2>2, <3>1 DEF Searching, Loading, SearchTyped
    <3>3. Known(Path(e), res[e].seen)'
      BY <1>n, <3>1, <3>2 DEF Known
    <3> QED BY <3>1, <3>3 DEF Searching
  <2>5. CASE Reads(e)
    <3> DEFINE p == Path(e)
    <3>1. /\ Path(e)' = p /\ res[e].pc = "read" /\ res'[e].pc = "store"
          /\ res'[e].seen = res[e].seen /\ res'[e].got = data[file[p]] /\ file[p] # None
      BY <2>5 DEF Reads, Stays, Alike, Path
    <3>2. Known(p, res[e].seen) /\ res[e].seen \in Uploads \X Nat
      BY <1>0, <2>2, <3>1 DEF Searching, Loading, SearchTyped
    <3>3. Known(Path(e), res[e].seen)'
      BY <1>n, <3>1, <3>2 DEF Known
    <3>4. Whole(data[file[p]])
      BY <1>0, <1>p, <2>2, <3>1 DEF Installed
    <3>5. \A c \in Callers : Loading(c)' /\ Path(c)' = p => data[file[p]] \in live'[c]
      <4>1. ASSUME NEW c \in Callers, Loading(c)', Path(c)' = p PROVE data[file[p]] \in live'[c]
        <5>1. live'[c] = live[c] \cup {Shown(Path(c))'}
          BY <4>1, Heard
        <5>2. Shown(Path(c))' = data[file[p]]
          BY <2>2, <3>1, <4>1 DEF Shown, SameDisk
        <5> QED BY <5>1, <5>2
      <4> QED BY <4>1
    <3>6. Entry(Path(e), res[e].seen, res[e].got)'
      BY <2>2, <3>1, <3>3, <3>4, <3>5 DEF Entry, Whole, Decodes, SameDisk, Loading
    <3>7. res'[e].got \in live'[e]
      BY <3>1, <3>5 DEF Loading
    <3> QED BY <3>1, <3>3, <3>6, <3>7 DEF Searching
  <2>6. CASE Starts(e) \/ Passes(e) \/ Hits(e) \/ Keeps(e, Path(e))
    <3>1. res'[e].pc \in {"stat", "silent", "served"}
      BY <2>6 DEF Starts, Passes, Hits, Keeps
    <3> QED BY <3>1 DEF Searching, Loading
  <2> QED BY <2>1, <2>3, <2>4, <2>5, <2>6 DEF Searches, SearchShape
<1> QED BY <1>1, <1>2

LEMMA ServedStep ==
  ASSUME PromptInv, SearchTyped', clash \subseteq clash', Observe,
         PutsOrDeletes \/ \E c \in Callers : Searches(c)
  PROVE  ServedIsCurrent'
<1>0. /\ \A c \in Callers : res[c].pc # "idle" /\ Path(c) \notin clash => Searching(c)
      /\ \A p \in Paths \ clash : Cached(p)
      /\ SearchTyped /\ None \notin Uploads \X Nat /\ ServedIsCurrent
  BY FallbackAssumption DEF PromptInv, PromptTyped, Uploads
<1> SUFFICES ASSUME NEW e \in Callers, res'[e].pc = "served", Path(e)' \notin clash'
             PROVE  res'[e].got.head = res'[e].got.tail /\ res'[e].got \in live'[e]
  BY DEF ServedIsCurrent
<1>1. CASE res'[e] = res[e]
  <2>1. Path(e) \notin clash /\ live'[e] = live[e]
    BY <1>1, Heard DEF Path
  <2> QED BY <1>0, <1>1, <2>1 DEF ServedIsCurrent
<1>2. CASE res'[e] # res[e]
  <2>1. Searches(e)
    <3>1. PICK c \in Callers : Searches(c)
      BY <1>2 DEF PutsOrDeletes
    <3>2. c = e
      BY <1>2, <3>1 DEF Searches, SearchShape, Starts, Finds, Passes, Hits, Overlooks, Reads, Keeps,
                        Stays, Alike
    <3> QED BY <3>1, <3>2
  <2>2. Hits(e) \/ Keeps(e, Path(e))
    BY <2>1 DEF Searches, SearchShape, Starts, Finds, Passes, Overlooks, Reads
  <2>3. /\ Path(e)' = Path(e) /\ Path(e) \notin clash /\ Loading(e) /\ Path(e) \in Paths
        /\ res[e].pc # "served" /\ res[e].pc # "idle"
    BY <1>0, <2>2 DEF Hits, Keeps, Stays, Alike, Path, Loading, SearchTyped, Search
  <2>4. live[e] \subseteq live'[e]
    BY <2>3, Heard
  <2>5. CASE Hits(e)
    <3>1. /\ res[e].pc = "lookup" /\ cache[Path(e)].seen = res[e].seen
          /\ res'[e].got = cache[Path(e)].wav /\ res[e].seen # None
      BY <1>0, <2>3, <2>5 DEF Hits, SearchTyped
    <3>2. Entry(Path(e), res[e].seen, res'[e].got)
      BY <1>0, <2>3, <3>1 DEF Cached
    <3> QED BY <2>4, <3>1, <3>2 DEF Entry, Whole
  <2>6. CASE Keeps(e, Path(e))
    <3>1. res[e].pc = "store" /\ res'[e].got = res[e].got
      BY <2>6 DEF Keeps
    <3> QED BY <1>0, <2>3, <2>4, <3>1 DEF Searching, Entry, Whole
  <2> QED BY <2>2, <2>5, <2>6
<1> QED BY <1>1, <1>2

LEMMA GapsStep ==
  ASSUME PromptInv, SearchTyped', clash \subseteq clash', Observe,
         PutsOrDeletes \/ \E c \in Callers : Searches(c), NEW e \in Callers
  PROVE  PassedGaps(e)'
<1>0. PassedGaps(e) /\ SearchTyped /\ \A p \in Paths \ clash : Installed(p)
  BY DEF PromptInv, PromptTyped
<1>1. ASSUME res[e].pc # "idle", Ended(res[e]) => Ended(res'[e]),
             res'[e].cands = res[e].cands, res'[e].i = res[e].i,
             res'[e].pc = "silent" => res[e].pc = "silent"
      PROVE  PassedGaps(e)'
  <2>1. gap[e] \subseteq gap'[e]
    BY <1>1, Missed
  <2>2. gap[e] \cup clash \subseteq gap'[e] \cup clash'
    BY <2>1
  <2> QED BY <1>0, <1>1, <2>2 DEF PassedGaps
<1>2. CASE res'[e] = res[e]
  <2>1. CASE res[e].pc = "idle"
    BY <1>2, <2>1 DEF PassedGaps
  <2> QED BY <1>1, <1>2, <2>1
<1>3. CASE res'[e] # res[e]
  <2>1. Searches(e)
    <3>1. PICK c \in Callers : Searches(c)
      BY <1>3 DEF PutsOrDeletes
    <3>2. c = e
      BY <1>3, <3>1 DEF Searches, SearchShape, Starts, Finds, Passes, Hits, Overlooks, Reads, Keeps,
                        Stays, Alike
    <3> QED BY <3>1, <3>2
  <2>2. CASE Starts(e)
    <3>1. res'[e].i = 1 /\ res'[e].pc = "stat"
      BY <2>2 DEF Starts
    <3> QED BY <3>1 DEF PassedGaps
  <2>3. CASE Finds(e) \/ Hits(e) \/ Overlooks(e) \/ Reads(e) \/ Keeps(e, Path(e))
    <3>1. /\ res[e].pc \in {"stat", "lookup", "read", "store"} /\ res'[e].pc # "silent"
          /\ res'[e].cands = res[e].cands /\ res'[e].i = res[e].i
      BY <2>3 DEF Finds, Hits, Overlooks, Reads, Keeps, Stays, Alike
    <3> QED BY <1>1, <3>1 DEF Ended
  <2>4. CASE Passes(e)
    <3> DEFINE cands == res[e].cands
               i == res[e].i
    <3>1. /\ res[e].pc \in {"stat", "read"} /\ cands \in Seq(Paths) /\ i \in 1 .. Len(cands)
          /\ Len(cands) \in Nat /\ i \in Nat /\ Path(e) = cands[i] /\ Path(e) \in Paths
          /\ Path(e) \in Range(cands) /\ res'[e].cands = cands
      BY <1>0, <2>4 DEF Passes, Alike, SearchTyped, Search, Path, Range
    <3>2. SameDisk /\ clash' = clash
      BY <2>1 DEF Searches
    <3>3. gap[e] \subseteq gap'[e]
      BY <3>1, Missed DEF Ended
    <3>4. cands[i] \in gap'[e] \cup clash'
      <4>1. CASE file[Path(e)] = None
        <5>1. ~Ended(res[e]) /\ file'[Path(e)] = None /\ Path(e) \in Range(res'[e].cands)
          BY <3>1, <3>2, <4>1 DEF Ended, SameDisk
        <5>2. Path(e) \in gap'[e]
          BY <3>1, <5>1, Missed
        <5> QED BY <3>1, <5>2
      <4>2. CASE file[Path(e)] # None
        <5>1. ~Decodes(data[file[Path(e)]])
          BY <2>4, <4>2 DEF Passes
        <5>2. Path(e) \in clash
          BY <1>0, <3>1, <4>2, <5>1 DEF Installed, Whole
        <5> QED BY <3>1, <3>2, <5>2
      <4> QED BY <4>1, <4>2
    <3>5. \A j \in 1 .. i : cands[j] \in gap'[e] \cup clash'
      <4>1. \A j \in 1 .. i - 1 : cands[j] \in gap'[e] \cup clash'
        BY <1>0, <3>1, <3>2, <3>3 DEF PassedGaps
      <4>2. \A j \in 1 .. i : j \in 1 .. i - 1 \/ j = i
        BY <3>1
      <4> QED BY <3>4, <4>1, <4>2
    <3>6. CASE i = Len(cands) /\ res'[e].pc = "silent" /\ res'[e].i = i
      <4>1. Range(cands) \subseteq gap'[e] \cup clash'
        <5>1. DOMAIN cands = 1 .. i
          BY <3>1, <3>6
        <5> QED BY <3>5, <5>1 DEF Range
      <4>2. 1 .. i - 1 \subseteq 1 .. i
        BY <3>1
      <4> QED BY <3>1, <3>5, <3>6, <4>1, <4>2 DEF PassedGaps
    <3>7. CASE res'[e].pc = "stat" /\ res'[e].i = i + 1
      <4>1. res'[e].i - 1 = i
        BY <3>1, <3>7
      <4> QED BY <3>1, <3>5, <3>7, <4>1 DEF PassedGaps
    <3> QED BY <2>4, <3>6, <3>7 DEF Passes
  <2> QED BY <2>1, <2>2, <2>3, <2>4 DEF Searches, SearchShape
<1> QED BY <1>2, <1>3

LEMMA PromptStarts == PromptInit => PromptInv
<1> SUFFICES ASSUME PromptInit PROVE PromptInv
  OBVIOUS
<1>0. /\ None \notin Uploads /\ Puts \cap Paths = {} /\ Uploads = Puts \cup Paths /\ Slots \subseteq Paths
      /\ Blank \in Contents
  BY FallbackAssumption DEF Uploads, Blank, Contents
<1>1. /\ tmp = [p \in Paths |-> None] /\ data = [n \in Uploads |-> IF n \in Paths THEN Full(n) ELSE Blank]
      /\ stamp = [n \in Uploads |-> 0] /\ cache = [p \in Paths |-> [seen |-> None, wav |-> Blank]]
      /\ put \in [Puts -> [pc : {"new"}, slot : Slots, fd : {None}]]
      /\ del \in [Deletes -> [pc : {"new"}, slot : Slots]]
      /\ res = [c \in Callers |-> Idle] /\ clash = {}
      /\ live = [c \in Callers |-> {}] /\ gap = [c \in Callers |-> {}]
  BY DEF PromptInit
<1>2. /\ file \in [Paths -> Uploads \cup {None}]
      /\ \A p \in Paths : file[p] # None => file[p] = p
  <2>1. PICK there \in SUBSET Slots : file = [p \in Paths |-> IF p \in there THEN p ELSE None]
    BY DEF PromptInit
  <2> QED BY <1>0, <2>1
<1>3. \A u \in Puts : put[u].pc = "new" /\ put[u].fd = None /\ put[u] \in PutRec
  BY <1>0, <1>1 DEF PutRec, PutStates
<1>4. \A c \in Callers : res[c].pc = "idle" /\ res[c] \in Search
  BY <1>0, <1>1 DEF Idle, Search, Stamps
<1>5. DiskTyped
  <2>1. data \in [Uploads -> Contents]
    <3>1. \A n \in Paths : Full(n) \in Contents
      BY <1>0 DEF Full, Contents
    <3> QED BY <1>0, <1>1, <3>1
  <2>2. put \in [Puts -> PutRec]
    BY <1>1, <1>3
  <2>3. /\ del \in [Deletes -> [pc : {"new", "remove", "done"}, slot : Slots]]
        /\ stamp \in [Uploads -> Nat] /\ tmp \in [Paths -> Uploads \cup {None}]
    BY <1>1
  <2> QED BY <1>1, <1>2, <2>1, <2>2, <2>3 DEF DiskTyped
<1>6. CacheTyped
  BY <1>0, <1>1 DEF CacheTyped, Stamps
<1>7. SearchTyped
  BY <1>1, <1>4 DEF SearchTyped, Loading
<1>8. HistoryTyped
  BY <1>1 DEF HistoryTyped
<1>9. Placed
  BY <1>0, <1>1, <1>2, <1>3 DEF Placed, PathPlaced, TmpPlaced, PutPlaced, Home, Fresh
<1>10. ASSUME NEW p \in Paths PROVE Alone(p) /\ Installed(p) /\ Cached(p)
  <2>1. Alone(p)
    BY <1>3 DEF Alone, Writing
  <2>2. Installed(p)
    BY <1>0, <1>1, <1>2 DEF Installed, Whole, Full, Decodes
  <2>3. Cached(p)
    BY <1>1 DEF Cached
  <2> QED BY <2>1, <2>2, <2>3
<1>11. /\ \A c \in Callers : res[c].pc # "idle" /\ Path(c) \notin clash => Searching(c)
       /\ \A c \in Callers : PassedGaps(c)
       /\ ServedIsCurrent
  BY <1>4 DEF PassedGaps, ServedIsCurrent
<1> QED BY <1>5, <1>6, <1>7, <1>8, <1>9, <1>10, <1>11 DEF PromptInv, PromptTyped

LEMMA PromptSteps == PromptInv /\ [PromptNext]_promptVars => PromptInv'
<1> SUFFICES ASSUME PromptInv, [PromptNext]_promptVars PROVE PromptInv'
  OBVIOUS
<1>1. CASE PromptNext
  <2>1. /\ DiskTyped' /\ CacheTyped' /\ SearchTyped' /\ Placed' /\ clash \subseteq clash'
        /\ \A p \in Paths \ clash' : KeepsPath(p)
        /\ PutsOrDeletes \/ \E c \in Callers : Searches(c)
    BY <1>1, StepShape
  <2>2. Observe
    BY <1>1 DEF PromptNext
  <2>3. HistoryTyped'
    BY <2>1, <2>2, HistoryStep DEF PromptInv, PromptTyped
  <2>4. \A p \in Paths \ clash' : (Alone(p) /\ Installed(p))'
    BY <2>1 DEF KeepsPath
  <2>5. \A p \in Paths \ clash' : Cached(p)'
    BY <2>1, <2>2, CachedStep
  <2>6. \A c \in Callers : res'[c].pc # "idle" /\ Path(c)' \notin clash' => Searching(c)'
    BY <2>1, <2>2, SearchingStep
  <2>7. ServedIsCurrent' /\ \A c \in Callers : PassedGaps(c)'
    BY <2>1, <2>2, ServedStep, GapsStep
  <2> QED BY <2>1, <2>3, <2>4, <2>5, <2>6, <2>7 DEF PromptInv, PromptTyped
<1>2. CASE UNCHANGED promptVars
  <2>1. SameDisk /\ UNCHANGED <<cache, put, del, res, clash, live, gap>>
    BY <1>2 DEF promptVars, SameDisk
  <2>2. PromptTyped'
    BY <2>1 DEF PromptInv, PromptTyped, DiskTyped, CacheTyped, SearchTyped, HistoryTyped, Loading, SameDisk
  <2>3. Placed' /\ \A p \in Paths \ clash' : (Alone(p) /\ Installed(p))'
    BY <2>1, SearchKeeps DEF PromptInv, KeepsPath
  <2>4. \A p \in Paths \ clash' : Cached(p)'
    BY <2>1 DEF PromptInv, Cached, Entry, Known, Whole, Decodes, Home, Fresh, Path, SameDisk
  <2>5. \A c \in Callers : res'[c].pc # "idle" /\ Path(c)' \notin clash' => Searching(c)'
    BY <2>1 DEF PromptInv, Searching, Loading, Entry, Known, Whole, Decodes, Home, Fresh, Path, SameDisk
  <2>6. ServedIsCurrent' /\ \A c \in Callers : PassedGaps(c)'
    BY <2>1 DEF PromptInv, ServedIsCurrent, PassedGaps, Path
  <2> QED BY <2>2, <2>3, <2>4, <2>5, <2>6 DEF PromptInv
<1> QED BY <1>1, <1>2

\* The store of prompts keeps the types of what it holds, and each inode is at
\* one path at most.
THEOREM PromptStoreTypes == PromptSpec => []PromptTypeOK
<1>1. PromptInv => PromptTypeOK
  BY PromptTypes DEF PromptInv
<1> QED BY <1>1, PromptStarts, PromptSteps, PTL DEF PromptSpec

\* What a caller hears is one upload from beginning to end, in place at some
\* moment of its search: Put writes to a temporary file and renames it, Resolve
\* trusts the cache only for the time and size of the file it has just seen.
THEOREM CallersHearCurrentPrompts == PromptSpec => []ServedIsCurrent
<1>1. PromptInv => ServedIsCurrent
  BY DEF PromptInv
<1> QED BY <1>1, PromptStarts, PromptSteps, PTL DEF PromptSpec

\* Resolve widens its search, or gives silence, only past prompts that were
\* missing meanwhile: replacing one never leaves its callers without.
THEOREM SearchesWidenOnlyPastGaps == PromptSpec => []WidensOnlyPastGaps
<1>1. PromptInv => WidensOnlyPastGaps
  BY DEF PromptInv, PassedGaps, WidensOnlyPastGaps
<1> QED BY <1>1, PromptStarts, PromptSteps, PTL DEF PromptSpec
=============================================================================
