--------------------------- MODULE FlowCursorProofs ---------------------------
(***************************************************************************)
(* Proofs about FlowCursor for every set of documents offered for          *)
(* publication: type correctness, retry counts, the bound on reprompts,    *)
(* EC-23, the finality of an arm, that the cursor is the one the turn      *)
(* machine uses (GraphWalk), and the part of the publish check on          *)
(* transfers that does what the arm needs.                                 *)
(*                                                                         *)
(* Then about ListenPath, what the cursor walks on, for every capacity of  *)
(* its channels and any number of frames: types and capacities, and that   *)
(* every frame is accounted for, once and in order.                        *)
(***************************************************************************)
EXTENDS FlowCursor, ListenPath, SequenceTheorems, TLAPS

Callers == {"none", "bootstrap", "choice", "language", "unclear"}
Turns == [by : Callers, out : Outcomes, why : Causes]

\* What the types of a document say of the fields the cursor reads.
LEMMA DocFields ==
  ASSUME TypeOK
  PROVE  /\ doc.edges \subseteq Edges
         /\ doc.type \in [Nodes -> NodeTypes]
         /\ doc.intent \in [Nodes -> Intents \cup {NoIntent}]
         /\ doc.repair \in [Nodes -> Policies]
BY DEF TypeOK, Documents

LEMMA EdgeFields ==
  ASSUME NEW e \in Edges, Take(e)
  PROVE  node' \in Nodes /\ lastIntent' \in Intents \cup {NoIntent} /\ asked' = 0
BY DEF Edges, Take

LEMMA OutEdges ==
  ASSUME TypeOK, NEW n, NEW k, NEW e \in Out(n, k)
  PROVE  e \in Edges
BY DocFields DEF Out

\* Every move of the cursor is along one edge, and clears the asking.
LEMMA Moves ==
  ASSUME TypeOK,
         HandleChoice \/ HandleLanguage \/ RepairExhausted \/ WalkNext \/ FailInform
  PROVE  node' \in Nodes /\ lastIntent' \in Intents \cup {NoIntent} /\ asked' = 0
<1>1. \E e \in Edges : Take(e)
  BY OutEdges DEF HandleChoice, HandleLanguage, RepairExhausted, WalkNext, FailInform
<1> QED
  BY <1>1, EdgeFields

\* The effective limit of a policy is a natural number.
LEMMA LimitNat ==
  ASSUME NEW p \in Policies
  PROVE  EffectiveMaxRetries(p) \in Nat
BY DEF Policies, EffectiveMaxRetries

\* Every step keeps the types.
LEMMA TypeStep ==
  ASSUME TypeOK, [Next]_vars
  PROVE  TypeOK'
<1> USE DEF TypeOK, Turns, Callers
<1>1. CASE Bootstrap
  BY <1>1 DEF Bootstrap, Begin, Stay, cursorVars, Outcomes, Causes
<1>2. CASE HandleChoice
  <2>1. turn' \in Turns
    BY <1>2 DEF HandleChoice, Begin, Outcomes, Causes
  <2>2. retries' \in [Nodes -> Nat]
    <3>1. retries' = [retries EXCEPT ![node] = 0]
      BY <1>2 DEF HandleChoice, CountReset
    <3> QED
      BY <3>1
  <2>3. UNCHANGED <<doc, armed, tool>> /\ walking' \in BOOLEAN /\ blockTool' \in BOOLEAN
    BY <1>2 DEF HandleChoice, Begin
  <2>4. node' \in Nodes /\ lastIntent' \in Intents \cup {NoIntent} /\ asked' \in Nat
    BY <1>2, Moves DEF HandleChoice, Begin
  <2> QED
    BY <2>1, <2>2, <2>3, <2>4
<1>3. CASE HandleLanguage
  <2>1. turn' \in Turns
    BY <1>3 DEF HandleLanguage, Begin, Outcomes, Causes
  <2>2. retries' \in [Nodes -> Nat]
    <3>1. retries' = [retries EXCEPT ![node] = 0]
      BY <1>3 DEF HandleLanguage, CountReset
    <3> QED
      BY <3>1
  <2>3. UNCHANGED <<doc, armed, tool>> /\ walking' \in BOOLEAN /\ blockTool' \in BOOLEAN
    BY <1>3 DEF HandleLanguage, Begin
  <2>4. node' \in Nodes /\ lastIntent' \in Intents \cup {NoIntent} /\ asked' \in Nat
    BY <1>3, Moves DEF HandleLanguage, Begin
  <2> QED
    BY <2>1, <2>2, <2>3, <2>4
<1>4. CASE NoMatch
  BY <1>4 DEF NoMatch, Refuse, Stay, cursorVars, Outcomes, Causes
<1>5. CASE Reprompt
  <2>1. turn' \in Turns
    <3>1. \/ turn' = [by |-> "unclear", out |-> "repair", why |-> "none"]
          \/ turn' = [by |-> "unclear", out |-> "error", why |-> "prompt"]
      BY <1>5 DEF Reprompt, Refuse
    <3> QED
      <4>1. \A o \in Outcomes, w \in Causes :
               [by |-> "unclear", out |-> o, why |-> w] \in Turns
        OBVIOUS
      <4>2. {"repair", "error"} \subseteq Outcomes /\ {"none", "prompt"} \subseteq Causes
        BY DEF Outcomes, Causes
      <4> QED
        BY <3>1, <4>1, <4>2
  <2>2. retries' \in [Nodes -> Nat]
    <3>1. retries' = [retries EXCEPT ![node] = @ + 1]
      BY <1>5 DEF Reprompt, CountReset
    <3> QED
      BY <3>1
  <2>3. UNCHANGED <<doc, armed, tool>> /\ walking' \in BOOLEAN /\ blockTool' \in BOOLEAN
    BY <1>5 DEF Reprompt, Refuse
  <2>4. node' \in Nodes /\ lastIntent' \in Intents \cup {NoIntent} /\ asked' \in Nat
    BY <1>5 DEF Reprompt, Refuse
  <2> QED
    BY <2>1, <2>2, <2>3, <2>4
<1>6. CASE RepairExhausted
  <2>1. turn' \in Turns
    BY <1>6 DEF RepairExhausted, Begin, Outcomes, Causes
  <2>2. retries' \in [Nodes -> Nat]
    <3>1. retries' = [retries EXCEPT ![node] = 0]
      BY <1>6 DEF RepairExhausted, CountReset
    <3> QED
      BY <3>1
  <2>3. UNCHANGED <<doc, armed, tool>> /\ walking' \in BOOLEAN /\ blockTool' \in BOOLEAN
    BY <1>6 DEF RepairExhausted, Begin
  <2>4. node' \in Nodes /\ lastIntent' \in Intents \cup {NoIntent} /\ asked' \in Nat
    BY <1>6, Moves DEF RepairExhausted, Begin
  <2> QED
    BY <2>1, <2>2, <2>3, <2>4
<1>7. CASE RepairUndrawn
  <2>1. turn' \in Turns
    BY <1>7 DEF RepairUndrawn, Refuse, Stay, Outcomes, Causes
  <2>2. retries' \in [Nodes -> Nat]
    <3>1. retries' = [retries EXCEPT ![node] = @ + 1]
      BY <1>7 DEF RepairUndrawn, CountReset
    <3> QED
      BY <3>1
  <2>3. UNCHANGED <<doc, armed, tool>> /\ walking' \in BOOLEAN /\ blockTool' \in BOOLEAN
    BY <1>7 DEF RepairUndrawn, Refuse, Stay
  <2>4. node' \in Nodes /\ lastIntent' \in Intents \cup {NoIntent} /\ asked' \in Nat
    BY <1>7 DEF RepairUndrawn, Refuse, Stay
  <2> QED
    BY <2>1, <2>2, <2>3, <2>4
<1>8. CASE NotListening
  BY <1>8 DEF NotListening, Refuse, Stay, cursorVars, Outcomes, Causes
<1>9. CASE WalkNext
  BY <1>9, Moves DEF WalkNext, At, cursorVars
<1>10. CASE WalkNoNext
  <2>1. UNCHANGED <<doc, armed, retries, tool, node, lastIntent, asked>>
    BY <1>10 DEF WalkNoNext, Stay
  <2>2. walking' = FALSE /\ blockTool' = FALSE
    BY <1>10 DEF WalkNoNext, Return
  <2>3. turn' \in Turns
    BY <1>10 DEF WalkNoNext, Return, Outcomes, Causes
  <2> QED
    BY <2>1, <2>2, <2>3
<1>11. CASE FailInform
  BY <1>11, Moves DEF FailInform, At, cursorVars
<1>12. CASE FailInformUndrawn
  <2>1. UNCHANGED <<doc, armed, retries, tool, node, lastIntent, asked>>
    BY <1>12 DEF FailInformUndrawn, Stay
  <2>2. walking' = FALSE /\ blockTool' = FALSE
    BY <1>12 DEF FailInformUndrawn, Return
  <2>3. turn' \in Turns
    BY <1>12 DEF FailInformUndrawn, Return, Outcomes, Causes
  <2> QED
    BY <2>1, <2>2, <2>3
<1>13. CASE WalkListen
  <2>1. UNCHANGED <<doc, armed, retries, tool, node, lastIntent, asked>>
    BY <1>13 DEF WalkListen, Stay
  <2>2. walking' = FALSE /\ blockTool' = FALSE
    BY <1>13 DEF WalkListen, Return
  <2>3. turn' \in Turns
    BY <1>13 DEF WalkListen, Return, Outcomes, Causes
  <2> QED
    BY <2>1, <2>2, <2>3
<1>14. CASE WalkEnd
  <2>1. UNCHANGED <<doc, armed, retries, tool, node, lastIntent, asked>>
    BY <1>14 DEF WalkEnd, Stay
  <2>2. walking' = FALSE /\ blockTool' = FALSE
    BY <1>14 DEF WalkEnd, Return
  <2>3. turn' \in Turns
    BY <1>14 DEF WalkEnd, Return, Outcomes, Causes
  <2> QED
    BY <2>1, <2>2, <2>3
<1>15. CASE WalkDecide
  <2>1. UNCHANGED <<doc, armed, retries, tool, node, lastIntent, asked>>
    BY <1>15 DEF WalkDecide, Stay
  <2>2. walking' = FALSE /\ blockTool' = FALSE
    BY <1>15 DEF WalkDecide, Return
  <2>3. turn' \in Turns
    BY <1>15 DEF WalkDecide, Return, Outcomes, Causes
  <2> QED
    BY <2>1, <2>2, <2>3
<1>16. CASE ToolRefused
  <2>1. UNCHANGED <<doc, armed, retries, tool, node, lastIntent, asked>>
    BY <1>16 DEF ToolRefused, Stay
  <2>2. walking' = FALSE /\ blockTool' = FALSE
    BY <1>16 DEF ToolRefused, Return
  <2>3. turn' \in Turns
    BY <1>16 DEF ToolRefused, Return, Outcomes, Causes
  <2> QED
    BY <2>1, <2>2, <2>3
<1>17. CASE ArmTool
  <2>1. UNCHANGED <<doc, retries, node, lastIntent, asked>> /\ armed' = TRUE
    BY <1>17 DEF ArmTool, Stay
  <2>2. walking' = FALSE /\ blockTool' = FALSE
    BY <1>17 DEF ArmTool, Return
  <2>3. turn' \in Turns
    BY <1>17 DEF ArmTool, Return, Outcomes, Causes
  <2>4. tool' \in Seq(ArmedTools)
    <3>1. ArmIntent \in Intents \cup {NoIntent}
      BY DocFields DEF ArmIntent
    <3>2. doc.type[node] \in Tools
      BY <1>17 DEF ArmTool, At
    <3> DEFINE t == [kind |-> doc.type[node],
                     intent |-> IF doc.type[node] = "transfer" THEN ArmIntent ELSE NoIntent]
    <3>3. t \in ArmedTools
      BY <3>1, <3>2 DEF ArmedTools
    <3>4. tool' = Append(tool, t)
      BY <1>17 DEF ArmTool
    <3> HIDE DEF t
    <3> QED
      BY <3>3, <3>4
  <2> QED
    BY <2>1, <2>2, <2>3, <2>4
<1>18. CASE UNCHANGED vars
  BY <1>18 DEF vars, cursorVars
<1> QED
  BY <1>1, <1>2, <1>3, <1>4, <1>5, <1>6, <1>7, <1>8, <1>9, <1>10, <1>11, <1>12, <1>13, <1>14, <1>15, <1>16, <1>17, <1>18 DEF Next, HandleUtterance, AdvanceSilent

\* FlowCursor, TypeOK: on any set of documents every variable of the cursor
\* keeps its type.
THEOREM TypeCorrect == Spec => []TypeOK
<1>1. Init => TypeOK
  <2> SUFFICES ASSUME Init PROVE TypeOK
    OBVIOUS
  <2>1. doc \in Documents
    BY DocsAssumption DEF Init
  <2>2. node \in Nodes
    BY <2>1 DEF Init, Documents
  <2>3. turn \in Turns /\ tool \in Seq(ArmedTools)
    BY EmptySeq DEF Init, Idle, Turns, Callers, Outcomes, Causes
  <2> QED
    BY <2>1, <2>2, <2>3 DEF Init, TypeOK, Turns, Callers
<1>2. TypeOK /\ [Next]_vars => TypeOK'
  BY TypeStep
<1> QED
  BY <1>1, <1>2, PTL DEF Spec

-----------------------------------------------------------------------------
\* OnlyCurrentCounts and AskedWithinPolicy together: what was asked since the
\* cursor came to the node is counted there, and nothing else is.
CountInv ==
  /\ OnlyCurrentCounts
  /\ asked <= retries[node]
  /\ AskedWithinPolicy

\* A node is left with its count reset, and asked again only within its limit.
LEMMA CountStep ==
  ASSUME TypeOK, CountInv, [Next]_vars
  PROVE  CountInv'
<1> USE DEF TypeOK, CountInv, OnlyCurrentCounts, AskedWithinPolicy, Listening
<1>1. CASE Bootstrap
  BY <1>1 DEF Bootstrap, Begin, Stay, cursorVars
<1>2. CASE HandleChoice
  BY <1>2, Moves DEF HandleChoice, Begin, CountReset, cursorVars
<1>3. CASE HandleLanguage
  BY <1>3, Moves DEF HandleLanguage, Begin, CountReset, cursorVars
<1>4. CASE NoMatch
  BY <1>4 DEF NoMatch, Refuse, Stay, cursorVars
<1>5. CASE Reprompt
  <2>1. /\ doc.type[node] \in Listening /\ ~Exhausted(node)
        /\ retries' = [retries EXCEPT ![node] = @ + 1]
        /\ asked' = asked + 1 \/ asked' = asked
        /\ UNCHANGED <<doc, node>>
    BY <1>5 DEF Reprompt, Unclear
  <2>2. EffectiveMaxRetries(doc.repair[node]) \in Nat
    BY DocFields, LimitNat
  <2>3. retries[node] + 1 <= EffectiveMaxRetries(doc.repair[node])
    BY <2>1, <2>2 DEF Exhausted
  <2> QED
    BY <2>1, <2>2, <2>3
<1>6. CASE RepairExhausted
  BY <1>6, Moves DEF RepairExhausted, Unclear, Begin, CountReset, cursorVars
<1>7. CASE RepairUndrawn
  <2>1. /\ doc.type[node] \in Listening
        /\ retries' = [retries EXCEPT ![node] = @ + 1]
        /\ UNCHANGED <<doc, node, asked>>
    BY <1>7 DEF RepairUndrawn, Unclear, Stay
  <2>2. retries[node] \in Nat /\ retries'[node] = retries[node] + 1
    BY <2>1
  <2> QED
    BY <2>1, <2>2
<1>8. CASE NotListening
  BY <1>8 DEF NotListening, Refuse, Stay, cursorVars
<1>9. CASE WalkNext
  BY <1>9, Moves DEF WalkNext, At, cursorVars
<1>10. CASE WalkNoNext
  BY <1>10 DEF WalkNoNext, At, Return, Stay, cursorVars
<1>11. CASE FailInform
  BY <1>11, Moves DEF FailInform, At, cursorVars
<1>12. CASE FailInformUndrawn
  BY <1>12 DEF FailInformUndrawn, At, Return, Stay, cursorVars
<1>13. CASE WalkListen
  BY <1>13 DEF WalkListen, At, Return, Stay, cursorVars
<1>14. CASE WalkEnd
  BY <1>14 DEF WalkEnd, At, Return, Stay, cursorVars
<1>15. CASE WalkDecide
  BY <1>15 DEF WalkDecide, At, Return, Stay, cursorVars
<1>16. CASE ToolRefused
  BY <1>16 DEF ToolRefused, At, Return, Stay, cursorVars
<1>17. CASE ArmTool
  BY <1>17 DEF ArmTool, At, AlreadyArmed, Return, Stay, cursorVars
<1>18. CASE UNCHANGED vars
  BY <1>18 DEF vars, cursorVars
<1> QED
  BY <1>1, <1>2, <1>3, <1>4, <1>5, <1>6, <1>7, <1>8, <1>9, <1>10, <1>11, <1>12, <1>13, <1>14, <1>15, <1>16, <1>17, <1>18 DEF Next, HandleUtterance, AdvanceSilent

LEMMA Counting == Spec => []CountInv
<1>1. Init /\ TypeOK => CountInv
  BY DEF Init, TypeOK, CountInv, OnlyCurrentCounts, AskedWithinPolicy
<1>2. TypeOK /\ CountInv /\ [Next]_vars => CountInv'
  BY CountStep
<1> QED
  BY TypeCorrect, <1>1, <1>2, PTL DEF Spec

\* FlowCursor, OnlyCurrentCounts: a node the caller comes back to gives all of
\* its retries again, on whatever document.
THEOREM CountsAreFresh == Spec => []OnlyCurrentCounts
<1>1. CountInv => OnlyCurrentCounts
  BY DEF CountInv
<1> QED
  BY Counting, <1>1, PTL

\* FlowCursor, AskedWithinPolicy: no caller is asked more often than the
\* policy of the node says, negative and unset limits included.
THEOREM AskingIsBounded == Spec => []AskedWithinPolicy
<1>1. CountInv => AskedWithinPolicy
  BY DEF CountInv
<1> QED
  BY Counting, <1>1, PTL

-----------------------------------------------------------------------------
\* LanguageTurnNeverArms made inductive: the block is set exactly while a
\* language turn walks on.
LanguageInv ==
  /\ blockTool <=> walking /\ turn.by = "language"
  /\ turn.by = "language" => turn.out # "armed"

\* The walk of a language turn starts and ends together with the block.
LEMMA LanguageStep ==
  ASSUME TypeOK, LanguageInv, [Next]_vars
  PROVE  LanguageInv'
<1> USE DEF TypeOK, LanguageInv
<1>1. CASE Bootstrap
  BY <1>1 DEF Bootstrap, Begin, Stay, cursorVars
<1>2. CASE HandleChoice
  BY <1>2, Moves DEF HandleChoice, Begin, CountReset, cursorVars
<1>3. CASE HandleLanguage
  BY <1>3, Moves DEF HandleLanguage, Begin, CountReset, cursorVars
<1>4. CASE NoMatch
  BY <1>4 DEF NoMatch, Refuse, Stay, cursorVars
<1>5. CASE Reprompt
  BY <1>5 DEF Reprompt, Unclear, Refuse, cursorVars
<1>6. CASE RepairExhausted
  BY <1>6, Moves DEF RepairExhausted, Unclear, Begin, CountReset, cursorVars
<1>7. CASE RepairUndrawn
  BY <1>7 DEF RepairUndrawn, Unclear, Refuse, Stay, cursorVars
<1>8. CASE NotListening
  BY <1>8 DEF NotListening, Refuse, Stay, cursorVars
<1>9. CASE WalkNext
  BY <1>9, Moves DEF WalkNext, At, cursorVars
<1>10. CASE WalkNoNext
  BY <1>10 DEF WalkNoNext, At, Return, Stay, cursorVars
<1>11. CASE FailInform
  BY <1>11, Moves DEF FailInform, At, cursorVars
<1>12. CASE FailInformUndrawn
  BY <1>12 DEF FailInformUndrawn, At, Return, Stay, cursorVars
<1>13. CASE WalkListen
  BY <1>13 DEF WalkListen, At, Return, Stay, cursorVars
<1>14. CASE WalkEnd
  BY <1>14 DEF WalkEnd, At, Return, Stay, cursorVars
<1>15. CASE WalkDecide
  BY <1>15 DEF WalkDecide, At, Return, Stay, cursorVars
<1>16. CASE ToolRefused
  BY <1>16 DEF ToolRefused, At, Return, Stay, cursorVars
<1>17. CASE ArmTool
  BY <1>17 DEF ArmTool, At, AlreadyArmed, Return, Stay, cursorVars
<1>18. CASE UNCHANGED vars
  BY <1>18 DEF vars, cursorVars
<1> QED
  BY <1>1, <1>2, <1>3, <1>4, <1>5, <1>6, <1>7, <1>8, <1>9, <1>10, <1>11, <1>12, <1>13, <1>14, <1>15, <1>16, <1>17, <1>18 DEF Next, HandleUtterance, AdvanceSilent

\* FlowCursor, LanguageTurnNeverArms: EC-23, on any document, a turn in which
\* the caller chose a language arms no Tool.
THEOREM EC23 == Spec => []LanguageTurnNeverArms
<1>1. Init => LanguageInv
  BY DEF Init, Idle, LanguageInv
<1>2. TypeOK /\ LanguageInv /\ [Next]_vars => LanguageInv'
  BY LanguageStep
<1>3. LanguageInv => LanguageTurnNeverArms
  BY DEF LanguageInv, LanguageTurnNeverArms
<1> QED
  BY TypeCorrect, <1>1, <1>2, <1>3, PTL DEF Spec

-----------------------------------------------------------------------------
\* Once a Tool is armed the cursor rests on a Tool node, where no utterance is
\* handled and the walk is refused.
ArmInv ==
  /\ tool # <<>> => armed
  /\ armed => doc.type[node] \in Tools

\* Only the arm sets armed, and an armed cursor takes no edge.
LEMMA ArmStep ==
  ASSUME TypeOK, ArmInv, [Next]_vars
  PROVE  ArmInv'
<1> USE DEF TypeOK, ArmInv, Tools, Listening
<1>1. CASE Bootstrap
  BY <1>1 DEF Bootstrap, Begin, Stay, cursorVars
<1>2. CASE HandleChoice
  BY <1>2, Moves DEF HandleChoice, Begin, CountReset, cursorVars
<1>3. CASE HandleLanguage
  BY <1>3, Moves DEF HandleLanguage, Begin, CountReset, cursorVars
<1>4. CASE NoMatch
  BY <1>4 DEF NoMatch, Refuse, Stay, cursorVars
<1>5. CASE Reprompt
  BY <1>5 DEF Reprompt, Unclear, Refuse, cursorVars
<1>6. CASE RepairExhausted
  BY <1>6, Moves DEF RepairExhausted, Unclear, Begin, CountReset, cursorVars
<1>7. CASE RepairUndrawn
  BY <1>7 DEF RepairUndrawn, Unclear, Refuse, Stay, cursorVars
<1>8. CASE NotListening
  BY <1>8 DEF NotListening, Refuse, Stay, cursorVars
<1>9. CASE WalkNext
  BY <1>9, Moves DEF WalkNext, At, cursorVars
<1>10. CASE WalkNoNext
  BY <1>10 DEF WalkNoNext, At, Return, Stay, cursorVars
<1>11. CASE FailInform
  BY <1>11, Moves DEF FailInform, At, cursorVars
<1>12. CASE FailInformUndrawn
  BY <1>12 DEF FailInformUndrawn, At, Return, Stay, cursorVars
<1>13. CASE WalkListen
  BY <1>13 DEF WalkListen, At, Return, Stay, cursorVars
<1>14. CASE WalkEnd
  BY <1>14 DEF WalkEnd, At, Return, Stay, cursorVars
<1>15. CASE WalkDecide
  BY <1>15 DEF WalkDecide, At, Return, Stay, cursorVars
<1>16. CASE ToolRefused
  BY <1>16 DEF ToolRefused, At, Return, Stay, cursorVars
<1>17. CASE ArmTool
  BY <1>17 DEF ArmTool, At, AlreadyArmed, Return, Stay, cursorVars
<1>18. CASE UNCHANGED vars
  BY <1>18 DEF vars, cursorVars
<1> QED
  BY <1>1, <1>2, <1>3, <1>4, <1>5, <1>6, <1>7, <1>8, <1>9, <1>10, <1>11, <1>12, <1>13, <1>14, <1>15, <1>16, <1>17, <1>18 DEF Next, HandleUtterance, AdvanceSilent

LEMMA Arming == Spec => []ArmInv
<1>1. Init => ArmInv
  BY DEF Init, ArmInv
<1>2. TypeOK /\ ArmInv /\ [Next]_vars => ArmInv'
  BY ArmStep
<1> QED
  BY TypeCorrect, <1>1, <1>2, PTL DEF Spec

\* FlowCursor, ArmIsFinal: after the arm no call moves the cursor or arms
\* again, a bootstrap repeated after a failed welcome included.
THEOREM ArmFreezes == Spec => ArmIsFinal
<1>1. ArmInv /\ [Next]_vars => [tool # <<>> => node' = node /\ tool' = tool]_vars
  <2> SUFFICES ASSUME ArmInv, Next, tool # <<>>
               PROVE  node' = node /\ tool' = tool
    OBVIOUS
  <2>1. armed /\ doc.type[node] \in {"hangup", "transfer"}
    BY DEF ArmInv, Tools
  <2>2. CASE Bootstrap
    BY <2>2 DEF Bootstrap, Stay
  <2>3. CASE HandleUtterance
    BY <2>1, <2>3 DEF HandleUtterance, HandleChoice, HandleLanguage, NoMatch, Reprompt,
       RepairExhausted, RepairUndrawn, NotListening, Unclear, Listening, Stay, cursorVars
  <2>4. CASE AdvanceSilent
    BY <2>1, <2>4 DEF AdvanceSilent, WalkNext, WalkNoNext, FailInform, FailInformUndrawn,
       WalkListen, WalkEnd, WalkDecide, ToolRefused, ArmTool, AlreadyArmed, At, Listening, Stay
  <2> QED
    BY <2>2, <2>3, <2>4 DEF Next
<1> QED
  BY Arming, <1>1, PTL DEF Spec, ArmIsFinal

-----------------------------------------------------------------------------
\* The cursor of GraphWalk.
WalkVars == <<Standing, Len(tool)>>

\* As long as no Tool is armed, the only place the cursor must keep is an End.
LEMMA UnarmedMoves ==
  ASSUME ~armed, ~armed', tool' = tool, Standing = "end" => Standing' = "end"
  PROVE  [Walk!Move]_WalkVars
<1>1. Standing \in {"start", "listen", "end"} /\ Standing' \in {"start", "listen", "end"}
  BY DEF Standing
<1> QED
  BY <1>1 DEF WalkVars, Walk!Move, Walk!Goes, Walk!Finals

\* Every step of the cursor, seen between its calls, is a move or none.
LEMMA WalkStep ==
  ASSUME TypeOK, ArmInv, [Next]_vars
  PROVE  [Walk!Move]_WalkVars
<1>0. UNCHANGED doc
  BY DEF Next, HandleUtterance, AdvanceSilent, Bootstrap, HandleChoice, HandleLanguage, NoMatch,
         Reprompt, RepairExhausted, RepairUndrawn, NotListening, WalkNext, WalkNoNext, FailInform,
         FailInformUndrawn, WalkListen, WalkEnd, WalkDecide, ToolRefused, ArmTool, cursorVars, vars
<1>1. CASE UNCHANGED vars
  BY <1>1 DEF vars, cursorVars, WalkVars, Standing
<1>2. CASE Next /\ armed
  <2>1. doc.type[node] \in {"hangup", "transfer"}
    BY <1>2 DEF ArmInv, Tools
  <2>2. UNCHANGED <<node, armed, tool>>
    <3>1. CASE Bootstrap
      BY <3>1 DEF Bootstrap, Stay, cursorVars
    <3>2. CASE HandleUtterance
      BY <2>1, <3>2 DEF HandleUtterance, HandleChoice, HandleLanguage, NoMatch, Reprompt,
         RepairExhausted, RepairUndrawn, NotListening, Unclear, Listening, Stay, cursorVars
    <3>3. CASE AdvanceSilent
      BY <1>2, <2>1, <3>3 DEF AdvanceSilent, WalkNext, WalkNoNext, FailInform, FailInformUndrawn,
         WalkListen, WalkEnd, WalkDecide, ToolRefused, ArmTool, AlreadyArmed, At, Listening, Stay
    <3> QED
      BY <1>2, <3>1, <3>2, <3>3 DEF Next
  <2> QED
    BY <1>0, <1>2, <2>2 DEF WalkVars, Standing
<1>3. CASE ArmTool /\ ~armed
  <2>1. doc.type[node] \in {"hangup", "transfer"} /\ UNCHANGED node /\ armed'
    BY <1>3 DEF ArmTool, At, Tools, Stay
  <2>2. Len(tool') = Len(tool) + 1
    <3>1. PICK t : tool' = Append(tool, t)
      BY <1>3 DEF ArmTool
    <3> QED
      BY <3>1 DEF TypeOK
  <2>3. Standing \in {"start", "listen"}
    BY <1>3, <2>1 DEF Standing, Listening
  <2>4. Standing' = doc.type[node]
    BY <1>0, <2>1 DEF Standing
  <2> QED
    BY <2>1, <2>2, <2>3, <2>4 DEF Walk!Move, Walk!Goes, Walk!Finals
<1>4. CASE Next /\ ~armed /\ ~ArmTool
  <2>1. UNCHANGED <<armed, tool>>
    BY <1>4 DEF Next, HandleUtterance, AdvanceSilent, Bootstrap, HandleChoice, HandleLanguage,
       NoMatch, Reprompt, RepairExhausted, RepairUndrawn, NotListening, WalkNext, WalkNoNext,
       FailInform, FailInformUndrawn, WalkListen, WalkEnd, WalkDecide, ToolRefused, cursorVars
  <2>2. ASSUME Standing = "end"
        PROVE  Standing' = "end"
    <3>1. doc.type[node] = "End" /\ ~(walking /\ turn.by \in {"choice", "language", "unclear"})
      BY <1>4, <2>2 DEF Standing
    <3>2. CASE Bootstrap
      <4>1. UNCHANGED node /\ turn'.by = "bootstrap"
        BY <3>2 DEF Bootstrap, Begin, Stay
      <4> QED
        BY <1>0, <1>4, <2>1, <3>1, <4>1 DEF Standing, Listening
    <3>3. CASE HandleUtterance
      <4>1. NotListening
        BY <3>1, <3>3 DEF HandleUtterance, HandleChoice, HandleLanguage, NoMatch, Reprompt,
           RepairExhausted, RepairUndrawn, Unclear, Listening
      <4> QED
        BY <1>0, <1>4, <2>1, <3>1, <4>1 DEF NotListening, Refuse, Stay, Standing, Listening
    <3>4. CASE AdvanceSilent
      <4>1. WalkEnd
        BY <1>4, <3>1, <3>4 DEF AdvanceSilent, WalkNext, WalkNoNext, FailInform, FailInformUndrawn,
           WalkListen, WalkDecide, ToolRefused, At, Listening, Tools
      <4> QED
        BY <1>0, <1>4, <2>1, <3>1, <4>1 DEF WalkEnd, Return, Stay, Standing, Listening
    <3> QED
      BY <1>4, <3>2, <3>3, <3>4 DEF Next
  <2> QED
    BY <1>4, <2>1, <2>2, UnarmedMoves
<1> QED
  BY <1>1, <1>2, <1>3, <1>4

\* FlowCursor, ImplementsGraphWalk: for the turn machine the cursor is
\* GraphWalk, on any document and however its calls fail and are repeated.
THEOREM CursorWalks == Spec => ImplementsGraphWalk
<1>1. Init => Walk!WalkInit
  <2> SUFFICES ASSUME Init
               PROVE  Walk!WalkInit
    OBVIOUS
  <2>1. doc \in Docs /\ Validates(doc) /\ node = doc.entry
    BY DEF Init
  <2>2. doc.type[node] = "Entry"
    BY <2>1, DocsAssumption DEF Validates, Documents
  <2>3. Standing = "start" /\ Len(tool) = 0
    BY <2>2 DEF Init, Standing, Listening
  <2> QED
    BY <2>3 DEF Walk!WalkInit
<1>2. TypeOK /\ ArmInv /\ [Next]_vars => [Walk!Move]_WalkVars
  BY WalkStep
<1> QED
  BY TypeCorrect, Arming, <1>1, <1>2, PTL
     DEF Spec, ImplementsGraphWalk, Walk!WalkSpec, WalkVars

-----------------------------------------------------------------------------
\* NamedTransferArms made inductive: the pinned document passed the publish
\* check, and a walk in progress has no outcome yet.
NamedInv ==
  /\ \A n \in Nodes : doc.type[n] = "transfer" => TransferValid(doc, n)
  /\ walking => turn.why = "none"
  /\ NamedTransferArms

\* A transfer with an intent of its own passed the check on that intent.
LEMMA NamedStep ==
  ASSUME TypeOK, NamedInv, [Next]_vars
  PROVE  NamedInv'
<1> USE DEF TypeOK, NamedInv, NamedTransferArms
<1>1. CASE Bootstrap
  BY <1>1 DEF Bootstrap, Begin, Stay, cursorVars
<1>2. CASE HandleChoice
  BY <1>2, Moves DEF HandleChoice, Begin, CountReset, cursorVars
<1>3. CASE HandleLanguage
  BY <1>3, Moves DEF HandleLanguage, Begin, CountReset, cursorVars
<1>4. CASE NoMatch
  BY <1>4 DEF NoMatch, Refuse, Stay, cursorVars
<1>5. CASE Reprompt
  BY <1>5 DEF Reprompt, Unclear, Refuse, cursorVars
<1>6. CASE RepairExhausted
  BY <1>6, Moves DEF RepairExhausted, Unclear, Begin, CountReset, cursorVars
<1>7. CASE RepairUndrawn
  BY <1>7 DEF RepairUndrawn, Unclear, Refuse, Stay, cursorVars
<1>8. CASE NotListening
  BY <1>8 DEF NotListening, Refuse, Stay, cursorVars
<1>9. CASE WalkNext
  BY <1>9, Moves DEF WalkNext, At, cursorVars
<1>10. CASE WalkNoNext
  BY <1>10 DEF WalkNoNext, At, Return, Stay, cursorVars
<1>11. CASE FailInform
  BY <1>11, Moves DEF FailInform, At, cursorVars
<1>12. CASE FailInformUndrawn
  BY <1>12 DEF FailInformUndrawn, At, Return, Stay, cursorVars
<1>13. CASE WalkListen
  BY <1>13 DEF WalkListen, At, Return, Stay, cursorVars
<1>14. CASE WalkEnd
  BY <1>14 DEF WalkEnd, At, Return, Stay, cursorVars
<1>15. CASE WalkDecide
  BY <1>15 DEF WalkDecide, At, Return, Stay, cursorVars
<1>16. CASE ToolRefused
  <2>1. /\ UNCHANGED <<doc, node>> /\ walking' = FALSE
        /\ turn'.why = IF blockTool THEN "ec23" ELSE IF AlreadyArmed THEN "armed" ELSE "matrix"
        /\ blockTool \/ AlreadyArmed \/ RowMissing
    BY <1>16 DEF ToolRefused, Return, Stay
  <2>2. (RowMissing /\ doc.intent[node] # NoIntent) => FALSE
    <3> SUFFICES ASSUME RowMissing, doc.intent[node] # NoIntent PROVE FALSE
      OBVIOUS
    <3>1. TransferValid(doc, node) /\ doc.intent[node] \notin doc.matrix
      BY DEF RowMissing, ArmIntent
    <3> QED
      BY <3>1 DEF TransferValid, NodeIntentsSeen
  <2>3. doc'.type = doc.type /\ \A n \in Nodes : TransferValid(doc, n) => TransferValid(doc', n)
    BY <2>1 DEF TransferValid, NodeIntentsSeen
  <2> QED
    BY <2>1, <2>2, <2>3
<1>17. CASE ArmTool
  BY <1>17 DEF ArmTool, At, AlreadyArmed, Return, Stay, cursorVars
<1>18. CASE UNCHANGED vars
  BY <1>18 DEF vars, cursorVars
<1> QED
  BY <1>1, <1>2, <1>3, <1>4, <1>5, <1>6, <1>7, <1>8, <1>9, <1>10, <1>11, <1>12, <1>13, <1>14, <1>15, <1>16, <1>17, <1>18 DEF Next, HandleUtterance, AdvanceSilent

\* FlowCursor, NamedTransferArms: validation is enough for every transfer that
\* names its own intent, on any document that passes it.
THEOREM NamedTransfersArm == Spec => []NamedTransferArms
<1>1. Init => NamedInv
  BY DEF Init, Idle, Validates, NamedInv, NamedTransferArms
<1>2. TypeOK /\ NamedInv /\ [Next]_vars => NamedInv'
  BY NamedStep
<1>3. NamedInv => NamedTransferArms
  BY DEF NamedInv
<1> QED
  BY TypeCorrect, <1>1, <1>2, <1>3, PTL DEF Spec

-----------------------------------------------------------------------------
(* What the graph walks on: the uplink.                                    *)
Before(S, T) == \A x \in S, y \in T : x < y

LEMMA AppendRises ==
  ASSUME NEW s \in Seq(Nat), NEW x \in Nat
  PROVE  /\ Append(s, x) \in Seq(Nat) /\ Range(Append(s, x)) = Range(s) \union {x}
         /\ Rising(s) /\ Before(Range(s), {x}) => Rising(Append(s, x))
<1> DEFINE t == Append(s, x)
<1>1. /\ t \in Seq(Nat) /\ Len(t) = Len(s) + 1 /\ Len(s) \in Nat
      /\ \A i \in 1 .. Len(s) : t[i] = s[i]
      /\ t[Len(s) + 1] = x /\ DOMAIN t = 1 .. Len(s) + 1 /\ DOMAIN s = 1 .. Len(s)
  OBVIOUS
<1> HIDE DEF t
<1>2. Range(t) = Range(s) \union {x}
  BY <1>1 DEF Range
<1>3. ASSUME Rising(s), Before(Range(s), {x}), NEW i \in DOMAIN t, NEW j \in DOMAIN t, i < j
      PROVE  t[i] < t[j]
  <2>1. i \in 1 .. Len(s) /\ t[i] = s[i]
    BY <1>1, <1>3
  <2>2. CASE j = Len(s) + 1
    BY <1>1, <1>3, <2>1, <2>2 DEF Before, Range
  <2>3. CASE j \in 1 .. Len(s)
    BY <1>1, <1>3, <2>1, <2>3 DEF Rising
  <2> QED BY <1>1, <2>2, <2>3
<1> QED BY <1>1, <1>2, <1>3 DEF Rising, t

LEMMA HeadLeads ==
  ASSUME NEW s \in Seq(Nat), s # <<>>
  PROVE  /\ Head(s) \in Nat /\ Tail(s) \in Seq(Nat) /\ Len(Tail(s)) = Len(s) - 1
         /\ Range(s) = {Head(s)} \union Range(Tail(s))
         /\ Rising(s) => Rising(Tail(s)) /\ Before({Head(s)}, Range(Tail(s)))
<1> DEFINE t == Tail(s)
<1>1. /\ t \in Seq(Nat) /\ Len(t) = Len(s) - 1 /\ Len(s) \in Nat \ {0} /\ Head(s) = s[1]
      /\ \A i \in 1 .. Len(t) : t[i] = s[i + 1]
      /\ DOMAIN t = 1 .. Len(t) /\ DOMAIN s = 1 .. Len(s)
  OBVIOUS
<1> HIDE DEF t
<1>2. Range(s) = {Head(s)} \union Range(t)
  <2>1. ASSUME NEW i \in DOMAIN s, i # 1 PROVE i - 1 \in DOMAIN t /\ s[i] = t[i - 1]
    <3>1. i - 1 \in 1 .. Len(t) /\ (i - 1) + 1 = i
      BY <1>1, <2>1
    <3> QED BY <1>1, <3>1
  <2>2. ASSUME NEW i \in DOMAIN t PROVE i + 1 \in DOMAIN s /\ t[i] = s[i + 1]
    <3>1. i \in 1 .. Len(t) /\ i + 1 \in 1 .. Len(s)
      BY <1>1
    <3> QED BY <1>1, <3>1
  <2>3. \A i \in DOMAIN s : s[i] \in {Head(s)} \union Range(t)
    BY <1>1, <2>1 DEF Range
  <2>4. Head(s) \in Range(s)
    <3>1. 1 \in DOMAIN s /\ Head(s) = s[1]
      BY <1>1
    <3> QED BY <3>1 DEF Range
  <2>5. \A i \in DOMAIN t : t[i] \in Range(s)
    BY <2>2 DEF Range
  <2> QED BY <2>3, <2>4, <2>5 DEF Range
<1>3. ASSUME Rising(s) PROVE Rising(t) /\ Before({Head(s)}, Range(t))
  <2>1. ASSUME NEW i \in DOMAIN t
        PROVE  i + 1 \in DOMAIN s /\ 1 \in DOMAIN s /\ 1 < i + 1 /\ t[i] = s[i + 1]
    <3>1. i \in 1 .. Len(t) /\ i + 1 \in 1 .. Len(s) /\ 1 \in 1 .. Len(s) /\ 1 < i + 1
      BY <1>1
    <3> QED BY <1>1, <3>1
  <2>2. Before({Head(s)}, Range(t))
    BY <1>1, <1>3, <2>1 DEF Rising, Before, Range
  <2>3. ASSUME NEW i \in DOMAIN t, NEW j \in DOMAIN t, i < j PROVE t[i] < t[j]
    <3>1. i + 1 < j + 1
      BY <1>1, <2>3
    <3> QED BY <1>3, <2>1, <3>1 DEF Rising
  <2> QED BY <2>2, <2>3 DEF Rising
<1> QED BY <1>1, <1>2, <1>3 DEF t

LEMMA ConcatRises ==
  ASSUME NEW s \in Seq(Nat), NEW t \in Seq(Nat)
  PROVE  /\ s \o t \in Seq(Nat) /\ Range(s \o t) = Range(s) \union Range(t)
         /\ Rising(s) /\ Rising(t) /\ Before(Range(s), Range(t)) => Rising(s \o t)
<1> DEFINE c == s \o t
<1>1. /\ c \in Seq(Nat) /\ Len(c) = Len(s) + Len(t) /\ Len(s) \in Nat /\ Len(t) \in Nat
      /\ \A i \in 1 .. Len(c) : c[i] = IF i <= Len(s) THEN s[i] ELSE t[i - Len(s)]
      /\ DOMAIN c = 1 .. Len(c) /\ DOMAIN s = 1 .. Len(s) /\ DOMAIN t = 1 .. Len(t)
  BY ConcatProperties
<1> HIDE DEF c
<1>2. ASSUME NEW i \in DOMAIN c
      PROVE  \/ i \in DOMAIN s /\ c[i] = s[i]
             \/ i > Len(s) /\ i - Len(s) \in DOMAIN t /\ c[i] = t[i - Len(s)]
  <2>1. i \in 1 .. Len(s) + Len(t)
    BY <1>1
  <2>2. CASE i <= Len(s)
    BY <1>1, <2>1, <2>2
  <2>3. CASE i > Len(s)
    <3>1. i - Len(s) \in 1 .. Len(t)
      BY <1>1, <2>1, <2>3
    <3> QED BY <1>1, <2>1, <2>3, <3>1
  <2> QED BY <1>1, <2>1, <2>2, <2>3
<1>3. \A i \in DOMAIN s : i \in DOMAIN c /\ c[i] = s[i]
  BY <1>1
<1>4. ASSUME NEW i \in DOMAIN t PROVE i + Len(s) \in DOMAIN c /\ c[i + Len(s)] = t[i]
  <2> DEFINE k == i + Len(s)
  <2>1. k \in 1 .. Len(c) /\ ~(k <= Len(s)) /\ k - Len(s) = i
    BY <1>1
  <2> HIDE DEF k
  <2>2. k \in DOMAIN c /\ c[k] = t[i]
    BY <1>1, <2>1
  <2> QED BY <2>2 DEF k
<1>5. Range(c) = Range(s) \union Range(t)
  BY <1>2, <1>3, <1>4 DEF Range
<1>6. ASSUME Rising(s), Rising(t), Before(Range(s), Range(t)),
             NEW i \in DOMAIN c, NEW j \in DOMAIN c, i < j
      PROVE  c[i] < c[j]
  <2>1. CASE i \in DOMAIN s /\ j \in DOMAIN s
    BY <1>3, <1>6, <2>1 DEF Rising
  <2>2. CASE i \in DOMAIN s /\ j \notin DOMAIN s
    BY <1>2, <1>3, <1>6, <2>2 DEF Before, Range
  <2>3. CASE i \notin DOMAIN s
    <3>1. i \in Int /\ j \in Int /\ i > Len(s) /\ j > Len(s)
      BY <1>1, <1>6, <2>3
    <3>2. i - Len(s) < j - Len(s)
      BY <1>1, <1>6, <3>1
    <3>3. i \notin 1 .. Len(s) /\ j \notin 1 .. Len(s) /\ DOMAIN s = 1 .. Len(s)
      BY <1>1, <3>1
    <3>4. /\ i - Len(s) \in DOMAIN t /\ c[i] = t[i - Len(s)]
          /\ j - Len(s) \in DOMAIN t /\ c[j] = t[j - Len(s)]
      BY <1>2, <1>6, <3>3
    <3> QED BY <1>6, <3>2, <3>4 DEF Rising
  <2> QED BY <2>1, <2>2, <2>3
<1> QED BY <1>1, <1>5, <1>6 DEF Rising, c

\* The frame a pump holds, if any.
Holds(p) == IF p.frame = 0 THEN {} ELSE {p.frame}

Accounts == [recorder : Seq(Frame), dropped : SUBSET Frame, skipped : SUBSET Frame,
             vendor : Seq(Frame), wasted : SUBSET Frame]
UplinkTyped ==
  /\ UplinkTypeOK
  /\ frames \in Seq(Frame) /\ queue \in Seq(Frame) /\ heard \in Accounts
  /\ listen.pc = "write" <=> listen.frame # 0
  /\ start # "done" => listen.pc = "none"

\* Every frame the caller sent is in one place between the websocket and the
\* recorder, or skipped, and the places hold them in order.
Coming ==
  /\ Rising(heard.recorder) /\ Rising(frames)
  /\ Before(Range(heard.recorder), Holds(pump))
  /\ Before(Range(heard.recorder), Range(frames)) /\ Before(Holds(pump), Range(frames))
  /\ 1 .. sent = Range(heard.recorder) \union Holds(pump) \union Range(frames) \union heard.skipped
  /\ (Range(heard.recorder) \union Holds(pump) \union Range(frames)) \intersect heard.skipped = {}

\* What has reached the recorder and was not dropped is in one place between the
\* queue and the recogniser, in order.
Lost == heard.dropped \union heard.wasted
Going ==
  /\ Rising(heard.vendor) /\ Rising(queue)
  /\ Before(Range(heard.vendor), Holds(listen))
  /\ Before(Range(heard.vendor), Range(queue)) /\ Before(Holds(listen), Range(queue))
  /\ Range(heard.vendor) \union Holds(listen) \union Range(queue) = Range(heard.recorder) \ Lost
  /\ Lost \subseteq Range(heard.recorder)

\* The pump drains only after an event, a stop is the last the reader says, and
\* a pump that has ended had nothing left to come or was told of an error.
LeftNothing ==
  /\ pump.pc = "drain" => leg.event # "none"
  /\ leg.event = "stop" => leg.reader = "closed"
  /\ pump.pc = "gone" =>
       pump.frame = 0 /\ (leg.event = "error" \/ (leg.reader = "closed" /\ frames = <<>>))

UplinkInv == UplinkTyped /\ Coming /\ Going /\ LeftNothing

-----------------------------------------------------------------------------
(* The shapes of its steps: what happens to the frames.                    *)
Quiet == UNCHANGED <<heard, sent, frames, queue>> /\ pump'.frame = pump.frame
         /\ listen'.frame = listen.frame
Arrives ==
  /\ sent' = sent + 1 /\ frames' = Append(frames, sent')
  /\ UNCHANGED <<heard, queue, pump, listen>>
Refused ==
  /\ sent' = sent + 1 /\ heard' = [heard EXCEPT !.skipped = @ \union {sent'}]
  /\ UNCHANGED <<frames, queue, pump, listen>>
Taken ==
  /\ pump.frame = 0 /\ frames # <<>> /\ pump'.frame = Head(frames) /\ frames' = Tail(frames)
  /\ UNCHANGED <<heard, sent, queue, listen>>
Fed(f) ==
  /\ pump.frame = f /\ f # 0 /\ pump'.frame = 0 /\ UNCHANGED <<sent, frames, listen>>
  /\ \/ /\ heard' = [heard EXCEPT !.recorder = Append(@, f)] /\ queue' = Append(queue, f)
     \/ /\ heard' = [heard EXCEPT !.recorder = Append(@, f), !.dropped = @ \union {f}]
        /\ queue' = queue
PassedBy(f) ==
  /\ pump.frame = f /\ f # 0 /\ pump'.frame = 0 /\ UNCHANGED <<sent, frames, queue, listen>>
  /\ heard' = [heard EXCEPT !.skipped = @ \union {f}]
Queued ==
  /\ listen.frame = 0 /\ queue # <<>> /\ listen'.frame = Head(queue) /\ queue' = Tail(queue)
  /\ UNCHANGED <<heard, sent, frames, pump>>
Given(f) ==
  /\ listen.frame = f /\ f # 0 /\ listen'.frame = 0 /\ UNCHANGED <<sent, frames, queue, pump>>
  /\ heard' = [heard EXCEPT !.vendor = Append(@, f)]
Wasted(f) ==
  /\ listen.frame = f /\ f # 0 /\ listen'.frame = 0 /\ UNCHANGED <<sent, frames, queue, pump>>
  /\ heard' = [heard EXCEPT !.wasted = @ \union {f}]

UplinkShape ==
  \/ Quiet \/ Arrives \/ Refused \/ Taken \/ Fed(pump.frame) \/ PassedBy(pump.frame)
  \/ Queued \/ Given(listen.frame) \/ Wasted(listen.frame)

UplinkActors == <<leg, actor, tap, start, talk, stream, finals, consumer, gate, settle, stop>>

LEMMA FramesAreNumbers ==
  /\ Frame \subseteq Nat \ {0}
  /\ \A s \in Seq(Frame) : s \in Seq(Nat) /\ Range(s) \subseteq Frame
<1>1. Frame \subseteq Nat \ {0}
  BY CapacitiesAssumption DEF Frame
<1>2. ASSUME NEW s \in Seq(Frame) PROVE s \in Seq(Nat) /\ Range(s) \subseteq Frame
  <2>1. s \in Seq(Nat)
    BY <1>1, SeqMonotonic
  <2> QED BY <2>1 DEF Range
<1> QED BY <1>1, <1>2

LEMMA UplinkTypesStep ==
  ASSUME UplinkTyped, UplinkNext
  PROVE  UplinkTyped' /\ UplinkShape
<1>0. /\ sent \in 0 .. FrameBudget /\ FrameBudget \in Nat
      /\ FeederCap \in Nat \ {0} /\ QueueCap \in Nat \ {0} /\ FinalsCap \in Nat \ {0}
      /\ \A s \in Seq(Frame) : Range(s) \subseteq Frame
  BY CapacitiesAssumption DEF UplinkTyped, UplinkTypeOK, Range
<1>t. /\ frames \in Seq(Frame) /\ queue \in Seq(Frame) /\ heard \in Accounts
      /\ Len(frames) <= FeederCap /\ Len(queue) <= QueueCap
      /\ pump \in [pc : {"select", "drain", "gone"}, frame : Frame \union {0}]
      /\ listen \in [pc : {"none", "wait", "write", "ending", "gone"}, frame : Frame \union {0}]
      /\ listen.pc = "write" <=> listen.frame # 0
      /\ start # "done" => listen.pc = "none"
      /\ 0 \notin Frame
  BY FramesAreNumbers DEF UplinkTyped, UplinkTypeOK
\* What is left to show of a step that moves frames and no actor.
<1>k. ASSUME UNCHANGED UplinkActors,
             sent' \in 0 .. FrameBudget, frames' \in Seq(Frame), Len(frames') <= FeederCap,
             queue' \in Seq(Frame), Len(queue') <= QueueCap, heard' \in Accounts,
             pump' \in [pc : {"select", "drain", "gone"}, frame : Frame \union {0}],
             listen' \in [pc : {"none", "wait", "write", "ending", "gone"},
                          frame : Frame \union {0}],
             listen'.pc = "write" <=> listen'.frame # 0,
             listen'.pc = "none" <=> listen.pc = "none"
      PROVE  UplinkTyped'
  BY <1>0, <1>k DEF UplinkTyped, UplinkTypeOK, UplinkActors
<1>1. CASE OnPCM
  <2> USE <1>1 DEF OnPCM, LegRest, actorVars, talkVars, streamVars
  <2>1. UNCHANGED UplinkActors /\ UNCHANGED <<queue, pump, listen>>
    BY DEF UplinkActors
  <2>2. sent' \in 0 .. FrameBudget /\ sent' \in Frame /\ sent' = sent + 1
    BY <1>0 DEF Frame
  <2>3. CASE frames' = Append(frames, sent') /\ UNCHANGED heard /\ Len(frames) < FeederCap
    <3>1. frames' \in Seq(Frame) /\ Len(frames') <= FeederCap
      BY <1>0, <1>t, <2>2, <2>3
    <3>2. Arrives
      BY <2>1, <2>2, <2>3 DEF Arrives
    <3> QED BY <1>k, <1>t, <2>1, <2>2, <2>3, <3>1, <3>2 DEF UplinkShape
  <2>4. CASE heard' = [heard EXCEPT !.skipped = @ \union {sent'}] /\ UNCHANGED frames
    <3>1. heard' \in Accounts
      BY <1>t, <2>2, <2>4 DEF Accounts
    <3>2. Refused
      BY <2>1, <2>2, <2>4 DEF Refused
    <3> QED BY <1>k, <1>t, <2>1, <2>2, <2>4, <3>1, <3>2 DEF UplinkShape
  <2> QED BY <2>3, <2>4
<1>2. CASE PeerGone \/ PeerReportsError \/ ReaderEnds \/ SignalClose
  <2>1. UNCHANGED <<frames, histVars, actorVars, talkVars, streamVars, gate, stop>>
    BY <1>2 DEF PeerGone, PeerReportsError, ReaderEnds, SignalClose, LegRest
  <2>2. leg' \in [reader : {"up", "closed"}, event : {"none", "stop", "error"}, done : BOOLEAN]
    <3> USE DEF UplinkTyped, UplinkTypeOK
    <3>1. CASE PeerGone
      BY <3>1 DEF PeerGone
    <3>2. CASE PeerReportsError
      BY <3>2 DEF PeerReportsError
    <3>3. CASE ReaderEnds
      BY <3>3 DEF ReaderEnds
    <3>4. CASE SignalClose
      BY <3>4 DEF SignalClose
    <3> QED BY <1>2, <3>1, <3>2, <3>3, <3>4
  <2> QED
    BY <1>0, <2>1, <2>2 DEF UplinkTyped, UplinkTypeOK, UplinkShape, Quiet, histVars, actorVars,
       talkVars, streamVars
<1>3. CASE TakeFrame
  <2> USE <1>3 DEF TakeFrame, PumpRest, PumpKeeps, streamVars
  <2>1. UNCHANGED UplinkActors /\ UNCHANGED <<heard, sent, queue, listen>>
    BY DEF UplinkActors
  <2>2. /\ Head(frames) \in Frame /\ Tail(frames) \in Seq(Frame)
        /\ Len(Tail(frames)) <= FeederCap
    BY <1>0, <1>t
  <2>3. /\ pump' \in [pc : {"select", "drain", "gone"}, frame : Frame \union {0}]
        /\ pump'.frame = Head(frames)
    BY <1>t, <2>2
  <2>4. Taken
    BY <2>1, <2>3 DEF Taken
  <2> QED BY <1>0, <1>k, <1>t, <2>1, <2>2, <2>3, <2>4 DEF UplinkShape
<1>4. CASE TakeEvent \/ PumpEnds
  <2>1. /\ UNCHANGED <<frames, heard, sent, queue, listen, leg, actor, tap, start, talk,
                       consumer,
                       settle, streamVars, gate, stop>>
        /\ pump'.frame = pump.frame
        /\ pump' \in [pc : {"select", "drain", "gone"}, frame : Frame \union {0}]
    BY <1>4, <1>t DEF TakeEvent, PumpEnds, PumpRest, PumpKeeps
  <2> QED
    BY <1>0, <2>1 DEF UplinkTyped, UplinkTypeOK, UplinkShape, Quiet, streamVars
<1>5. CASE FeedPCM
  <2> USE <1>5 DEF FeedPCM, PumpRest, streamVars
  <2>1. UNCHANGED UplinkActors /\ UNCHANGED <<sent, frames, listen>>
    BY DEF UplinkActors
  <2>2. /\ pump.frame \in Frame /\ pump.frame # 0 /\ pump'.frame = 0
        /\ pump' \in [pc : {"select", "drain", "gone"}, frame : Frame \union {0}]
    BY <1>t
  <2>3. CASE tap
    <3> USE <2>3 DEF QueueOrDrop
    <3>1. QueueOrDrop(pump.frame)
      OBVIOUS
    <3>2. heard.recorder \in Seq(Frame) /\ Append(heard.recorder, pump.frame) \in Seq(Frame)
      BY <1>t, <2>2 DEF Accounts
    <3>3. CASE Len(queue) < QueueCap
      <4>1. /\ queue' = Append(queue, pump.frame)
            /\ heard' = [heard EXCEPT !.recorder = Append(@, pump.frame)]
        BY <1>t, <3>1, <3>3 DEF Accounts
      <4>2. /\ queue' \in Seq(Frame) /\ Len(queue') <= QueueCap
        BY <1>0, <1>t, <2>2, <3>3, <4>1
      <4>3. heard' \in Accounts
        BY <1>t, <3>2, <4>1 DEF Accounts
      <4>4. Fed(pump.frame)
        BY <2>1, <2>2, <4>1 DEF Fed
      <4> QED BY <1>0, <1>k, <1>t, <2>1, <2>2, <4>2, <4>3, <4>4 DEF UplinkShape
    <3>4. CASE ~(Len(queue) < QueueCap)
      <4>1. /\ queue' = queue
            /\ heard' = [heard EXCEPT !.recorder = Append(@, pump.frame),
                                      !.dropped = @ \union {pump.frame}]
        BY <1>t, <3>1, <3>4 DEF Accounts
      <4>3. heard' \in Accounts
        BY <1>t, <2>2, <3>2, <4>1 DEF Accounts
      <4>4. Fed(pump.frame)
        BY <2>1, <2>2, <4>1 DEF Fed
      <4> QED BY <1>0, <1>k, <1>t, <2>1, <2>2, <4>1, <4>3, <4>4 DEF UplinkShape
    <3> QED BY <3>3, <3>4
  <2>4. CASE ~tap
    <3>1. /\ heard' = [heard EXCEPT !.skipped = @ \union {pump.frame}] /\ queue' = queue
      BY <2>4 DEF Untapped
    <3>2. heard' \in Accounts
      BY <1>t, <2>2, <3>1 DEF Accounts
    <3>3. PassedBy(pump.frame)
      BY <2>1, <2>2, <3>1 DEF PassedBy
    <3> QED BY <1>0, <1>k, <1>t, <2>1, <2>2, <3>1, <3>2, <3>3 DEF UplinkShape
  <2> QED BY <2>3, <2>4
<1>6. CASE StartLiveTalk
  <2> USE DEF StartRest, NothingRuns, UplinkTyped, UplinkTypeOK, UplinkShape, Quiet,
              legVars, histVars
  <2>1. CASE StartLooksUp \/ StartAttaches \/ StreamOpens \/ StartFails \/ StartRegisters
    BY <1>0, <2>1 DEF StartLooksUp, StartAttaches, StreamOpens, StartFails, StartRegisters
  <2>2. CASE StartGoes
    <3>1. listen.frame = 0 /\ listen'.frame = 0 /\ listen'.pc = "wait"
      BY <1>t, <2>2 DEF StartGoes
    <3> QED
      BY <1>0, <2>2, <3>1 DEF StartGoes
  <2> QED BY <1>6, <2>1, <2>2 DEF StartLiveTalk
<1>7. CASE ListenTakes
  <2> USE <1>7 DEF ListenTakes, TalkRest, legVars, streamVars
  <2>1. /\ Head(queue) \in Frame /\ Tail(queue) \in Seq(Frame)
        /\ Len(Tail(queue)) <= QueueCap
    BY <1>0, <1>t
  <2>2. /\ listen'.frame = Head(queue) /\ listen'.pc = "write" /\ listen.frame = 0
        /\ listen' \in [pc : {"none", "wait", "write", "ending", "gone"},
                        frame : Frame \union {0}]
    BY <1>t, <2>1
  <2>3. Queued
    BY <2>2 DEF Queued
  <2>4. gate' \in [phase : {"establishing", "ready", "draining"}, uplink : BOOLEAN]
    BY DEF UplinkTyped, UplinkTypeOK, EnterReady
  <2>5. UNCHANGED <<leg, frames, pump, actor, tap, start, talk, consumer, settle, stream,
                    finals, stop, heard, sent>> /\ listen.pc # "none"
    OBVIOUS
  <2>6. queue' \in Seq(Frame) /\ Len(queue') <= QueueCap /\ Range(queue') \subseteq Frame
    BY <1>0, <2>1
  <2>7. UplinkTyped'
    BY ONLY UplinkTyped, <1>0, <1>t, <2>1, <2>2, <2>4, <2>5, <2>6 DEF UplinkTyped, UplinkTypeOK
  <2> QED BY <2>3, <2>7 DEF UplinkShape
<1>8. CASE ListenWrites \/ ListenFails
  <2>1. /\ UNCHANGED UplinkActors /\ UNCHANGED <<sent, frames, queue, pump>>
        /\ listen.pc = "write"
    BY <1>8 DEF ListenWrites, ListenFails, TalkRest, legVars, streamVars, UplinkActors
  <2>2. /\ listen.frame \in Frame /\ listen.frame # 0
        /\ listen'.frame = 0 /\ listen'.pc \notin {"none", "write"}
        /\ listen' \in [pc : {"none", "wait", "write", "ending", "gone"},
                        frame : Frame \union {0}]
    BY <1>8, <1>t, <2>1 DEF ListenWrites, ListenFails
  <2>3. CASE ListenWrites
    <3>1. heard' = [heard EXCEPT !.vendor = Append(@, listen.frame)]
      BY <2>3 DEF ListenWrites
    <3>2. heard' \in Accounts
      <4>1. heard.vendor \in Seq(Frame) /\ Append(heard.vendor, listen.frame) \in Seq(Frame)
        BY <1>t, <2>2 DEF Accounts
      <4> QED BY <1>t, <2>2, <3>1, <4>1 DEF Accounts
    <3>3. Given(listen.frame)
      BY <2>1, <2>2, <3>1 DEF Given
    <3> QED BY <1>0, <1>k, <1>t, <2>1, <2>2, <3>2, <3>3 DEF UplinkShape
  <2>4. CASE ListenFails
    <3>1. heard' = [heard EXCEPT !.wasted = @ \union {listen.frame}]
      BY <2>4 DEF ListenFails
    <3>2. heard' \in Accounts
      BY <1>t, <2>2, <3>1 DEF Accounts
    <3>3. Wasted(listen.frame)
      BY <2>1, <2>2, <3>1 DEF Wasted
    <3> QED BY <1>0, <1>k, <1>t, <2>1, <2>2, <3>2, <3>3 DEF UplinkShape
  <2> QED BY <1>8, <2>3, <2>4
<1>9. CASE ListenCancelled \/ ListenEnds
  <2>1. /\ UNCHANGED <<legVars, pump, actor, start, talk, stop, sent, queue, consumer, settle,
                       streamVars, gate, heard>>
        /\ tap' \in BOOLEAN /\ listen.frame = 0 /\ listen'.frame = 0
        /\ listen.pc # "none" /\ listen'.pc # "write"
        /\ listen' \in [pc : {"none", "wait", "write", "ending", "gone"},
                        frame : Frame \union {0}]
    <3> USE <1>t DEF TalkRest
    <3>1. tap \in BOOLEAN
      BY DEF UplinkTyped, UplinkTypeOK
    <3>2. CASE ListenCancelled
      BY <3>1, <3>2 DEF ListenCancelled
    <3>3. CASE ListenEnds
      BY <3>3 DEF ListenEnds
    <3> QED BY <1>9, <3>2, <3>3
  <2> QED
    BY <1>0, <2>1 DEF UplinkTyped, UplinkTypeOK, UplinkShape, Quiet, legVars, streamVars
<1>10. CASE Stream
  <2>1. /\ UNCHANGED <<legVars, actorVars, talkVars, gate, stop, histVars>>
        /\ stream' \in {"none", "open", "failed", "closing", "closed"}
        /\ finals' \in 0 .. FinalsCap
    BY <1>0, <1>10 DEF Stream, FinalArrives, VendorFails, ReadLoopEnds, UplinkTyped, UplinkTypeOK
  <2> QED
    BY <1>0, <2>1 DEF UplinkTyped, UplinkTypeOK, UplinkShape, Quiet, legVars, actorVars,
       talkVars, histVars
<1>11. CASE Consumer \/ Settle
  <2>1. /\ UNCHANGED <<legVars, pump, actor, tap, start, talk, queue, listen, stop, stream,
                       heard, sent>>
        /\ consumer' \in {"none", "wait", "turn", "gone"} /\ settle' \in {"none", "watch", "gone"}
        /\ gate' \in [phase : {"establishing", "ready", "draining"}, uplink : BOOLEAN]
        /\ finals' \in 0 .. FinalsCap
    BY <1>0, <1>11 DEF Consumer, ConsumerTakes, TurnEnds, ConsumerEnds, ConsumerGoes, Settle,
       EnterReadyFromSettle, SettleEnds, EnterReady, TalkRest, streamVars, UplinkTyped,
       UplinkTypeOK
  <2> QED
    BY <1>0, <2>1 DEF UplinkTyped, UplinkTypeOK, UplinkShape, Quiet, legVars
<1>12. CASE RequestAnswered \/ OnGone
  BY <1>0, <1>12 DEF RequestAnswered, OnGone, UplinkTyped, UplinkTypeOK, UplinkShape, Quiet,
     legVars, talkVars, streamVars, histVars
<1>13. CASE Stop
  <2>1. /\ UNCHANGED <<frames, pump, tap, start, queue, listen, finals, consumer, settle,
                       histVars>>
        /\ leg' \in [reader : {"up", "closed"}, event : {"none", "stop", "error"},
                     done : BOOLEAN]
        /\ actor' \in {"Running", "Terminal", "Removed"} /\ talk' \in {talk, "cancelled"}
        /\ stream' \in {"none", "open", "failed", "closing", "closed"}
        /\ gate' \in [phase : {"establishing", "ready", "draining"}, uplink : BOOLEAN]
        /\ stop' \in {"none", "cancel", "close", "drain", "done"}
    <3> USE DEF StopRest, UplinkTyped, UplinkTypeOK
    <3>1. CASE StopBegins
      BY <3>1 DEF StopBegins
    <3>2. CASE StopCancels
      BY <3>2 DEF StopCancels
    <3>3. CASE StopCloses
      BY <3>3 DEF StopCloses
    <3>4. CASE Drain
      BY <3>4 DEF Drain
    <3> QED BY <1>13, <3>1, <3>2, <3>3, <3>4 DEF Stop
  <2> QED
    BY <1>0, <2>1 DEF UplinkTyped, UplinkTypeOK, UplinkShape, Quiet, histVars
<1> QED
  BY <1>1, <1>2, <1>3, <1>4, <1>5, <1>6, <1>7, <1>8, <1>9, <1>10, <1>11, <1>12, <1>13
     DEF UplinkNext, Leg, Pump, Listen

-----------------------------------------------------------------------------
(* The invariant, step by step.                                            *)
LEMMA UplinkFacts ==
  ASSUME UplinkTyped
  PROVE  /\ \A s \in {heard.recorder, heard.vendor, frames, queue} :
              s \in Seq(Nat) /\ Range(s) \subseteq Nat \ {0}
         /\ sent \in Nat /\ pump.frame \in Nat /\ listen.frame \in Nat
         /\ DOMAIN heard = {"recorder", "dropped", "skipped", "vendor", "wasted"}
<1>1. /\ heard.recorder \in Seq(Frame) /\ heard.vendor \in Seq(Frame)
      /\ frames \in Seq(Frame) /\ queue \in Seq(Frame)
      /\ DOMAIN heard = {"recorder", "dropped", "skipped", "vendor", "wasted"}
  BY DEF UplinkTyped, Accounts
<1>2. sent \in Nat /\ pump.frame \in Frame \union {0} /\ listen.frame \in Frame \union {0}
  BY CapacitiesAssumption DEF UplinkTyped, UplinkTypeOK
<1>3. pump.frame \in Nat /\ listen.frame \in Nat
  <2>1. \A f \in Frame \union {0} : f \in Nat
    BY CapacitiesAssumption DEF Frame
  <2> QED BY <1>2, <2>1
<1>4. ASSUME NEW s \in Seq(Frame) PROVE s \in Seq(Nat) /\ Range(s) \subseteq Nat \ {0}
  BY FramesAreNumbers
<1> QED BY <1>1, <1>2, <1>3, <1>4

LEMMA UplinkInits == UplinkInit => UplinkInv
<1> SUFFICES ASSUME UplinkInit PROVE UplinkInv
  OBVIOUS
<1>1. /\ <<>> \in Seq(Frame) /\ <<>> \in Seq(Nat) /\ Range(<<>>) = {} /\ Len(<<>>) = 0
      /\ Rising(<<>>)
  BY DEF Range, Rising
<1>2. heard \in Accounts
  BY <1>1 DEF UplinkInit, Accounts
<1>3. UplinkTyped
  <2>1. /\ frames = <<>> /\ queue = <<>> /\ FeederCap \in Nat /\ QueueCap \in Nat
        /\ 0 \in 0 .. FinalsCap /\ 0 \in 0 .. FrameBudget /\ 0 <= FeederCap /\ 0 <= QueueCap
    BY CapacitiesAssumption DEF UplinkInit
  <2>2. Range(frames) \subseteq Frame /\ Range(queue) \subseteq Frame
    BY <1>1, <2>1
  <2> QED BY <1>1, <1>2, <2>1, <2>2 DEF UplinkInit, UplinkTyped, UplinkTypeOK
<1>4. Coming
  BY <1>1 DEF UplinkInit, Coming, Before, Holds
<1>5. Going
  BY <1>1 DEF UplinkInit, Going, Before, Holds, Lost
<1> QED BY <1>3, <1>4, <1>5 DEF UplinkInv, UplinkInit, LeftNothing

\* Steps of a sequence of frames and of the frames it is behind.
LEMMA ComingStep ==
  ASSUME UplinkTyped, UplinkTyped', Coming, UplinkShape
  PROVE  Coming'
<1>f. /\ heard.recorder \in Seq(Nat) /\ Range(heard.recorder) \subseteq Nat \ {0}
      /\ frames \in Seq(Nat) /\ Range(frames) \subseteq Nat \ {0}
      /\ sent \in Nat /\ pump.frame \in Nat
      /\ DOMAIN heard = {"recorder", "dropped", "skipped", "vendor", "wasted"}
  BY UplinkFacts
<1>c. /\ Rising(heard.recorder) /\ Rising(frames)
      /\ Before(Range(heard.recorder), Holds(pump))
      /\ Before(Range(heard.recorder), Range(frames)) /\ Before(Holds(pump), Range(frames))
      /\ 1 .. sent = Range(heard.recorder) \union Holds(pump) \union Range(frames)
                       \union heard.skipped
      /\ (Range(heard.recorder) \union Holds(pump) \union Range(frames))
           \intersect heard.skipped = {}
  BY DEF Coming
\* A step that leaves what Coming speaks of.
<1>q. ASSUME heard'.recorder = heard.recorder, heard'.skipped = heard.skipped,
             UNCHANGED <<sent, frames>>, pump'.frame = pump.frame
      PROVE  Coming'
  BY <1>c, <1>q DEF Coming, Holds
<1>1. CASE Quiet \/ Queued \/ Given(listen.frame) \/ Wasted(listen.frame)
  BY <1>1, <1>f, <1>q DEF Quiet, Queued, Given, Wasted
<1>2. CASE Arrives \/ Refused
  <2>1. sent' = sent + 1 /\ 1 .. sent' = (1 .. sent) \union {sent'}
        /\ \A x \in 1 .. sent : x < sent'
    BY <1>2, <1>f DEF Arrives, Refused
  <2>2. /\ Before(Range(heard.recorder), {sent'}) /\ Before(Holds(pump), {sent'})
        /\ Before(Range(frames), {sent'}) /\ sent' \notin heard.skipped
        /\ sent' \notin Range(heard.recorder) \union Holds(pump) \union Range(frames)
    BY <1>c, <1>f, <2>1 DEF Before
  <2>3. CASE Arrives
    <3>1. /\ frames' = Append(frames, sent') /\ UNCHANGED <<heard, pump>>
      BY <2>3 DEF Arrives
    <3>2. Range(frames') = Range(frames) \union {sent'} /\ Rising(frames')
      <4>1. /\ frames \in Seq(Nat) /\ sent' \in Nat /\ frames' = Append(frames, sent')
            /\ Rising(frames) /\ Before(Range(frames), {sent'})
        BY <1>c, <1>f, <2>1, <2>2, <3>1
      <4> QED BY <4>1, AppendRises, Zenon
    <3> QED BY <1>c, <2>1, <2>2, <3>1, <3>2 DEF Coming, Before, Holds
  <2>4. CASE Refused
    <3>1. /\ UNCHANGED <<frames, pump>> /\ heard'.recorder = heard.recorder
          /\ heard'.skipped = heard.skipped \union {sent'}
      BY <1>f, <2>4 DEF Refused
    <3> QED BY <1>c, <2>1, <2>2, <3>1 DEF Coming, Holds
  <2> QED BY <1>2, <2>3, <2>4
<1>3. CASE Taken
  <2>1. /\ Holds(pump) = {} /\ frames # <<>> /\ pump'.frame = Head(frames)
        /\ frames' = Tail(frames) /\ UNCHANGED <<heard, sent>>
    BY <1>3 DEF Taken, Holds
  <2>2. /\ Range(frames) = {Head(frames)} \union Range(frames') /\ Rising(frames')
        /\ Before({Head(frames)}, Range(frames'))
    <3>1. frames \in Seq(Nat) /\ frames # <<>> /\ frames' = Tail(frames) /\ Rising(frames)
      BY <1>c, <1>f, <2>1
    <3> QED BY <3>1, HeadLeads, Zenon
  <2>3. Holds(pump)' = {Head(frames)}
    BY <1>f, <2>1, <2>2 DEF Holds
  <2>4. /\ Before(Range(heard.recorder), {Head(frames)})
        /\ Before(Range(heard.recorder), Range(frames'))
    BY <1>c, <2>2 DEF Before
  <2> QED BY <1>c, <2>1, <2>2, <2>3, <2>4 DEF Coming
<1>4. CASE Fed(pump.frame) \/ PassedBy(pump.frame)
  <2> DEFINE f == pump.frame
  <2>1. /\ Holds(pump) = {f} /\ Holds(pump)' = {} /\ UNCHANGED <<sent, frames>>
    BY <1>4 DEF Fed, PassedBy, Holds
  <2>2. CASE Fed(f)
    <3>1. heard'.recorder = Append(heard.recorder, f) /\ heard'.skipped = heard.skipped
      BY <1>f, <2>2 DEF Fed
    <3>2. Range(heard'.recorder) = Range(heard.recorder) \union {f} /\ Rising(heard'.recorder)
      <4>1. Before(Range(heard.recorder), {f}) /\ Rising(heard.recorder) /\ f \in Nat
        BY <1>c, <1>f, <2>1
      <4>2. heard.recorder \in Seq(Nat)
        BY <1>f
      <4> QED BY <3>1, <4>1, <4>2, AppendRises, Zenon
    <3> QED BY <1>c, <2>1, <3>1, <3>2 DEF Coming, Before
  <2>3. CASE PassedBy(f)
    <3>1. heard'.recorder = heard.recorder /\ heard'.skipped = heard.skipped \union {f}
      BY <1>f, <2>3 DEF PassedBy
    <3>2. f \notin Range(heard.recorder) /\ f \notin Range(frames)
      BY <1>c, <1>f, <2>1 DEF Before
    <3> QED BY <1>c, <2>1, <3>1, <3>2 DEF Coming, Before
  <2> QED BY <1>4, <2>2, <2>3
<1> QED BY <1>1, <1>2, <1>3, <1>4 DEF UplinkShape

LEMMA GoingStep ==
  ASSUME UplinkTyped, UplinkTyped', Coming, Going, UplinkShape
  PROVE  Going'
<1>f. /\ heard.vendor \in Seq(Nat) /\ Range(heard.vendor) \subseteq Nat \ {0}
      /\ queue \in Seq(Nat) /\ Range(queue) \subseteq Nat \ {0}
      /\ heard.recorder \in Seq(Nat) /\ Range(heard.recorder) \subseteq Nat \ {0}
      /\ listen.frame \in Nat /\ pump.frame \in Nat
      /\ DOMAIN heard = {"recorder", "dropped", "skipped", "vendor", "wasted"}
  BY UplinkFacts
<1>g. /\ Rising(heard.vendor) /\ Rising(queue)
      /\ Before(Range(heard.vendor), Holds(listen))
      /\ Before(Range(heard.vendor), Range(queue)) /\ Before(Holds(listen), Range(queue))
      /\ Range(heard.vendor) \union Holds(listen) \union Range(queue)
           = Range(heard.recorder) \ Lost
      /\ Lost \subseteq Range(heard.recorder)
  BY DEF Going
<1>q. ASSUME heard'.recorder = heard.recorder, heard'.vendor = heard.vendor,
             heard'.dropped = heard.dropped, heard'.wasted = heard.wasted,
             queue' = queue, listen'.frame = listen.frame
      PROVE  Going'
  BY <1>g, <1>q DEF Going, Holds, Lost
<1>1. CASE Quiet \/ Arrives \/ Refused \/ Taken \/ PassedBy(pump.frame)
  BY <1>1, <1>f, <1>q DEF Quiet, Arrives, Refused, Taken, PassedBy
<1>2. CASE Fed(pump.frame)
  <2> DEFINE f == pump.frame
  <2>1. /\ Holds(pump) = {f} /\ listen' = listen
        /\ heard'.recorder = Append(heard.recorder, f)
        /\ heard'.vendor = heard.vendor /\ heard'.wasted = heard.wasted
    BY <1>2, <1>f DEF Fed, Holds
  <2>2. Before(Range(heard.recorder), {f}) /\ f \notin Range(heard.recorder)
    BY <1>f, <2>1 DEF Coming, Before
  <2>3. Range(heard'.recorder) = Range(heard.recorder) \union {f}
    <3>1. heard.recorder \in Seq(Nat) /\ f \in Nat /\ heard'.recorder = Append(heard.recorder, f)
      BY <1>f, <2>1
    <3> QED BY <3>1, AppendRises, Zenon
  <2>4. /\ Before(Range(heard.vendor), {f}) /\ Before(Holds(listen), {f})
        /\ Before(Range(queue), {f}) /\ f \notin Lost
    BY <1>g, <2>2 DEF Before
  <2>5. CASE heard'.dropped = heard.dropped /\ queue' = Append(queue, f)
    <3>1. Range(queue') = Range(queue) \union {f} /\ Rising(queue')
      <4>1. /\ queue \in Seq(Nat) /\ f \in Nat /\ queue' = Append(queue, f)
            /\ Rising(queue) /\ Before(Range(queue), {f})
        BY <1>f, <1>g, <2>4, <2>5
      <4> QED BY <4>1, AppendRises, Zenon
    <3>2. Lost' = Lost
      BY <2>1, <2>5 DEF Lost
    <3> QED BY <1>g, <2>1, <2>2, <2>3, <2>4, <3>1, <3>2 DEF Going, Before, Holds
  <2>6. CASE heard'.dropped = heard.dropped \union {f} /\ queue' = queue
    <3>1. Lost' = Lost \union {f}
      BY <2>1, <2>6 DEF Lost
    <3> QED BY <1>g, <2>1, <2>2, <2>3, <2>6, <3>1 DEF Going, Holds
  <2> QED BY <1>2, <1>f, <2>5, <2>6 DEF Fed
<1>3. CASE Queued
  <2>1. /\ Holds(listen) = {} /\ queue # <<>> /\ listen'.frame = Head(queue)
        /\ queue' = Tail(queue) /\ heard' = heard
    BY <1>3 DEF Queued, Holds
  <2>2. /\ Range(queue) = {Head(queue)} \union Range(queue') /\ Rising(queue')
        /\ Before({Head(queue)}, Range(queue'))
    <3>1. queue \in Seq(Nat) /\ queue # <<>> /\ queue' = Tail(queue) /\ Rising(queue)
      BY <1>f, <1>g, <2>1
    <3> QED BY <3>1, HeadLeads, Zenon
  <2>3. Holds(listen)' = {Head(queue)}
    BY <1>f, <2>1, <2>2 DEF Holds
  <2>4. /\ Before(Range(heard.vendor), {Head(queue)})
        /\ Before(Range(heard.vendor), Range(queue')) /\ Lost' = Lost
    BY <1>g, <2>1, <2>2 DEF Before, Lost
  <2> QED BY <1>g, <2>1, <2>2, <2>3, <2>4 DEF Going
<1>4. CASE Given(listen.frame)
  <2> DEFINE f == listen.frame
  <2>1. /\ Holds(listen) = {f} /\ Holds(listen)' = {} /\ queue' = queue /\ Lost' = Lost
        /\ heard'.recorder = heard.recorder /\ heard'.vendor = Append(heard.vendor, f)
    BY <1>4, <1>f DEF Given, Holds, Lost
  <2>2. Range(heard'.vendor) = Range(heard.vendor) \union {f} /\ Rising(heard'.vendor)
    <3>1. /\ heard.vendor \in Seq(Nat) /\ f \in Nat /\ heard'.vendor = Append(heard.vendor, f)
          /\ Rising(heard.vendor) /\ Before(Range(heard.vendor), {f})
      BY <1>f, <1>g, <2>1
    <3> QED BY <3>1, AppendRises, Zenon
  <2> QED BY <1>g, <2>1, <2>2 DEF Going, Before
<1>5. CASE Wasted(listen.frame)
  <2> DEFINE f == listen.frame
  <2>1. /\ Holds(listen) = {f} /\ Holds(listen)' = {} /\ queue' = queue
        /\ Lost' = Lost \union {f}
        /\ heard'.recorder = heard.recorder /\ heard'.vendor = heard.vendor
    BY <1>5, <1>f DEF Wasted, Holds, Lost
  <2>2. f \notin Range(heard.vendor) /\ f \notin Range(queue) /\ f \in Range(heard.recorder)
    BY <1>f, <1>g, <2>1 DEF Before
  <2> QED BY <1>g, <2>1, <2>2 DEF Going, Before
<1> QED BY <1>1, <1>2, <1>3, <1>4, <1>5 DEF UplinkShape

LEMMA LeftNothingStep ==
  ASSUME UplinkTyped, LeftNothing, UplinkNext
  PROVE  LeftNothing'
<1>t. leg \in [reader : {"up", "closed"}, event : {"none", "stop", "error"}, done : BOOLEAN]
      /\ pump \in [pc : {"select", "drain", "gone"}, frame : Frame \union {0}]
  BY DEF UplinkTyped, UplinkTypeOK
\* A step of anybody else: the event stays, a closed reader stays closed.
<1>q. ASSUME UNCHANGED <<frames, pump>>, leg'.reader = leg.reader, leg'.event = leg.event
      PROVE  LeftNothing'
  BY <1>q DEF LeftNothing
<1>1. CASE OnPCM
  BY <1>1 DEF OnPCM, LeftNothing, LegRest, actorVars
<1>2. CASE PeerGone
  BY <1>2, <1>t DEF PeerGone, LeftNothing, LegRest, actorVars
<1>3. CASE PeerReportsError
  BY <1>3, <1>t DEF PeerReportsError, LeftNothing, LegRest, actorVars
<1>4. CASE ReaderEnds
  BY <1>4, <1>t DEF ReaderEnds, LeftNothing, LegRest, actorVars
<1>5. CASE SignalClose
  BY <1>5, <1>q, <1>t DEF SignalClose, LegRest, actorVars
<1>6. CASE TakeFrame \/ FeedPCM
  <2>1. pump.pc # "gone" /\ pump'.pc = pump.pc /\ leg' = leg
    BY <1>6, <1>t DEF TakeFrame, FeedPCM, PumpRest, LeftNothing
  <2> QED BY <2>1 DEF LeftNothing
<1>7. CASE TakeEvent
  BY <1>7, <1>t DEF TakeEvent, PumpRest, LeftNothing
<1>8. CASE PumpEnds
  <2>1. /\ frames = <<>> /\ frames' = frames /\ pump.frame = 0 /\ leg' = leg
        /\ pump'.pc = "gone" /\ pump'.frame = 0
        /\ pump.pc = "drain" \/ leg.reader = "closed"
    BY <1>8, <1>t DEF PumpEnds, PumpRest
  <2> QED BY <1>t, <2>1 DEF LeftNothing
<1>9. CASE StartLiveTalk \/ RequestAnswered \/ OnGone
  BY <1>9, <1>q DEF StartLiveTalk, StartLooksUp, StartAttaches, StreamOpens, StartFails,
     StartRegisters, StartGoes, StartRest, RequestAnswered, OnGone, legVars
<1>10. CASE Listen \/ Consumer \/ Settle
  <2>1. UNCHANGED <<legVars, pump>>
    BY <1>10 DEF Listen, ListenTakes, ListenWrites, ListenFails, ListenCancelled, ListenEnds,
       Consumer, ConsumerTakes, TurnEnds, ConsumerEnds, ConsumerGoes,
       Settle, EnterReadyFromSettle, SettleEnds, TalkRest
  <2> QED BY <1>q, <2>1 DEF legVars
<1>11. CASE Stream
  BY <1>11, <1>q DEF Stream, FinalArrives, VendorFails, ReadLoopEnds, legVars, actorVars
<1>12. CASE Stop
  BY <1>12, <1>q, <1>t DEF Stop, StopBegins, StopCancels, StopCloses, Drain, StopRest
<1> QED
  BY <1>1, <1>2, <1>3, <1>4, <1>5, <1>6, <1>7, <1>8, <1>9, <1>10, <1>11, <1>12
     DEF UplinkNext, Leg, Pump

LEMMA UplinkStutters == UplinkInv /\ UNCHANGED uplinkVars => UplinkInv'
BY DEF UplinkInv, UplinkTyped, UplinkTypeOK, Accounts, Coming, Going, LeftNothing, Holds, Lost,
   uplinkVars, legVars, actorVars, talkVars, streamVars, histVars

LEMMA UplinkInvariant == UplinkSpec => []UplinkInv
<1>1. UplinkInv /\ [UplinkNext]_uplinkVars => UplinkInv'
  <2>1. ASSUME UplinkInv, UplinkNext PROVE UplinkInv'
    BY <2>1, UplinkTypesStep, ComingStep, GoingStep, LeftNothingStep DEF UplinkInv
  <2> QED BY <2>1, UplinkStutters
<1> QED BY <1>1, UplinkInits, PTL DEF UplinkSpec

\* Every variable of the uplink keeps its type and no channel ever holds more
\* than its capacity: Conn.frames, the listen queue, the recogniser's finals.
THEOREM UplinkTypes == UplinkSpec => []UplinkTypeOK
<1>1. UplinkInv => UplinkTypeOK
  BY DEF UplinkInv, UplinkTyped
<1> QED BY <1>1, UplinkInvariant, PTL

\* A sequence, the frame a pump holds and the sequence it reads from, in a row.
LEMMA InOneRow ==
  ASSUME NEW s \in Seq(Nat), NEW t \in Seq(Nat), NEW p, p.frame \in Nat,
         Rising(s), Rising(t), Before(Range(s), Holds(p)), Before(Range(s), Range(t)),
         Before(Holds(p), Range(t))
  PROVE  /\ Rising(s \o (InHand(p) \o t)) /\ Rising((s \o InHand(p)) \o t)
         /\ Range(s \o (InHand(p) \o t)) = Range(s) \union Holds(p) \union Range(t)
         /\ Range((s \o InHand(p)) \o t) = Range(s) \union Holds(p) \union Range(t)
<1> DEFINE h == InHand(p)
<1>1. h \in Seq(Nat) /\ Range(h) = Holds(p) /\ Rising(h)
  BY DEF InHand, Holds, Range, Rising
<1> HIDE DEF h
<1>2. /\ h \o t \in Seq(Nat) /\ Range(h \o t) = Holds(p) \union Range(t) /\ Rising(h \o t)
  BY <1>1, ConcatRises
<1>3. /\ s \o h \in Seq(Nat) /\ Range(s \o h) = Range(s) \union Holds(p) /\ Rising(s \o h)
  BY <1>1, ConcatRises
<1>4. Before(Range(s), Range(h \o t)) /\ Before(Range(s \o h), Range(t))
  BY <1>2, <1>3 DEF Before
<1>5. /\ Range(s \o (h \o t)) = Range(s) \union Range(h \o t) /\ Rising(s \o (h \o t))
  BY <1>2, <1>4, ConcatRises
<1>6. /\ Range((s \o h) \o t) = Range(s \o h) \union Range(t) /\ Rising((s \o h) \o t)
  BY <1>3, <1>4, ConcatRises
<1> QED BY <1>2, <1>3, <1>5, <1>6 DEF h

\* No frame of the caller is lost without being counted, none reaches the
\* recorder or the recogniser twice, and order is kept, though every hand-over
\* from onPCM to WritePCM is a channel that drops when it is full and the leg,
\* the actor, the recogniser and the stop end for reasons of their own.
THEOREM UplinkFramesAccounted == UplinkSpec => []UplinkAccounted
<1>1. ASSUME UplinkInv PROVE UplinkAccounted
  <2> DEFINE come == heard.recorder \o (InHand(pump) \o frames)
             go   == (heard.vendor \o InHand(listen)) \o queue
  <2>1. /\ heard.recorder \in Seq(Nat) /\ heard.vendor \in Seq(Nat)
        /\ frames \in Seq(Nat) /\ queue \in Seq(Nat)
        /\ pump.frame \in Nat /\ listen.frame \in Nat
    BY <1>1, UplinkFacts DEF UplinkInv
  <2>2. /\ Rising(come)
        /\ Range(come) = Range(heard.recorder) \union Holds(pump) \union Range(frames)
    <3>1. /\ heard.recorder \in Seq(Nat) /\ frames \in Seq(Nat) /\ pump.frame \in Nat
          /\ Rising(heard.recorder) /\ Rising(frames)
          /\ Before(Range(heard.recorder), Holds(pump))
          /\ Before(Range(heard.recorder), Range(frames)) /\ Before(Holds(pump), Range(frames))
      BY <1>1, <2>1 DEF UplinkInv, Coming
    <3> QED BY <3>1, InOneRow, Zenon
  <2>3. /\ Rising(go)
        /\ Range(go) = Range(heard.vendor) \union Holds(listen) \union Range(queue)
    <3>1. /\ heard.vendor \in Seq(Nat) /\ queue \in Seq(Nat) /\ listen.frame \in Nat
          /\ Rising(heard.vendor) /\ Rising(queue)
          /\ Before(Range(heard.vendor), Holds(listen))
          /\ Before(Range(heard.vendor), Range(queue)) /\ Before(Holds(listen), Range(queue))
      BY <1>1, <2>1 DEF UplinkInv, Going
    <3> QED BY <3>1, InOneRow, Zenon
  <2> HIDE DEF come, go
  <2>4. 1 .. sent = Range(come) \union heard.skipped /\ Range(come) \intersect heard.skipped = {}
    BY <1>1, <2>2 DEF UplinkInv, Coming
  <2>5. Range(go) = Range(heard.recorder) \ (heard.dropped \union heard.wasted)
    BY <1>1, <2>3 DEF UplinkInv, Going, Lost
  <2>6. pump.pc = "gone" /\ leg.event # "error" => frames = <<>>
    BY <1>1 DEF UplinkInv, LeftNothing
  <2> QED BY <2>2, <2>3, <2>4, <2>5, <2>6, Zenon DEF UplinkAccounted, come, go
<1> QED BY <1>1, UplinkInvariant, PTL
=============================================================================
