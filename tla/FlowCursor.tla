----------------------------- MODULE FlowCursor -----------------------------
(***************************************************************************)
(* The conversation cursor of one session: runtime/graph/cursor.go walking *)
(* a document that internal/flow has validated for publication.            *)
(*                                                                         *)
(* A call of Bootstrap or HandleUtterance holds the cursor's mutex from    *)
(* its first line to its return, so calls do not interleave; the loop of   *)
(* advanceSilentLocked is one action per node it visits, because whether   *)
(* that loop ends is one of the questions.  An utterance is represented by *)
(* the edge matchChoice picks for it, or by the failure to match.  Texts   *)
(* and locales are left out: a prompt reference resolves or it does not.   *)
(***************************************************************************)
EXTENDS Integers, Sequences, FiniteSets

CONSTANTS Nodes,       \* node ids
          Intents,     \* matrix intents
          NoIntent,    \* the empty matrix_intent
          Docs,        \* the documents offered for publication
          MaxUnclear   \* bound: unclear answers counted at one node

ASSUME CursorAssumption ==
  /\ NoIntent \notin Intents
  /\ MaxUnclear \in Nat

Listening == {"ListenChoice", "ListenLanguage"}
NodeTypes == Listening \cup {"Entry", "Speak", "ListenSlot", "Decide", "Inform",
                             "hangup", "transfer", "End"}
Tools == {"hangup", "transfer"}   \* a Tool node is named by its tool
Refs == {"none", "ok", "missing"} \* a prompt reference: absent, resolvable, dangling

Edges == [from : Nodes, to : Nodes, kind : {"next", "option", "repair"},
          intent : Intents \cup {NoIntent}]
Policies == [has : BOOLEAN, set : BOOLEAN, max : Int, unclear : Refs]
Documents == [entry : Nodes, type : [Nodes -> NodeTypes], edges : SUBSET Edges,
              prompt : [Nodes -> Refs], bound : [Nodes -> BOOLEAN],
              intent : [Nodes -> Intents \cup {NoIntent}],
              repair : [Nodes -> Policies], matrix : SUBSET Intents]

ASSUME DocsAssumption == Docs \subseteq Documents

VARIABLES doc,       \* the pinned document
          node,      \* nodeID
          armed,     \* a Tool has been armed in this cursor's lifetime
          retries,   \* unclear answers per listen node
          blockTool, \* set while a ListenLanguage turn walks on
          lastIntent,\* lastEdge.MatrixIntent
          walking,   \* inside advanceSilentLocked
          turn,      \* the call: how it began and what it returned
          tool,      \* history: the tools armed
          asked      \* history: reprompts since the cursor came to this node

cursorVars == <<doc, armed, retries, blockTool>>
vars == <<cursorVars, node, lastIntent, walking, turn, tool, asked>>

-----------------------------------------------------------------------------
\* flow.Validate: exactly one Entry, the entry; prompts of nodes resolve;
\* Inform names an allowlisted binding; a transfer finds its matrix row by the
\* node's own intent or by that of an edge that leaves the node.
NodeIntentsSeen(d, n) ==
  IF d.intent[n] # NoIntent THEN {d.intent[n]}
  ELSE {e.intent : e \in {x \in d.edges : x.from = n /\ x.intent # NoIntent}}

\* A seeded slip: the row itself is not looked up.
TransferNamed(d, n) == NodeIntentsSeen(d, n) # {}

\* The code takes the first such edge; the edges are a set here, so a document
\* passes when some listing of its edges does.
TransferValid(d, n) == NodeIntentsSeen(d, n) \cap d.matrix # {}

PromptsResolve(d) == \A n \in Nodes : d.prompt[n] # "missing"

Validates(d) ==
  /\ \A n \in Nodes : d.type[n] = "Entry" <=> n = d.entry
  /\ PromptsResolve(d)
  /\ \A n \in Nodes : d.type[n] = "Inform" => d.bound[n]
  /\ \A n \in Nodes : d.type[n] = "transfer" => TransferValid(d, n)

\* RepairPolicy.EffectiveMaxRetries
EffectiveMaxRetries(p) == IF ~p.set THEN 3 ELSE IF p.max < 0 THEN 0 ELSE p.max

\* The edges of one kind that leave a node, in the pinned document.
Out(n, kind) == {e \in doc.edges : e.from = n /\ e.kind = kind}
SoleNext(e)   == Out(node, "next") = {e}
SoleRepair(e) == Out(node, "repair") = {e}
NoSole(kind)  == Cardinality(Out(node, kind)) # 1

Idle == [by |-> "none", out |-> "none", why |-> "none"]

Init ==
  /\ doc \in {d \in Docs : Validates(d)}
  /\ node = doc.entry /\ armed = FALSE /\ retries = [n \in Nodes |-> 0]
  /\ blockTool = FALSE /\ lastIntent = NoIntent /\ walking = FALSE
  /\ turn = Idle /\ tool = <<>> /\ asked = 0

-----------------------------------------------------------------------------
\* A seeded slip: the cursor stays where the edge begins.
TakeInPlace(e) == /\ node' = e.from
                  /\ lastIntent' = e.intent
                  /\ asked' = 0

\* takeLocked
Take(e) == /\ node' = e.to
           /\ lastIntent' = e.intent
           /\ asked' = 0
Stay == UNCHANGED <<node, lastIntent, asked>>

\* The call returns.  blockTool is cleared by a deferred function whatever
\* the outcome.
Return(out, why) == /\ walking' = FALSE
                    /\ blockTool' = FALSE
                    /\ turn' = [turn EXCEPT !.out = out, !.why = why]

Begin(by) == /\ walking' = TRUE
             /\ turn' = [by |-> by, out |-> "none", why |-> "none"]
Refuse(by, out, why) == /\ walking' = FALSE
                        /\ turn' = [by |-> by, out |-> out, why |-> why]

\* c.retries[n.ID] = 0, on every way out of a listen node.
CountReset == [retries EXCEPT ![node] = 0]

Bootstrap ==
  /\ ~walking
  /\ Begin("bootstrap")
  /\ Stay
  /\ UNCHANGED <<cursorVars, tool>>

\* HandleUtterance on a ListenChoice node, matched.
HandleChoice ==
  /\ ~walking /\ doc.type[node] = "ListenChoice"
  /\ \E e \in Out(node, "option") : Take(e)
  /\ retries' = CountReset
  /\ Begin("choice")
  /\ UNCHANGED <<doc, armed, blockTool, tool>>

\* A seeded slip: the block is not set.
HandleLanguageOpen ==
  /\ ~walking /\ doc.type[node] = "ListenLanguage"
  /\ \E e \in Out(node, "option") : Take(e)
  /\ retries' = CountReset
  /\ Begin("language")
  /\ UNCHANGED <<doc, armed, blockTool, tool>>

\* HandleUtterance on a ListenLanguage node, matched.
HandleLanguage ==
  /\ ~walking /\ doc.type[node] = "ListenLanguage"
  /\ \E e \in Out(node, "option") : Take(e)
  /\ retries' = CountReset
  /\ blockTool' = TRUE
  /\ Begin("language")
  /\ UNCHANGED <<doc, armed, tool>>

\* repairLocked without a policy: NoMatch.
NoMatch ==
  /\ ~walking /\ doc.type[node] \in Listening /\ ~doc.repair[node].has
  /\ Refuse("unclear", "nomatch", "none")
  /\ Stay
  /\ UNCHANGED <<cursorVars, tool>>

\* repairLocked with a policy: the count grows; up to the limit the node is
\* asked again with the policy's own prompt or, lacking one, the node's.
Unclear == /\ ~walking
           /\ doc.type[node] \in Listening
           /\ doc.repair[node].has
           /\ retries[node] <= MaxUnclear

\* A seeded slip: the limit is read before the count grows.
ExhaustedLate(n) == retries[n] > EffectiveMaxRetries(doc.repair[n])
Exhausted(n) == retries[n] + 1 > EffectiveMaxRetries(doc.repair[n])

\* The policy's own prompt, or the node's when the policy names none.
UnclearMissing(n) == \/ doc.repair[n].unclear = "missing"
                     \/ doc.repair[n].unclear = "none" /\ doc.prompt[n] = "missing"

Reprompt ==
  /\ Unclear /\ ~Exhausted(node)
  /\ retries' = [retries EXCEPT ![node] = @ + 1]
  /\ \/ /\ ~UnclearMissing(node)
        /\ Refuse("unclear", "repair", "none")
        /\ asked' = asked + 1
     \/ /\ UnclearMissing(node)
        /\ Refuse("unclear", "error", "prompt")
        /\ UNCHANGED asked
  /\ UNCHANGED <<doc, node, lastIntent, armed, blockTool, tool>>

RepairExhausted ==
  /\ Unclear /\ Exhausted(node)
  /\ \E e \in Edges : SoleRepair(e) /\ Take(e)
  /\ retries' = CountReset
  /\ Begin("unclear")
  /\ UNCHANGED <<doc, armed, blockTool, tool>>

RepairUndrawn ==
  /\ Unclear /\ Exhausted(node) /\ NoSole("repair")
  /\ retries' = [retries EXCEPT ![node] = @ + 1]
  /\ Refuse("unclear", "error", "no repair")
  /\ Stay
  /\ UNCHANGED <<doc, armed, blockTool, tool>>

\* HandleUtterance anywhere else is an error.
NotListening ==
  /\ ~walking /\ doc.type[node] \notin Listening
  /\ Refuse("unclear", "error", "not listening")
  /\ Stay
  /\ UNCHANGED <<cursorVars, tool>>

-----------------------------------------------------------------------------
\* advanceSilentLocked, one visited node at a time.
At(types) == walking /\ doc.type[node] \in types

\* Entry and Speak, and an Inform whose binding answered, move on along their
\* only next edge; a Speak resolves its prompt first.
SpeakMissing == doc.type[node] = "Speak" /\ doc.prompt[node] = "missing"

WalkNext ==
  /\ At({"Entry", "Speak", "Inform"}) /\ ~SpeakMissing
  /\ \E e \in Edges : SoleNext(e) /\ Take(e)
  /\ UNCHANGED <<cursorVars, walking, turn, tool>>

WalkNoNext ==
  /\ At({"Entry", "Speak", "Inform"})
  /\ SpeakMissing \/ NoSole("next")
  /\ Return("error", IF SpeakMissing THEN "prompt" ELSE "no next")
  /\ Stay
  /\ UNCHANGED <<doc, armed, retries, tool>>

\* Inform without an answer follows its drawn repair edge.
FailInform ==
  /\ At({"Inform"})
  /\ \E e \in Edges : SoleRepair(e) /\ Take(e)
  /\ UNCHANGED <<cursorVars, walking, turn, tool>>

FailInformUndrawn ==
  /\ At({"Inform"}) /\ NoSole("repair")
  /\ Return("error", "no repair")
  /\ Stay
  /\ UNCHANGED <<doc, armed, retries, tool>>

WalkListen ==
  /\ At(Listening \cup {"ListenSlot"})
  /\ Return("wait", "none")
  /\ Stay
  /\ UNCHANGED <<doc, armed, retries, tool>>

WalkEnd ==
  /\ At({"End"})
  /\ Return("ended", "none")
  /\ Stay
  /\ UNCHANGED <<doc, armed, retries, tool>>

WalkDecide ==
  /\ At({"Decide"})
  /\ Return("error", "decide")
  /\ Stay
  /\ UNCHANGED <<doc, armed, retries, tool>>

\* armToolLocked: the node's own intent, or that of the edge taken last.
ArmIntent == IF doc.intent[node] # NoIntent THEN doc.intent[node] ELSE lastIntent

RowMissing == doc.type[node] = "transfer" /\ ArmIntent \notin doc.matrix
\* A seeded slip: a cursor that has armed arms again.
NeverArmed == FALSE
AlreadyArmed == armed

ToolRefused ==
  /\ At(Tools)
  /\ blockTool \/ AlreadyArmed \/ RowMissing
  /\ Return("error", IF blockTool THEN "ec23" ELSE IF AlreadyArmed THEN "armed" ELSE "matrix")
  /\ Stay
  /\ UNCHANGED <<doc, armed, retries, tool>>

\* The closing line is resolved after the arm, which stands if that fails.
ArmTool ==
  /\ At(Tools)
  /\ ~blockTool /\ ~AlreadyArmed /\ ~RowMissing
  /\ armed' = TRUE
  /\ tool' = Append(tool, [kind |-> doc.type[node],
                intent |-> IF doc.type[node] = "transfer" THEN ArmIntent ELSE NoIntent])
  /\ IF doc.prompt[node] = "missing" THEN Return("error", "prompt")
                                     ELSE Return("armed", "none")
  /\ Stay
  /\ UNCHANGED <<doc, retries>>

-----------------------------------------------------------------------------
HandleUtterance == HandleChoice \/ HandleLanguage \/ NoMatch \/ Reprompt
                     \/ RepairExhausted \/ RepairUndrawn \/ NotListening

AdvanceSilent == WalkNext \/ WalkNoNext \/ FailInform \/ FailInformUndrawn
                   \/ WalkListen \/ WalkEnd \/ WalkDecide \/ ToolRefused \/ ArmTool

Next == Bootstrap \/ HandleUtterance \/ AdvanceSilent

Spec == Init /\ [][Next]_vars

\* The goroutine inside the loop keeps running; nobody has to speak.
FairSpec == Spec /\ WF_vars(AdvanceSilent)

-----------------------------------------------------------------------------
Outcomes == {"none", "wait", "repair", "nomatch", "ended", "armed", "error"}
Causes == {"none", "prompt", "no next", "no repair", "not listening", "decide",
           "ec23", "armed", "matrix"}
ArmedTools == [kind : Tools, intent : Intents \cup {NoIntent}]

\* Every variable ranges over the values the code can give it.
TypeOK ==
  /\ doc \in Documents /\ node \in Nodes
  /\ armed \in BOOLEAN /\ blockTool \in BOOLEAN /\ walking \in BOOLEAN
  /\ retries \in [Nodes -> Nat]
  /\ lastIntent \in Intents \cup {NoIntent}
  /\ turn \in [by : {"none", "bootstrap", "choice", "language", "unclear"},
               out : Outcomes, why : Causes]
  /\ tool \in Seq(ArmedTools)
  /\ asked \in Nat

\* A caller who comes back to a menu gets all of its retries again: the only
\* node with a count is the one the cursor is on, and only if it listens.
OnlyCurrentCounts ==
  \A n \in Nodes : retries[n] > 0 => n = node /\ doc.type[n] \in Listening

\* A node with a drawn repair edge never asks more often than its policy says.
AskedWithinPolicy == asked > 0 => asked <= EffectiveMaxRetries(doc.repair[node])

\* EC-23: a turn in which the caller chose a language never arms a Tool,
\* whatever the walk passes through (a failed Inform included), and the block
\* never outlives that turn.
LanguageTurnNeverArms == /\ turn.by = "language" => turn.out # "armed"
                         /\ blockTool => walking /\ turn.by = "language"

\* Arm freezes the cursor: no later call, a bootstrap repeated after a failed
\* welcome included, moves it or arms a second time.
ArmIsFinal == [][tool # <<>> => node' = node /\ tool' = tool]_vars

\* The publish check and the arm agree about transfers that name their own
\* intent: once published, such a node never misses its matrix row.
NamedTransferArms == turn.why = "matrix" => doc.intent[node] = NoIntent

\* No cycle among the nodes the cursor leaves by itself.
Silent == {n \in Nodes : doc.type[n] \in {"Entry", "Speak", "Inform"}}
SilentEdge(e) == \/ e.kind = "next"
                 \/ e.kind = "repair" /\ doc.type[e.from] = "Inform"
SilentAcyclic ==
  \A S \in SUBSET Silent \ {{}} :
     \E n \in S : \A e \in doc.edges : (e.from = n /\ SilentEdge(e)) => e.to \notin S

\* Every call returns, and gives the mutex back, on a document whose
\* self-advancing nodes form no cycle.
TurnReturnsIfAcyclic == [](SilentAcyclic => (walking ~> ~walking))

\* The cursor as the turn machine uses it.  What a call that has taken the
\* caller's choice passes through is not seen before the call returns.
Standing ==
  IF armed THEN doc.type[node]
  ELSE IF (walking /\ turn.by \in {"choice", "language", "unclear"})
            \/ doc.type[node] \in Listening \cup {"ListenSlot"} THEN "listen"
  ELSE IF doc.type[node] = "End" THEN "end" ELSE "start"

\* However calls fail and are repeated, an End or an armed Tool is the last of it.
Walk == INSTANCE GraphWalk WITH at <- Standing, arms <- Len(tool)
ImplementsGraphWalk == Walk!WalkSpec

=============================================================================
