------------------------------ MODULE Admission ------------------------------
(***************************************************************************)
(* What a profile, a tenant's engines and a session are held against: the   *)
(* gateways registered when the process starts.  Pure definitions; Registry  *)
(* says when each is asked.                                                 *)
(*                                                                         *)
(* Three checks look at different things.  A publication looks at every      *)
(* gateway the profile names, for its port; the tenant's engines are looked  *)
(* at for their port; and the start of a session looks at what the profile's *)
(* own lists can do, though it is the tenant's engines that it will use.     *)
(***************************************************************************)
EXTENDS Integers, Sequences, Functions

CONSTANTS Reg,       \* the registry: gateway -> port and whether it streams
          NoGateway  \* an empty gateway id

Routed == {"listen", "speak", "think", "knowledge", "translate"}
Ports == Routed \cup {"skill"}
Gateways == DOMAIN Reg

\* Register refuses an empty id or port; a later registration takes the id over.
ASSUME RegAssumption ==
  /\ \A g \in Gateways : Reg[g].port \in Ports /\ Reg[g].streaming \in BOOLEAN
  /\ NoGateway \notin Gateways

Registered(id, port) == id \in Gateways /\ Reg[id].port = port

-----------------------------------------------------------------------------
\* Each gateway a profile names, with the port it is named for: its router
\* lists, the knowledge base and the skills that have a gateway.
Mentions(doc) ==
  UNION {Range(doc.providers[p]) \X {p} : p \in Routed}
    \cup ({doc.httpKB} \ {NoGateway}) \X {"knowledge"}
    \cup (Range(doc.skills) \ {NoGateway}) \X {"skill"}

Tiers == {"clip", "template", "llm"}

\* A ladder of known tiers; what is said when a hop is down is one of the clips.
ResponseFits(doc) == doc.ladder \subseteq Tiers /\ doc.canned \subseteq doc.clips

\* voices: the gateways with a voice of their own, and "any" for voice_id.
HasPersonaVoice(doc) == doc.voices # {}

Validate(doc) ==
  /\ doc.modes # {}
  /\ doc.modes \cap {"talk", "speak"} # {} => HasPersonaVoice(doc)
  /\ doc.rate = 0 \/ doc.rate \in 8000 .. 48000
  /\ doc.grounding => doc.providers["knowledge"] # <<>>
  /\ doc.translating => doc.providers["translate"] # <<>>
  /\ doc.allowed \subseteq DOMAIN doc.skills
  /\ ResponseFits(doc)
  /\ \A m \in Mentions(doc) : Registered(m[1], m[2])

-----------------------------------------------------------------------------
\* validateGatewayBinding: one engine for each slot, on its port.
Slots == {"listen", "think", "speak"}
Bindings == [Slots -> Gateways \cup {NoGateway}]
Bindable(b) == \A slot \in Slots : Registered(b[slot], slot)

-----------------------------------------------------------------------------
Clocks == {"live", "chat", "playback"}

\* Select passes over what is missing, on another port, unable or, when it is
\* asked, not healthy.
Able(id, port, clock, healthy) ==
  /\ Registered(id, port)
  /\ clock = "live" /\ port \in {"listen", "speak"} => Reg[id].streaming
  /\ id \in healthy

Selects(ids, port, clock, healthy) == \E i \in DOMAIN ids : Able(ids[i], port, clock, healthy)

\* A mode asks for its port, but a profile that names nobody for it is let in.
GateOf(port, doc, clock, healthy) ==
  /\ doc.modes \cap {port, "talk"} # {}
  /\ doc.providers[port] # <<>>
  => Selects(doc.providers[port], port, clock, healthy)

GateCapabilities(doc, clock, healthy) ==
  \A port \in {"listen", "speak"} : GateOf(port, doc, clock, healthy)
=============================================================================
