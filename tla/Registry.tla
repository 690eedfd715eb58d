------------------------------- MODULE Registry -------------------------------
(***************************************************************************)
(* Publication of flows and profiles over HTTP and what pins them: the       *)
(* publish transactions of the store, statement by statement, the mutable    *)
(* draft, the tenant's engines and answer pins, and the resolution of all of  *)
(* them when a session is created and started.  One tenant.                  *)
(*                                                                         *)
(* Statements run at READ COMMITTED: what a transaction has written is seen   *)
(* by others once it commits.  Flows lock their row first; profiles take      *)
(* MAX(version) + 1 without a lock and rely on the primary key.              *)
(***************************************************************************)
EXTENDS Admission, SequencesExt

CONSTANTS Flows, Profiles,  \* keys
          Tenant,           \* the key of the tenant's engines
          FlowDocs,         \* flow documents
          ValidFlows,       \* those that pass flow.Validate
          Body,             \* profile documents: name -> what it says
          Publishers,       \* POST .../versions requests
          Creators,         \* POST /v1/sessions requests
          Operators,        \* PUT /v1/tenant/answer-pins requests
          NoDoc,            \* no draft, nothing received
          MaxPuts,          \* bound: how often the tenant's engines are set
          NoOne             \* holds no lock

Keys == Flows \cup Profiles
ProfileDocs == DOMAIN Body
DocsOf(k) == IF k \in Flows THEN FlowDocs ELSE ProfileDocs
Bound == {b \in Bindings : Bindable(b)}
Valid == ValidFlows \cup {doc \in ProfileDocs : Validate(Body[doc])}

ASSUME RegistryAssumption ==
  /\ Flows \cap Profiles = {} /\ Tenant \notin Keys
  /\ ValidFlows \subseteq FlowDocs /\ FlowDocs \cap ProfileDocs = {}
  /\ NoDoc \notin FlowDocs \cup ProfileDocs
  /\ MaxPuts \in Nat
  /\ NoOne \notin Publishers

VARIABLES exists,    \* the flow or profile row
          versions,  \* committed flow_version and profile_version rows
          current,   \* flow.current_version
          draft,     \* flow_draft.doc of each flow
          engines,   \* what the tenant_engines row has held; the last is there
          lock,      \* the transaction that holds the flow's row
          pub, creator, operator,
          pins       \* history: what has been answered, pinned or set

storeVars == <<exists, versions, current, draft>>
vars == <<storeVars, engines, lock, pub, creator, operator, pins>>

Init ==
  /\ exists = [k \in Keys |-> FALSE]
  /\ versions = [k \in Keys |-> <<>>]
  /\ current = [k \in Keys |-> 0]
  /\ draft = [k \in Flows |-> NoDoc]
  /\ engines = <<>>
  /\ lock = [k \in Flows |-> NoOne]
  /\ pub \in [Publishers -> [pc : {"new"}, key : Keys, doc : {NoDoc}, next : {0}]]
  /\ creator = [c \in Creators |-> [pc |-> "profile", got |-> {}]]
  /\ operator = [o \in Operators |-> [pc |-> "check", got |-> {}]]
  /\ pins = {}

-----------------------------------------------------------------------------
\* UpsertFlowDraft.
SaveDraft(k, doc) == draft' = [draft EXCEPT ![k] = doc]

\* The flow and its draft in one transaction.
AddFlow(k, doc) == exists' = [exists EXCEPT ![k] = TRUE] /\ SaveDraft(k, doc)

\* handleCreateFlow: any document, an empty one when there is none; a flow that is
\* there is a conflict.
CreateFlow(k) ==
  /\ ~exists[k]
  /\ \E doc \in FlowDocs : AddFlow(k, doc)
  /\ UNCHANGED <<versions, current, engines, lock, pub, creator, operator, pins>>

CreateProfile(k) ==
  /\ ~exists[k]
  /\ exists' = [exists EXCEPT ![k] = TRUE]
  /\ UNCHANGED <<versions, current, draft, engines, lock, pub, creator, operator, pins>>

\* handlePutFlowDraft: any JSON will do; an unknown flow is refused.
PutDraft(k) ==
  /\ exists[k]
  /\ \E doc \in FlowDocs : SaveDraft(k, doc)
  /\ UNCHANGED <<exists, versions, current, engines, lock, pub, creator, operator, pins>>

-----------------------------------------------------------------------------
Goto(p, pc) == pub' = [pub EXCEPT ![p].pc = pc]

Key(p) == pub[p].key

\* handlePublishFlow, handlePublishProfile: Parse and Validate.
Receive(p) ==
  /\ pub[p].pc = "new"
  /\ \E d \in DocsOf(Key(p)) :
       pub' = [pub EXCEPT ![p] = IF d \in Valid THEN [@ EXCEPT !.pc = "valid", !.doc = d]
                                 ELSE [@ EXCEPT !.pc = "refused"]]
  /\ UNCHANGED <<storeVars, engines, lock, creator, operator, pins>>

\* The store finds no row for an unknown key.
Refuse(p) ==
  /\ pub[p].pc = "valid" /\ ~exists[Key(p)]
  /\ Goto(p, "refused")
  /\ UNCHANGED <<storeVars, engines, lock, creator, operator, pins>>

Accepted(p) == pub[p].pc = "valid" /\ exists[Key(p)]

\* SELECT current_version FOR UPDATE waits for the row.
LockFlow(p) ==
  /\ Accepted(p) /\ Key(p) \in Flows
  /\ lock[Key(p)] = NoOne
  /\ lock' = [lock EXCEPT ![Key(p)] = p]
  /\ pub' = [pub EXCEPT ![p].pc = "insert", ![p].next = current[Key(p)] + 1]
  /\ UNCHANGED <<storeVars, engines, creator, operator, pins>>

\* SELECT MAX(version) + 1: no lock.
ReadMax(p) ==
  /\ Accepted(p) /\ Key(p) \in Profiles
  /\ pub' = [pub EXCEPT ![p].pc = "insert", ![p].next = Len(versions[Key(p)]) + 1]
  /\ UNCHANGED <<storeVars, engines, lock, creator, operator, pins>>

\* INSERT: waits for another insert of this key that has not committed, and
\* fails on one that has.
Inserting(p, q) == q # p /\ pub[q].pc = "commit" /\ Key(q) = Key(p) /\ pub[q].next = pub[p].next

\* A seeded slip: the row of a version that is there is replaced.
InsertOver(p) ==
  /\ pub[p].pc = "insert"
  /\ Goto(p, "commit")
  /\ UNCHANGED <<storeVars, engines, lock, creator, operator, pins>>

Insert(p) ==
  /\ pub[p].pc = "insert"
  /\ \A q \in Publishers : ~Inserting(p, q)
  /\ pub[p].next \notin DOMAIN versions[Key(p)]
  /\ Goto(p, "commit")
  /\ UNCHANGED <<storeVars, engines, lock, creator, operator, pins>>

Unlocked(p) == [k \in Flows |-> IF lock[k] = p THEN NoOne ELSE lock[k]]

Duplicate(p) ==
  /\ pub[p].pc = "insert"
  /\ pub[p].next \in DOMAIN versions[Key(p)]
  /\ Goto(p, "failed") /\ lock' = Unlocked(p)
  /\ UNCHANGED <<storeVars, engines, creator, operator, pins>>

\* A seeded slip: the versions counter of the row is not moved on.
CommitUncounted(p) ==
  /\ pub[p].pc = "commit"
  /\ versions' = [versions EXCEPT ![Key(p)] =
       [n \in DOMAIN @ \cup {pub[p].next} |-> IF n = pub[p].next THEN pub[p].doc ELSE @[n]]]
  /\ current' = current /\ draft' = draft
  /\ lock' = Unlocked(p)
  /\ \E pc \in {"answer", "failed"} : Goto(p, pc)
  /\ UNCHANGED <<exists, engines, creator, operator, pins>>

\* COMMIT: version, current_version and the draft (the published document takes
\* the place of whatever has been saved since) appear together; the answer may
\* be lost with the connection.
Commit(p) ==
  /\ pub[p].pc = "commit"
  /\ versions' = [versions EXCEPT ![Key(p)] =
       [n \in DOMAIN @ \cup {pub[p].next} |-> IF n = pub[p].next THEN pub[p].doc ELSE @[n]]]
  /\ current' = [current EXCEPT ![Key(p)] = IF Key(p) \in Flows THEN pub[p].next ELSE @]
  /\ draft' = IF Key(p) \in Flows THEN [draft EXCEPT ![Key(p)] = pub[p].doc] ELSE draft
  /\ lock' = Unlocked(p)
  /\ \E pc \in {"answer", "failed"} : Goto(p, pc)
  /\ UNCHANGED <<exists, engines, creator, operator, pins>>

\* A seeded slip: no rollback.
RollbackForgotten(p) ==
  /\ pub[p].pc \in {"insert", "commit"}
  /\ Goto(p, "failed")
  /\ UNCHANGED <<storeVars, engines, lock, creator, operator, pins>>

\* The client leaves or a statement fails: the deferred Rollback runs.
Rollback(p) ==
  /\ pub[p].pc \in {"insert", "commit"}
  /\ Goto(p, "failed") /\ lock' = Unlocked(p)
  /\ UNCHANGED <<storeVars, engines, creator, operator, pins>>

Answer(p) ==
  /\ pub[p].pc = "answer"
  /\ Goto(p, "done")
  /\ pins' = pins \cup {<<Key(p), pub[p].next, pub[p].doc>>}
  /\ UNCHANGED <<storeVars, engines, lock, creator, operator>>

PublishStep(p) ==
  \/ Receive(p) \/ Refuse(p) \/ LockFlow(p) \/ ReadMax(p) \/ Insert(p) \/ Duplicate(p)
  \/ Commit(p) \/ Answer(p)

-----------------------------------------------------------------------------
\* resolveProfileVersion, resolveFlowVersion: "latest" or a number, version and
\* document in one statement.
Read(k, n) == <<k, n, versions[k][n]>>

Resolve(k) == {Read(k, n) : n \in DOMAIN versions[k]}

\* One row for the tenant, which every PUT overwrites.
UpsertTenantEngines(b) == engines' = Append(engines, b)
GetTenantEngines == Last(engines)

\* handlePutTenantEngines: checked, then one statement.
PutEngines ==
  /\ Len(engines) < MaxPuts
  /\ \E b \in Bindings : Bindable(b) /\ UpsertTenantEngines(b)
  /\ UNCHANGED <<storeVars, lock, pub, creator, operator, pins>>

\* handleCreateSession: the profile, the tenant's engines, checked again, the flow
\* (which only clock=playback can do without), checked again, then the row with
\* all three.  A request that is refused on the way changes nothing.
ResolveProfile(c) ==
  /\ creator[c].pc = "profile"
  /\ \E k \in Profiles : \E r \in Resolve(k) :
       creator' = [creator EXCEPT ![c] = [pc |-> "engines", got |-> {r}]]
  /\ UNCHANGED <<storeVars, engines, lock, pub, operator, pins>>

ResolveEngines(c) ==
  /\ creator[c].pc = "engines"
  /\ engines # <<>> /\ Bindable(GetTenantEngines)
  /\ creator' = [creator EXCEPT ![c] =
       [pc |-> "flow", got |-> @.got \cup {<<Tenant, Len(engines), GetTenantEngines>>}]]
  /\ UNCHANGED <<storeVars, engines, lock, pub, operator, pins>>

ResolveFlow(c) ==
  /\ creator[c].pc = "flow"
  /\ \E k \in Flows : \E r \in Resolve(k) :
       creator' = [creator EXCEPT ![c] = [pc |-> "row", got |-> @.got \cup {r}]]
  /\ UNCHANGED <<storeVars, engines, lock, pub, operator, pins>>

Playback(c) ==
  /\ creator[c].pc = "flow"
  /\ creator' = [creator EXCEPT ![c].pc = "row"]
  /\ UNCHANGED <<storeVars, engines, lock, pub, operator, pins>>

CreateSession(c) ==
  /\ creator[c].pc = "row"
  /\ creator' = [creator EXCEPT ![c].pc = "start"]
  /\ pins' = pins \cup creator[c].got
  /\ UNCHANGED <<storeVars, engines, lock, pub, operator>>

\* Manager.Start: the capability gate, on the pinned profile and whatever answers
\* its probe now.
Pinned(c, keys) == {pin[3] : pin \in {r \in creator[c].got : r[1] \in keys}}

ClocksOf(c) == IF Pinned(c, Flows) = {} THEN {"playback"} ELSE Clocks

Outcomes(c) ==
  {IF GateCapabilities(Body[doc], clock, healthy) THEN "running" ELSE "failed" :
     doc \in Pinned(c, Profiles), clock \in ClocksOf(c), healthy \in SUBSET Gateways}

StartActor(c) ==
  /\ creator[c].pc = "start"
  /\ \E pc \in Outcomes(c) : creator' = [creator EXCEPT ![c].pc = pc]
  /\ UNCHANGED <<storeVars, engines, lock, pub, operator, pins>>

Creating(c) ==
  \/ ResolveProfile(c) \/ ResolveEngines(c) \/ ResolveFlow(c) \/ Playback(c)
  \/ CreateSession(c) \/ StartActor(c)

\* handlePutAnswerPins: profile, flow and version are looked up, and the whole
\* list is stored over the one that is there.
CheckPin(o) ==
  /\ operator[o].pc = "check"
  /\ \E q \in Profiles : exists[q]
  /\ \E k \in Flows :
       /\ exists[k]
       /\ \E got \in {{}} \cup {{r} : r \in Resolve(k)} :
            operator' = [operator EXCEPT ![o] = [pc |-> "put", got |-> got]]
  /\ UNCHANGED <<storeVars, engines, lock, pub, creator, pins>>

PutPins(o) ==
  /\ operator[o].pc = "put"
  /\ operator' = [operator EXCEPT ![o].pc = "done"]
  /\ pins' = pins \cup operator[o].got
  /\ UNCHANGED <<storeVars, engines, lock, pub, creator>>

Next ==
  \/ \E k \in Flows : CreateFlow(k) \/ PutDraft(k)
  \/ \E k \in Profiles : CreateProfile(k)
  \/ \E p \in Publishers : PublishStep(p) \/ Rollback(p)
  \/ PutEngines
  \/ \E c \in Creators : Creating(c)
  \/ \E o \in Operators : CheckPin(o) \/ PutPins(o)

Spec == Init /\ [][Next]_vars

\* A request runs to its answer; PostgreSQL hands a row lock on.
FairSpec == Spec /\ \A p \in Publishers : WF_vars(PublishStep(p))

-----------------------------------------------------------------------------
PubStates == {"new", "valid", "refused", "insert", "commit", "answer", "done", "failed"}
CreatorStates == {"profile", "engines", "flow", "row", "start", "running", "failed"}
Resolved == (Keys \X Nat \X Valid) \cup ({Tenant} \X Nat \X Bound)

\* What a session resolves has been validated, its engines included, and a flow's
\* counter is its number of versions.
TypeOK ==
  /\ exists \in [Keys -> BOOLEAN]
  /\ versions \in [Keys -> Seq(Valid)]
  /\ current \in [Keys -> Nat]
  /\ \A k \in Flows : current[k] = Len(versions[k])
  /\ draft \in [Flows -> FlowDocs \cup {NoDoc}]
  /\ engines \in Seq(Bound)
  /\ lock \in [Flows -> Publishers \cup {NoOne}]
  /\ pub \in [Publishers -> [pc : PubStates, key : Keys, doc : Valid \cup {NoDoc}, next : Nat]]
  /\ creator \in [Creators -> [pc : CreatorStates, got : SUBSET Resolved]]
  /\ operator \in [Operators -> [pc : {"check", "put", "done"}, got : SUBSET Resolved]]
  /\ pins \in SUBSET Resolved

\* The registry is an append-only list of versions per key: numbers without a
\* gap, a version once answered, pinned or set never changed or taken back, and
\* nothing of a transaction to be seen before it commits.  The tenant's engines
\* are a log of their own, of which a session keeps the entry that it has read.
Abstract == INSTANCE VersionLog WITH
  Keys <- Keys \cup {Tenant}, Docs <- Valid \cup Bound,
  log <- [k \in Keys \cup {Tenant} |-> IF k = Tenant THEN engines ELSE versions[k]]
ImplementsVersionLog == Abstract!LogSpec

\* Every publish request gets its answer: a waiting one, too, whether the one it
\* waits for commits, fails or loses its client.
PublishReturns ==
  \A p \in Publishers :
    pub[p].pc \in {"valid", "insert", "commit", "answer"}
      ~> pub[p].pc \in {"refused", "done", "failed"}
=============================================================================
