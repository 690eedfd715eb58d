---------------------------- MODULE RegistryProofs ----------------------------
(***************************************************************************)
(* Theorems about Registry, for any number of flows, profiles, publishers,  *)
(* sessions and operators: its type invariant, and that it implements the   *)
(* append-only log of VersionLog.                                          *)
(***************************************************************************)
EXTENDS Registry, SequenceTheorems, TLAPS

\* The published versions of each key, and what the tenant's row has held.
Log == [k \in Keys \cup {Tenant} |-> IF k = Tenant THEN engines ELSE versions[k]]

\* An entry of the log, with its number and content.
Named(r) == Abstract!Names(r)

\* Where a publish transaction is: the number it has read is a version's or the
\* next, and once it is inserted it is the next.
PubAt(p) ==
  /\ pub[p].pc \in {"valid", "insert", "commit", "answer"} =>
       pub[p].doc \in Valid /\ (Key(p) \in Flows => pub[p].doc \in FlowDocs)
  /\ pub[p].pc = "insert" => pub[p].next \in 1 .. Len(versions[Key(p)]) + 1
  /\ pub[p].pc = "commit" => pub[p].next = Len(versions[Key(p)]) + 1
  /\ pub[p].pc = "answer" =>
       /\ pub[p].next \in DOMAIN versions[Key(p)]
       /\ versions[Key(p)][pub[p].next] = pub[p].doc

\* Two that have inserted and not committed are at different keys.
Alone ==
  \A p, q \in Publishers :
    pub[p].pc = "commit" /\ pub[q].pc = "commit" /\ Key(p) = Key(q) => p = q

PubInv == (\A p \in Publishers : PubAt(p)) /\ Alone

\* What a request has read is there, before it is pinned and after.
PinInv ==
  /\ \A r \in pins : Named(r)
  /\ \A c \in Creators : \A r \in creator[c].got : Named(r)
  /\ \A o \in Operators : \A r \in operator[o].got : Named(r)

RegInv == TypeOK /\ PubInv /\ PinInv

-----------------------------------------------------------------------------
\* The row that a publish transaction adds, as the database shows it, is an
\* append when its number is the next.
LEMMA AddRow ==
  ASSUME NEW S, NEW s \in Seq(S), NEW d \in S
  PROVE  [n \in DOMAIN s \cup {Len(s) + 1} |-> IF n = Len(s) + 1 THEN d ELSE s[n]]
           = Append(s, d)
<1> DEFINE t == [n \in DOMAIN s \cup {Len(s) + 1} |-> IF n = Len(s) + 1 THEN d ELSE s[n]]
           a == Append(s, d)
<1>1. Len(s) \in Nat /\ DOMAIN s = 1 .. Len(s)
  BY LenProperties
<1>2. DOMAIN s \cup {Len(s) + 1} = 1 .. Len(s) + 1
  BY <1>1
<1>3. t = [n \in 1 .. Len(s) + 1 |-> IF n = Len(s) + 1 THEN d ELSE s[n]]
  BY <1>2
<1>4. /\ a \in Seq(S) /\ Len(a) = Len(s) + 1
      /\ \A i \in 1 .. Len(s) : a[i] = s[i]
      /\ a[Len(s) + 1] = d
  BY AppendProperties
<1>5. a = [n \in 1 .. Len(s) + 1 |-> a[n]]
  <2>1. a \in [1 .. Len(a) -> S]
    BY <1>4, LenProperties
  <2> QED BY <1>4, <2>1
<1>6. \A n \in 1 .. Len(s) + 1 : a[n] = IF n = Len(s) + 1 THEN d ELSE s[n]
  BY <1>1, <1>4
<1> HIDE DEF a
<1>7. [n \in 1 .. Len(s) + 1 |-> a[n]]
        = [n \in 1 .. Len(s) + 1 |-> IF n = Len(s) + 1 THEN d ELSE s[n]]
  BY <1>6
<1> QED BY <1>3, <1>5, <1>7 DEF a

\* The last entry of a log that is not empty.
LEMMA LastEntry ==
  ASSUME NEW S, NEW s \in Seq(S), s # <<>>
  PROVE  /\ Len(s) \in 1 .. Len(s)
         /\ Last(s) = s[Len(s)] /\ Last(s) \in S
BY EmptySeq, LenProperties DEF Last
-----------------------------------------------------------------------------
LEMMA InitReg == Init => RegInv
<1> SUFFICES ASSUME Init PROVE RegInv
  OBVIOUS
<1> USE RegistryAssumption
<1>1. /\ \A k \in Keys : versions[k] = <<>> /\ versions[k] \in Seq(Valid) /\ Len(versions[k]) = 0
      /\ engines \in Seq(Bound)
  BY EmptySeq DEF Init
<1>2. TypeOK
  BY <1>1 DEF Init, TypeOK, Keys, PubStates, CreatorStates
<1>3. PubInv
  BY DEF Init, PubInv, PubAt, Alone
<1>4. PinInv
  BY DEF Init, PinInv
<1> QED BY <1>2, <1>3, <1>4 DEF RegInv

\* What a step does to the log: nothing but pin, or append one entry.
Grown ==
  \/ UNCHANGED <<versions, engines>> /\ pins \subseteq pins'
  \/ /\ UNCHANGED <<engines, pins>>
     /\ \E k \in Keys, d \in Valid : versions' = [versions EXCEPT ![k] = Append(@, d)]
  \/ UNCHANGED <<versions, pins>> /\ \E b \in Bound : engines' = Append(engines, b)

\* A commit appends its document to the versions of its key.
LEMMA CommitAppends ==
  ASSUME TypeOK, PubInv, NEW p \in Publishers, Commit(p)
  PROVE  /\ Key(p) \in Keys /\ pub[p].doc \in Valid
         /\ versions' = [versions EXCEPT ![Key(p)] = Append(@, pub[p].doc)]
<1>1. Key(p) \in Keys /\ versions[Key(p)] \in Seq(Valid)
  BY DEF TypeOK, Key
<1>2. pub[p].doc \in Valid /\ pub[p].next = Len(versions[Key(p)]) + 1
  BY DEF PubInv, PubAt, Commit
<1>3. [n \in DOMAIN versions[Key(p)] \cup {pub[p].next} |->
         IF n = pub[p].next THEN pub[p].doc ELSE versions[Key(p)][n]]
        = Append(versions[Key(p)], pub[p].doc)
  BY <1>1, <1>2, AddRow
<1> QED BY <1>1, <1>2, <1>3 DEF Commit

LEMMA LogGrows == TypeOK /\ PubInv /\ [Next]_vars => Grown
<1> SUFFICES ASSUME TypeOK, PubInv, [Next]_vars PROVE Grown
  OBVIOUS
<1> USE DEF storeVars
<1>1. ASSUME NEW k \in Flows, CreateFlow(k) \/ PutDraft(k) PROVE Grown
  BY <1>1 DEF CreateFlow, PutDraft, Grown
<1>2. ASSUME NEW k \in Profiles, CreateProfile(k) PROVE Grown
  BY <1>2 DEF CreateProfile, Grown
<1>3. ASSUME NEW p \in Publishers, PublishStep(p) \/ Rollback(p) PROVE Grown
  <2>1. CASE Commit(p)
    BY <2>1, CommitAppends DEF Commit, Grown
  <2> QED BY <1>3, <2>1 DEF PublishStep, Rollback, Receive, Refuse, LockFlow, ReadMax,
                          Insert, Duplicate, Answer, Grown
<1>4. CASE PutEngines
  BY <1>4 DEF PutEngines, UpsertTenantEngines, Bound, Grown
<1>5. ASSUME NEW c \in Creators, Creating(c) PROVE Grown
  BY <1>5 DEF Creating, ResolveProfile, ResolveEngines, ResolveFlow, Playback,
              CreateSession, StartActor, Grown
<1>6. ASSUME NEW o \in Operators, CheckPin(o) \/ PutPins(o) PROVE Grown
  BY <1>6 DEF CheckPin, PutPins, Grown
<1>7. CASE UNCHANGED vars
  BY <1>7 DEF vars, Grown
<1> QED BY <1>1, <1>2, <1>3, <1>4, <1>5, <1>6, <1>7 DEF Next

\* An entry of the log stays in it.
LEMMA NamedStays == ASSUME TypeOK, Grown, NEW r, Named(r) PROVE Named(r)'
<1> USE RegistryAssumption
<1>0. PICK k \in Keys \cup {Tenant} : \E n \in 1 .. Len(Log[k]) : r = <<k, n, Log[k][n]>>
  BY DEF Named, Abstract!Names, Log
<1>1. PICK n \in 1 .. Len(Log[k]) : r = <<k, n, Log[k][n]>>
  BY <1>0
<1>2. \A q \in Keys : versions[q] \in Seq(Valid)
  BY DEF TypeOK
<1>3. engines \in Seq(Bound) /\ Log[Tenant] = engines /\ Log'[Tenant] = engines'
  BY DEF TypeOK, Log
<1>4. \A q \in Keys : Log[q] = versions[q] /\ Log'[q] = versions'[q]
  BY DEF Log
<1>5. n \in 1 .. Len(Log'[k]) /\ Log'[k][n] = Log[k][n]
  <2>1. CASE UNCHANGED <<versions, engines>>
    BY <2>1, <1>3, <1>4
  <2>2. ASSUME NEW q \in Keys, NEW d \in Valid, UNCHANGED engines,
               versions' = [versions EXCEPT ![q] = Append(@, d)]
        PROVE  n \in 1 .. Len(Log'[k]) /\ Log'[k][n] = Log[k][n]
    <3>1. /\ Len(Append(versions[q], d)) = Len(versions[q]) + 1
          /\ \A i \in 1 .. Len(versions[q]) : Append(versions[q], d)[i] = versions[q][i]
          /\ Len(versions[q]) \in Nat
      BY <1>2, AppendProperties, LenProperties
    <3>2. CASE k = q
      <4>1. versions'[q] = Append(versions[q], d)
        BY <2>2 DEF TypeOK
      <4> QED BY <1>4, <3>1, <3>2, <4>1
    <3>3. CASE k # q /\ k \in Keys
      <4>1. versions'[k] = versions[k]
        BY <2>2, <3>3 DEF TypeOK
      <4> QED BY <1>4, <3>3, <4>1
    <3>4. CASE k = Tenant
      BY <2>2, <1>3, <3>4
    <3> QED BY <3>2, <3>3, <3>4
  <2>3. ASSUME NEW b \in Bound, UNCHANGED versions, engines' = Append(engines, b)
        PROVE  n \in 1 .. Len(Log'[k]) /\ Log'[k][n] = Log[k][n]
    <3>1. /\ Len(Append(engines, b)) = Len(engines) + 1
          /\ \A i \in 1 .. Len(engines) : Append(engines, b)[i] = engines[i]
          /\ Len(engines) \in Nat
      BY <1>3, AppendProperties, LenProperties
    <3>2. CASE k = Tenant
      BY <1>3, <2>3, <3>1, <3>2
    <3>3. CASE k \in Keys
      BY <1>4, <2>3, <3>3
    <3> QED BY <3>2, <3>3
  <2> QED BY <2>1, <2>2, <2>3 DEF Grown
<1> QED BY <1>1, <1>5 DEF Named, Abstract!Names, Log

-----------------------------------------------------------------------------
\* An entry of the log has the type of what is resolved.
LEMMA NamedIsResolved == ASSUME TypeOK, NEW r, Named(r) PROVE r \in Resolved
<1> USE RegistryAssumption
<1>1. PICK k \in Keys \cup {Tenant} : \E n \in 1 .. Len(Log[k]) : r = <<k, n, Log[k][n]>>
  BY DEF Named, Abstract!Names, Log
<1>2. PICK n \in 1 .. Len(Log[k]) : r = <<k, n, Log[k][n]>>
  BY <1>1
<1>3. CASE k = Tenant
  <2>1. Log[k] = engines /\ engines \in Seq(Bound)
    BY <1>3 DEF TypeOK, Log
  <2>2. n \in Nat /\ Log[k][n] \in Bound
    BY <1>2, <2>1, ElementOfSeq
  <2> QED BY <1>2, <1>3, <2>2 DEF Resolved
<1>4. CASE k \in Keys
  <2>1. Log[k] = versions[k] /\ versions[k] \in Seq(Valid)
    BY <1>4 DEF TypeOK, Log
  <2>2. n \in Nat /\ Log[k][n] \in Valid
    BY <1>2, <2>1, ElementOfSeq
  <2> QED BY <1>2, <1>4, <2>2 DEF Resolved
<1> QED BY <1>3, <1>4

\* What resolving a flow or a profile returns is an entry of the log.
LEMMA ResolvedIsNamed ==
  ASSUME TypeOK, NEW k \in Keys, NEW r \in Resolve(k)
  PROVE  Named(r) /\ r \in Resolved
<1> USE RegistryAssumption
<1>1. PICK n \in DOMAIN versions[k] : r = <<k, n, versions[k][n]>>
  BY DEF Resolve, Read
<1>2. versions[k] \in Seq(Valid) /\ Log[k] = versions[k]
  BY DEF TypeOK, Log
<1>3. n \in 1 .. Len(Log[k])
  BY <1>2, LenProperties
<1>4. Named(r)
  BY <1>1, <1>2, <1>3 DEF Named, Abstract!Names, Log
<1> QED BY <1>4, NamedIsResolved

\* So is what a session keeps of the tenant's engines.
LEMMA EnginesAreNamed ==
  ASSUME TypeOK, engines # <<>>, NEW r, r = <<Tenant, Len(engines), GetTenantEngines>>
  PROVE  Named(r) /\ r \in Resolved
<1>1. Log[Tenant] = engines
  BY DEF Log
<1>2. /\ Len(engines) \in 1 .. Len(engines)
      /\ GetTenantEngines = engines[Len(engines)]
  BY LastEntry DEF TypeOK, GetTenantEngines
<1>3. Named(r)
  BY <1>1, <1>2 DEF Named, Abstract!Names, Log
<1> QED BY <1>3, NamedIsResolved

\* Every entry pinned or about to be pinned stays in the log, and what a step
\* pins or reads is in it.
LEMMA PinStep == TypeOK /\ PubInv /\ PinInv /\ [Next]_vars => PinInv'
<1> SUFFICES ASSUME TypeOK, PubInv, PinInv, [Next]_vars PROVE PinInv'
  OBVIOUS
<1> USE DEF storeVars
<1>1. \A r : Named(r) => Named(r)'
  BY LogGrows, NamedStays
<1>2. CASE UNCHANGED <<creator, operator, pins>>
  BY <1>1, <1>2 DEF PinInv
<1>3. ASSUME NEW p \in Publishers, Answer(p) PROVE PinInv'
  <2>1. Named(<<Key(p), pub[p].next, pub[p].doc>>)
    <3>1. /\ Key(p) \in Keys /\ pub[p].next \in DOMAIN versions[Key(p)]
          /\ versions[Key(p)][pub[p].next] = pub[p].doc
      BY <1>3 DEF Answer, PubInv, PubAt, TypeOK, Key
    <3>2. <<Key(p), pub[p].next, pub[p].doc>> \in Resolve(Key(p))
      BY <3>1 DEF Resolve, Read
    <3> QED BY <3>1, <3>2, ResolvedIsNamed
  <2> QED BY <1>1, <1>3, <2>1 DEF Answer, PinInv
<1>4. ASSUME NEW c \in Creators, Creating(c) PROVE PinInv'
  <2>2. CASE ResolveProfile(c)
    <3>0. PICK k \in Profiles : \E r \in Resolve(k) :
            creator' = [creator EXCEPT ![c] = [pc |-> "engines", got |-> {r}]]
      BY <2>2 DEF ResolveProfile
    <3>1. PICK r \in Resolve(k) :
            creator' = [creator EXCEPT ![c] = [pc |-> "engines", got |-> {r}]]
      BY <3>0
    <3>2. Named(r)
      BY ResolvedIsNamed DEF Keys
    <3> QED BY <1>1, <2>2, <3>1, <3>2 DEF ResolveProfile, PinInv, TypeOK
  <2>3. CASE ResolveEngines(c)
    <3>1. Named(<<Tenant, Len(engines), GetTenantEngines>>)
      BY <2>3, EnginesAreNamed DEF ResolveEngines
    <3>2. \A d \in Creators : \A r \in creator'[d].got :
            r \in creator[d].got \/ r = <<Tenant, Len(engines), GetTenantEngines>>
      BY <2>3 DEF ResolveEngines, TypeOK
    <3> QED BY <1>1, <2>3, <3>1, <3>2 DEF ResolveEngines, PinInv
  <2>4. CASE ResolveFlow(c)
    <3>0. PICK k \in Flows : \E q \in Resolve(k) :
            creator' = [creator EXCEPT ![c] = [pc |-> "row", got |-> @.got \cup {q}]]
      BY <2>4 DEF ResolveFlow
    <3>1. PICK q \in Resolve(k) :
            creator' = [creator EXCEPT ![c] = [pc |-> "row", got |-> @.got \cup {q}]]
      BY <3>0
    <3>2. Named(q)
      BY ResolvedIsNamed DEF Keys
    <3>3. \A d \in Creators : \A r \in creator'[d].got : r \in creator[d].got \/ r = q
      BY <3>1 DEF TypeOK
    <3> QED BY <1>1, <2>4, <3>2, <3>3 DEF ResolveFlow, PinInv
  <2>5. CASE Playback(c) \/ CreateSession(c) \/ StartActor(c)
    <3>0. PICK pc : creator' = [creator EXCEPT ![c].pc = pc]
      BY <2>5 DEF Playback, CreateSession, StartActor
    <3>1. \A d \in Creators : creator'[d].got = creator[d].got
      BY <3>0 DEF TypeOK
    <3>2. pins' \subseteq pins \cup creator[c].got /\ UNCHANGED operator
      BY <2>5 DEF Playback, CreateSession, StartActor
    <3> QED BY <1>1, <3>1, <3>2 DEF PinInv
  <2> QED BY <1>4, <2>2, <2>3, <2>4, <2>5 DEF Creating
<1>5. ASSUME NEW o \in Operators, CheckPin(o) \/ PutPins(o) PROVE PinInv'
  <2>1. CASE CheckPin(o)
    <3>0. PICK k \in Flows : \E got \in {{}} \cup {{r} : r \in Resolve(k)} :
            operator' = [operator EXCEPT ![o] = [pc |-> "put", got |-> got]]
      BY <2>1 DEF CheckPin
    <3>1. PICK got \in {{}} \cup {{r} : r \in Resolve(k)} :
            operator' = [operator EXCEPT ![o] = [pc |-> "put", got |-> got]]
      BY <3>0
    <3>2. \A r \in got : Named(r)
      BY ResolvedIsNamed DEF Keys
    <3>3. \A d \in Operators : operator'[d].got = operator[d].got \/ operator'[d].got = got
      BY <3>1 DEF TypeOK
    <3> QED BY <1>1, <2>1, <3>2, <3>3 DEF CheckPin, PinInv
  <2>2. CASE PutPins(o)
    <3>1. \A d \in Operators : operator'[d].got = operator[d].got
      BY <2>2 DEF PutPins, TypeOK
    <3> QED BY <1>1, <2>2, <3>1 DEF PutPins, PinInv
  <2> QED BY <1>5, <2>1, <2>2
<1>6. ASSUME NEW p \in Publishers, PublishStep(p) \/ Rollback(p) PROVE PinInv'
  <2>1. CASE Answer(p)
    BY <1>3, <2>1
  <2> QED BY <1>2, <1>6, <2>1 DEF PublishStep, Rollback, Receive, Refuse, LockFlow, ReadMax,
                          Insert, Duplicate, Commit
<1>7. CASE (\E k \in Flows : CreateFlow(k) \/ PutDraft(k)) \/ (\E k \in Profiles : CreateProfile(k))
  BY <1>2, <1>7 DEF CreateFlow, PutDraft, CreateProfile
<1>8. CASE PutEngines \/ UNCHANGED vars
  BY <1>2, <1>8 DEF PutEngines, vars
<1> QED BY <1>4, <1>5, <1>6, <1>7, <1>8 DEF Next

-----------------------------------------------------------------------------
PubRec == [pc : PubStates, key : Keys, doc : Valid \cup {NoDoc}, next : Nat]

\* A publish transaction's step changes its own record, and not the key in it.
LEMMA PublishMoves ==
  ASSUME TypeOK, PubInv, NEW p \in Publishers, PublishStep(p) \/ Rollback(p)
  PROVE  /\ pub' \in [Publishers -> PubRec]
         /\ pub'[p].key = pub[p].key
         /\ \A q \in Publishers : q # p => pub'[q] = pub[q]
<1>1. pub \in [Publishers -> PubRec] /\ pub[p] \in PubRec
  BY DEF TypeOK, PubRec
<1> DEFINE Moved == \E e \in PubRec : pub' = [pub EXCEPT ![p] = e] /\ e.key = pub[p].key
<1>2. SUFFICES Moved
  BY <1>1
<1>3. ASSUME NEW pc \in PubStates, Goto(p, pc) PROVE Moved
  <2>1. [pub[p] EXCEPT !.pc = pc] \in PubRec
    BY <1>1 DEF PubRec
  <2>2. pub' = [pub EXCEPT ![p] = [pub[p] EXCEPT !.pc = pc]]
    BY <1>3 DEF Goto
  <2>3. [pub[p] EXCEPT !.pc = pc].key = pub[p].key
    BY <1>1 DEF PubRec
  <2> QED BY <2>1, <2>2, <2>3
<1>4. CASE Refuse(p) \/ Insert(p) \/ Duplicate(p) \/ Commit(p) \/ Answer(p) \/ Rollback(p)
  <2>1. \E pc \in PubStates : Goto(p, pc)
    BY <1>4 DEF Refuse, Insert, Duplicate, Commit, Answer, Rollback, PubStates
  <2> QED BY <1>3, <2>1
<1>5. CASE Receive(p)
  <2>1. PICK d \in DocsOf(Key(p)) :
          pub' = [pub EXCEPT ![p] = IF d \in Valid THEN [@ EXCEPT !.pc = "valid", !.doc = d]
                                    ELSE [@ EXCEPT !.pc = "refused"]]
    BY <1>5 DEF Receive
  <2>2. CASE d \in Valid
    <3>1. pub' = [pub EXCEPT ![p] = [pub[p] EXCEPT !.pc = "valid", !.doc = d]]
      BY <2>1, <2>2
    <3>2. [pub[p] EXCEPT !.pc = "valid", !.doc = d] \in PubRec
      BY <1>1, <2>2 DEF PubRec, PubStates
    <3>3. [pub[p] EXCEPT !.pc = "valid", !.doc = d].key = pub[p].key
      BY <1>1 DEF PubRec
    <3> QED BY <3>1, <3>2, <3>3
  <2>3. CASE d \notin Valid
    <3>1. pub' = [pub EXCEPT ![p] = [pub[p] EXCEPT !.pc = "refused"]]
      BY <2>1, <2>3
    <3>2. [pub[p] EXCEPT !.pc = "refused"] \in PubRec
      BY <1>1 DEF PubRec, PubStates
    <3>3. [pub[p] EXCEPT !.pc = "refused"].key = pub[p].key
      BY <1>1 DEF PubRec
    <3> QED BY <3>1, <3>2, <3>3
  <2> QED BY <2>2, <2>3
<1>6. ASSUME NEW n \in Nat, pub' = [pub EXCEPT ![p].pc = "insert", ![p].next = n] PROVE Moved
  <2>1. pub' = [pub EXCEPT ![p] = [pub[p] EXCEPT !.pc = "insert", !.next = n]]
    BY <1>1, <1>6
  <2>2. [pub[p] EXCEPT !.pc = "insert", !.next = n] \in PubRec
    BY <1>1 DEF PubRec, PubStates
  <2>3. [pub[p] EXCEPT !.pc = "insert", !.next = n].key = pub[p].key
    BY <1>1 DEF PubRec
  <2> QED BY <2>1, <2>2, <2>3
<1>7. CASE LockFlow(p)
  <2>1. current[Key(p)] + 1 \in Nat
    BY DEF TypeOK, Key
  <2> QED BY <1>6, <1>7, <2>1 DEF LockFlow
<1>8. CASE ReadMax(p)
  <2>1. Len(versions[Key(p)]) + 1 \in Nat
    BY LenProperties DEF TypeOK, Key
  <2> QED BY <1>6, <1>8, <2>1 DEF ReadMax
<1> QED BY <1>4, <1>5, <1>7, <1>8 DEF PublishStep

\* A publish transaction's step leaves every variable in its type.
LEMMA PublishTypes ==
  ASSUME TypeOK, PubInv, NEW p \in Publishers, PublishStep(p) \/ Rollback(p)
  PROVE  TypeOK'
<1> USE RegistryAssumption DEF storeVars
<1>1. pub' \in [Publishers -> [pc : PubStates, key : Keys, doc : Valid \cup {NoDoc}, next : Nat]]
  BY PublishMoves DEF PubRec
<1>2. /\ Key(p) \in Keys /\ versions[Key(p)] \in Seq(Valid)
      /\ Len(versions[Key(p)]) \in Nat
  BY LenProperties DEF TypeOK, Key
<1>3. lock' \in [Flows -> Publishers \cup {NoOne}]
  <2>1. Unlocked(p) \in [Flows -> Publishers \cup {NoOne}]
    BY DEF TypeOK, Unlocked
  <2>2. CASE LockFlow(p)
    BY <2>2 DEF LockFlow, TypeOK
  <2> QED BY <2>1, <2>2 DEF PublishStep, Rollback, Receive, Refuse, ReadMax, Insert,
                            Duplicate, Commit, Answer, TypeOK
<1>4. UNCHANGED <<exists, engines, creator, operator>>
  BY DEF PublishStep, Rollback, Receive, Refuse, LockFlow, ReadMax, Insert, Duplicate,
         Commit, Answer
<1>5. CASE Answer(p)
  <2>1. <<Key(p), pub[p].next, pub[p].doc>> \in Resolve(Key(p))
    BY <1>5 DEF Answer, PubInv, PubAt, Resolve, Read
  <2>2. pins' \in SUBSET Resolved
    BY <1>2, <1>5, <2>1, ResolvedIsNamed DEF Answer, TypeOK
  <2> QED BY <1>1, <1>3, <1>4, <1>5, <2>2 DEF Answer, TypeOK
<1>6. CASE Commit(p)
  <2>1. /\ pub[p].doc \in Valid /\ pub[p].next = Len(versions[Key(p)]) + 1
        /\ Key(p) \in Flows => pub[p].doc \in FlowDocs
    BY <1>6 DEF Commit, PubInv, PubAt
  <2> DEFINE added == Append(versions[Key(p)], pub[p].doc)
  <2>2. /\ versions' = [versions EXCEPT ![Key(p)] = added]
        /\ added \in Seq(Valid) /\ Len(added) = pub[p].next
    BY <1>2, <1>6, <2>1, CommitAppends, AppendProperties
  <2> HIDE DEF added
  <2>3. versions' \in [Keys -> Seq(Valid)]
    BY <1>2, <2>2 DEF TypeOK
  <2>4. current' \in [Keys -> Nat] /\ draft' \in [Flows -> FlowDocs \cup {NoDoc}]
    BY <1>2, <1>6, <2>1 DEF Commit, TypeOK
  <2>5. \A k \in Flows : current'[k] = Len(versions'[k])
    <3> TAKE k \in Flows
    <3>1. CASE k = Key(p)
      BY <1>2, <1>6, <2>2, <3>1 DEF Commit, TypeOK
    <3>2. CASE k # Key(p)
      BY <1>6, <2>2, <3>2 DEF Commit, TypeOK, Keys
    <3> QED BY <3>1, <3>2
  <2> QED BY <1>1, <1>3, <1>4, <1>6, <2>3, <2>4, <2>5 DEF Commit, TypeOK
<1>7. CASE UNCHANGED <<storeVars, pins>>
  BY <1>1, <1>3, <1>4, <1>7 DEF TypeOK
<1> QED BY <1>5, <1>6, <1>7 DEF PublishStep, Rollback, Receive, Refuse, LockFlow, ReadMax,
                                Insert, Duplicate

\* And so does every other step.
LEMMA TypeStep == TypeOK /\ PubInv /\ [Next]_vars => TypeOK'
<1> SUFFICES ASSUME TypeOK, PubInv, [Next]_vars PROVE TypeOK'
  OBVIOUS
<1> USE RegistryAssumption DEF storeVars, CreatorStates
<1>1. ASSUME NEW k \in Flows, CreateFlow(k) \/ PutDraft(k) PROVE TypeOK'
  <2>1. PICK doc \in FlowDocs : draft' = [draft EXCEPT ![k] = doc]
    BY <1>1 DEF CreateFlow, PutDraft, AddFlow, SaveDraft
  <2>2. draft' \in [Flows -> FlowDocs \cup {NoDoc}]
    BY <2>1 DEF TypeOK
  <2>3. exists' \in [Keys -> BOOLEAN]
    BY <1>1 DEF CreateFlow, PutDraft, AddFlow, TypeOK
  <2> QED BY <1>1, <2>2, <2>3 DEF CreateFlow, PutDraft, TypeOK
<1>2. ASSUME NEW k \in Profiles, CreateProfile(k) PROVE TypeOK'
  BY <1>2 DEF CreateProfile, TypeOK, Keys
<1>3. CASE PutEngines
  <2>1. PICK b \in Bound : engines' = Append(engines, b)
    BY <1>3 DEF PutEngines, UpsertTenantEngines, Bound
  <2>2. engines' \in Seq(Bound)
    BY <2>1, AppendProperties DEF TypeOK
  <2> QED BY <1>3, <2>2 DEF PutEngines, TypeOK
<1>4. ASSUME NEW c \in Creators, Creating(c) PROVE TypeOK'
  <2>1. CASE ResolveProfile(c)
    <3>1. PICK k \in Profiles : \E r \in Resolve(k) :
            creator' = [creator EXCEPT ![c] = [pc |-> "engines", got |-> {r}]]
      BY <2>1 DEF ResolveProfile
    <3>2. \A r \in Resolve(k) : r \in Resolved
      BY ResolvedIsNamed DEF Keys
    <3>3. PICK r \in Resolved : creator' = [creator EXCEPT ![c] = [pc |-> "engines", got |-> {r}]]
      BY <3>1, <3>2
    <3>4. creator' \in [Creators -> [pc : CreatorStates, got : SUBSET Resolved]]
      BY <3>3 DEF TypeOK
    <3> QED BY <2>1, <3>4 DEF ResolveProfile, TypeOK
  <2>2. CASE ResolveEngines(c)
    <3>1. <<Tenant, Len(engines), GetTenantEngines>> \in Resolved
      BY <2>2, EnginesAreNamed DEF ResolveEngines
    <3> QED BY <2>2, <3>1 DEF ResolveEngines, TypeOK
  <2>3. CASE ResolveFlow(c)
    <3>1. PICK k \in Flows : \E r \in Resolve(k) :
            creator' = [creator EXCEPT ![c] = [pc |-> "row", got |-> @.got \cup {r}]]
      BY <2>3 DEF ResolveFlow
    <3>2. \A r \in Resolve(k) : r \in Resolved
      BY ResolvedIsNamed DEF Keys
    <3> QED BY <2>3, <3>1, <3>2 DEF ResolveFlow, TypeOK
  <2>4. CASE Playback(c)
    BY <2>4 DEF Playback, TypeOK
  <2>5. CASE CreateSession(c)
    BY <2>5 DEF CreateSession, TypeOK
  <2>6. CASE StartActor(c)
    <3>1. Outcomes(c) \subseteq {"running", "failed"}
      BY DEF Outcomes
    <3>2. PICK pc \in {"running", "failed"} : creator' = [creator EXCEPT ![c].pc = pc]
      BY <2>6, <3>1 DEF StartActor
    <3> DEFINE e == [creator[c] EXCEPT !.pc = pc]
    <3>3. creator[c] \in [pc : CreatorStates, got : SUBSET Resolved]
      BY DEF TypeOK
    <3>6. e \in [pc : CreatorStates, got : SUBSET Resolved]
      BY <3>3 DEF CreatorStates
    <3>7. creator' = [creator EXCEPT ![c] = e]
      BY <3>2
    <3>4. creator' \in [Creators -> [pc : CreatorStates, got : SUBSET Resolved]]
      BY <3>6, <3>7 DEF TypeOK
    <3>5. UNCHANGED <<storeVars, engines, lock, pub, operator, pins>>
      BY <2>6 DEF StartActor
    <3> QED BY <3>4, <3>5 DEF TypeOK
  <2> QED BY <1>4, <2>1, <2>2, <2>3, <2>4, <2>5, <2>6 DEF Creating
<1>5. ASSUME NEW o \in Operators, CheckPin(o) \/ PutPins(o) PROVE TypeOK'
  <2>1. CASE CheckPin(o)
    <3>1. PICK k \in Flows : \E got \in {{}} \cup {{r} : r \in Resolve(k)} :
            operator' = [operator EXCEPT ![o] = [pc |-> "put", got |-> got]]
      BY <2>1 DEF CheckPin
    <3>2. \A r \in Resolve(k) : r \in Resolved
      BY ResolvedIsNamed DEF Keys
    <3> QED BY <2>1, <3>1, <3>2 DEF CheckPin, TypeOK
  <2>2. CASE PutPins(o)
    BY <2>2 DEF PutPins, TypeOK
  <2> QED BY <1>5, <2>1, <2>2
<1>6. CASE UNCHANGED vars
  BY <1>6 DEF vars, TypeOK
<1> QED BY <1>1, <1>2, <1>3, <1>4, <1>5, <1>6, PublishTypes DEF Next

\* No step of another takes a transaction's number from it, and its own lead to
\* the number it inserts.
LEMMA PubStep == TypeOK /\ PubInv /\ [Next]_vars => PubInv'
<1> SUFFICES ASSUME TypeOK, PubInv, [Next]_vars PROVE PubInv'
  OBVIOUS
<1> USE RegistryAssumption DEF storeVars, Key
<1>1. CASE UNCHANGED <<versions, pub>>
  BY <1>1 DEF PubInv, PubAt, Alone
<1>2. ASSUME NEW p \in Publishers, PublishStep(p) \/ Rollback(p) PROVE PubInv'
  <2>1. /\ Key(p) \in Keys /\ versions[Key(p)] \in Seq(Valid)
        /\ Len(versions[Key(p)]) \in Nat /\ DOMAIN versions[Key(p)] = 1 .. Len(versions[Key(p)])
    BY LenProperties DEF TypeOK
  <2>2. \A q \in Publishers : q # p => pub'[q] = pub[q]
    BY <1>2, PublishMoves
  <2>3. pub'[p].key = pub[p].key
    BY <1>2, PublishMoves
  <2>4. ASSUME UNCHANGED versions, pub'[p].pc # "commit", PubAt(p)' PROVE PubInv'
    <3>1. \A q \in Publishers : PubAt(q)'
      BY <2>2, <2>4 DEF PubInv, PubAt
    <3>2. Alone'
      BY <2>2, <2>4 DEF PubInv, Alone
    <3> QED BY <3>1, <3>2 DEF PubInv
  <2>5. CASE Refuse(p) \/ Duplicate(p) \/ Rollback(p) \/ Answer(p)
    <3>1. pub'[p].pc \in {"refused", "failed", "done"} /\ UNCHANGED versions
      BY <2>5 DEF Refuse, Duplicate, Rollback, Answer, Goto, TypeOK
    <3> QED BY <2>4, <3>1 DEF PubAt
  <2>6. CASE Receive(p)
    <3>1. PICK d \in DocsOf(Key(p)) :
            pub' = [pub EXCEPT ![p] = IF d \in Valid THEN [@ EXCEPT !.pc = "valid", !.doc = d]
                                      ELSE [@ EXCEPT !.pc = "refused"]]
      BY <2>6 DEF Receive
    <3>2. \/ pub'[p].pc = "refused"
          \/ pub'[p].pc = "valid" /\ pub'[p].doc = d /\ d \in Valid
      BY <3>1 DEF TypeOK
    <3> QED BY <2>3, <2>4, <2>6, <3>2 DEF Receive, PubAt, DocsOf
  <2>7. CASE LockFlow(p) \/ ReadMax(p)
    <3>1. pub[p].pc = "valid" /\ UNCHANGED versions
      BY <2>7 DEF LockFlow, ReadMax, Accepted
    <3>2. pub' = [pub EXCEPT ![p].pc = "insert", ![p].next = Len(versions[Key(p)]) + 1]
      BY <2>7 DEF LockFlow, ReadMax, TypeOK
    <3>3. pub'[p] = [pub[p] EXCEPT !.pc = "insert", !.next = Len(versions[Key(p)]) + 1]
      BY <3>2 DEF TypeOK
    <3>4. /\ pub'[p].pc = "insert" /\ pub'[p].doc = pub[p].doc
          /\ pub'[p].next = Len(versions[Key(p)]) + 1
      BY <3>3 DEF TypeOK
    <3> QED BY <2>1, <2>3, <2>4, <3>1, <3>4 DEF PubInv, PubAt
  <2>8. CASE Insert(p)
    <3>1. pub' = [pub EXCEPT ![p].pc = "commit"] /\ UNCHANGED versions /\ pub[p].pc = "insert"
      BY <2>8 DEF Insert, Goto
    <3>2. pub'[p].pc = "commit" /\ pub'[p].doc = pub[p].doc /\ pub'[p].next = pub[p].next
      BY <3>1 DEF TypeOK
    <3>3. pub[p].next = Len(versions[Key(p)]) + 1
      BY <2>1, <2>8, <3>1 DEF Insert, PubInv, PubAt
    <3>4. \A q \in Publishers : pub[q].pc = "commit" /\ Key(q) = Key(p) => q = p
      BY <2>8, <3>3 DEF Insert, Inserting, PubInv, PubAt
    <3>5. \A q \in Publishers : PubAt(q)'
      BY <2>2, <2>3, <3>1, <3>2, <3>3 DEF PubInv, PubAt
    <3>6. Alone'
      BY <2>2, <2>3, <3>4 DEF PubInv, Alone
    <3> QED BY <3>5, <3>6 DEF PubInv
  <2>9. CASE Commit(p)
    <3>1. /\ pub[p].pc = "commit" /\ pub[p].next = Len(versions[Key(p)]) + 1
          /\ \A q \in Publishers : q # p => ~(pub[q].pc = "commit" /\ Key(q) = Key(p))
      BY <2>9 DEF Commit, PubInv, PubAt, Alone
    <3>2. PICK pc \in {"answer", "failed"} : pub' = [pub EXCEPT ![p].pc = pc]
      BY <2>9 DEF Commit, Goto
    <3>3. pub'[p].pc = pc /\ pub'[p].doc = pub[p].doc /\ pub'[p].next = pub[p].next
      BY <3>2 DEF TypeOK
    <3> DEFINE added == Append(versions[Key(p)], pub[p].doc)
    <3>4. pub[p].doc \in Valid /\ versions' = [versions EXCEPT ![Key(p)] = added]
      BY <2>9, CommitAppends
    <3>5. /\ Len(added) = Len(versions[Key(p)]) + 1 /\ DOMAIN added = 1 .. Len(added)
          /\ \A i \in 1 .. Len(versions[Key(p)]) : added[i] = versions[Key(p)][i]
          /\ added[pub[p].next] = pub[p].doc
      BY <2>1, <3>1, <3>4, AppendProperties, LenProperties
    <3> HIDE DEF added
    <3>6. /\ versions'[Key(p)] = added
          /\ \A k \in Keys : k # Key(p) => versions'[k] = versions[k]
      BY <2>1, <3>4 DEF TypeOK
    <3>7. PubAt(p)'
      <4>1. pub[p].next \in DOMAIN added
        BY <2>1, <3>1, <3>5
      <4>2. pub[p].doc \in Valid /\ (Key(p) \in Flows => pub[p].doc \in FlowDocs)
        BY <3>1 DEF PubInv, PubAt
      <4>3. Key(p)' = Key(p) /\ versions'[Key(p)] = added
        BY <2>3, <3>6
      <4>4. pub'[p].pc \in {"answer", "failed"}
        BY <3>3
      <4> QED BY <3>3, <3>5, <4>1, <4>2, <4>3, <4>4 DEF PubAt
    <3>8. ASSUME NEW q \in Publishers, q # p PROVE PubAt(q)'
      <4>1. Key(q) \in Keys /\ pub'[q] = pub[q] /\ PubAt(q)
        BY <2>2, <3>8 DEF TypeOK, PubInv
      <4>2. CASE Key(q) = Key(p)
        <5>1. pub[q].pc # "commit"
          BY <3>1, <3>8, <4>2
        <5>2. versions'[Key(q)] = added /\ versions[Key(q)] = versions[Key(p)]
          BY <3>6, <4>2
        <5>3. pub[q].pc = "insert" => pub[q].next \in 1 .. Len(added) + 1
          BY <2>1, <3>5, <4>1, <5>2 DEF PubAt
        <5>4. pub[q].pc = "answer" =>
                pub[q].next \in DOMAIN added /\ added[pub[q].next] = pub[q].doc
          BY <2>1, <3>5, <4>1, <5>2, SMTT(30) DEF PubAt
        <5>5. Key(q)' = Key(q) /\ pub'[q] = pub[q] /\ versions'[Key(q)] = added
          BY <2>3, <4>1, <5>2
        <5>6. pub[q].pc \in {"valid", "insert", "commit", "answer"} =>
                pub[q].doc \in Valid /\ (Key(q) \in Flows => pub[q].doc \in FlowDocs)
          BY <4>1 DEF PubAt
        <5> QED BY <5>1, <5>3, <5>4, <5>5, <5>6 DEF PubAt
      <4>3. CASE Key(q) # Key(p)
        <5>1. versions'[Key(q)] = versions[Key(q)]
          BY <3>6, <4>1, <4>3
        <5> QED BY <4>1, <5>1 DEF PubAt
      <4> QED BY <4>2, <4>3
    <3>9. Alone'
      BY <2>2, <3>3, <3>2 DEF PubInv, Alone
    <3> QED BY <3>7, <3>8, <3>9 DEF PubInv
  <2> QED BY <1>2, <2>5, <2>6, <2>7, <2>8, <2>9 DEF PublishStep
<1>3. CASE (\E k \in Flows : CreateFlow(k) \/ PutDraft(k)) \/ (\E k \in Profiles : CreateProfile(k))
  BY <1>1, <1>3 DEF CreateFlow, PutDraft, CreateProfile
<1>4. CASE PutEngines \/ UNCHANGED vars
  BY <1>1, <1>4 DEF PutEngines, vars
<1>5. ASSUME NEW c \in Creators, Creating(c) PROVE PubInv'
  BY <1>1, <1>5 DEF Creating, ResolveProfile, ResolveEngines, ResolveFlow, Playback,
                    CreateSession, StartActor
<1>6. ASSUME NEW o \in Operators, CheckPin(o) \/ PutPins(o) PROVE PubInv'
  BY <1>1, <1>6 DEF CheckPin, PutPins
<1> QED BY <1>2, <1>3, <1>4, <1>5, <1>6 DEF Next

LEMMA RegInvariant == Spec => []RegInv
<1>1. RegInv /\ [Next]_vars => RegInv'
  BY TypeStep, PubStep, PinStep DEF RegInv
<1> QED BY InitReg, <1>1, PTL DEF Spec

\* What a session has resolved, its engines included, has been validated, and a
\* flow's counter is the number of its versions.
THEOREM RegistryTypes == Spec => []TypeOK
<1>1. RegInv => TypeOK
  BY DEF RegInv
<1> QED BY RegInvariant, <1>1, PTL

\* Whatever has been answered, pinned or set names an entry that exists, now,
\* with the content it has: a session never finds its version gone or changed.
THEOREM PinsStand == Spec => []Abstract!PinsName
<1>1. RegInv => Abstract!PinsName
  BY DEF RegInv, PinInv, Named, Abstract!PinsName
<1> QED BY RegInvariant, <1>1, PTL

-----------------------------------------------------------------------------
\* A step of the registry is a step of the log, or none.
LEMMA StepMaps ==
  RegInv /\ RegInv' /\ [Next]_vars => [Abstract!Pin \/ Abstract!Publish]_<<Log, pins>>
<1> SUFFICES ASSUME RegInv, RegInv', [Next]_vars
             PROVE  Abstract!Pin \/ Abstract!Publish
  OBVIOUS
<1> USE RegistryAssumption
<1>1. Grown
  BY LogGrows DEF RegInv
<1>2. CASE UNCHANGED <<versions, engines>> /\ pins \subseteq pins'
  <2>1. UNCHANGED Log
    BY <1>2 DEF Log
  <2>2. \A r : Named(r)' => Named(r)
    BY <2>1 DEF Named, Abstract!Names, Log
  <2>3. \A r \in pins' \ pins : Named(r)
    BY <2>2 DEF RegInv, PinInv
  <2> QED BY <1>2, <2>1, <2>3 DEF Abstract!Pin, Named, Log
<1>3. ASSUME NEW k \in Keys, NEW d \in Valid, UNCHANGED <<engines, pins>>,
             versions' = [versions EXCEPT ![k] = Append(@, d)]
      PROVE  Abstract!Publish
  <2>1. Log' = [Log EXCEPT ![k] = Append(@, d)]
    BY <1>3 DEF RegInv, TypeOK, Log
  <2> QED BY <1>3, <2>1 DEF Abstract!Publish, Log
<1>4. ASSUME NEW b \in Bound, UNCHANGED <<versions, pins>>, engines' = Append(engines, b)
      PROVE  Abstract!Publish
  <2>1. Log' = [Log EXCEPT ![Tenant] = Append(@, b)]
    BY <1>4 DEF Log
  <2> QED BY <1>4, <2>1 DEF Abstract!Publish, Log
<1> QED BY <1>1, <1>2, <1>3, <1>4 DEF Grown

\* The registry implements the append-only log of VersionLog: no version is
\* changed, skipped or taken back, none is seen before its transaction commits,
\* and whatever is answered, pinned or set names an entry that is there.
THEOREM RegistryIsALog == Spec => ImplementsVersionLog
<1>1. Init => Abstract!LogInit
  BY DEF Init, Abstract!LogInit
<1>2. RegInv /\ RegInv' /\ [Next]_vars => [Abstract!Pin \/ Abstract!Publish]_<<Log, pins>>
  BY StepMaps
<1> QED BY RegInvariant, <1>1, <1>2, PTL DEF Spec, ImplementsVersionLog, Abstract!LogSpec, Log
=============================================================================
