----------------------- MODULE SessionLifecycleProofs -----------------------
(***************************************************************************)
(* Theorems about SessionLifecycle, for any number of legs, stops and ends *)
(* of talk: its type invariant, and that StopSession leaves no live talk   *)
(* and no recorder behind.  And about LanguageLock, for any languages,     *)
(* turns and requests: its type invariant, and that the row shows the      *)
(* languages the actor held.                                               *)
(***************************************************************************)
EXTENDS SessionLifecycle, LanguageLock, TLAPS

\* Who has been through stopLiveTalk and stopRecorder: from the first on no
\* talk is live, and from the second on nothing records, as long as no leg has
\* started either since.
Released ==
  /\ endedBy = "end" => released
  /\ \A p \in Procs : pc[p] \in {"rec", "mgr"} => released
  /\ released /\ ~overlap => live = NoConn
  /\ \A p \in Procs : pc[p] = "mgr" /\ ~overlap => rec = NoConn
  /\ endedBy = "end" /\ ~overlap => rec = NoConn

LifeInv == TypeOK /\ Released

\* Every process takes its steps on its own control point.
LEMMA ProcsOf ==
  /\ \A c \in Conns : c \in Procs
  /\ \A p \in Conns \cup Ends : p \in Procs
  /\ Stops \subseteq Procs /\ Talks \subseteq Procs
  /\ Creator \in Procs
BY DEF Procs, Ends

LEMMA InitLife == Init => LifeInv
BY DEF Init, LifeInv, TypeOK, Released, PCs, States, Starting, Ending, Procs, Ends

\* The actor stops under the name of whoever stops it.
LEMMA MgrStopTypes ==
  ASSUME TypeOK, NEW by \in {"gone", "end"}, MgrStop(by)
  PROVE  /\ registered' \in BOOLEAN /\ endedBy' \in {"none", "gone", "end"}
         /\ sinks' \subseteq Conns /\ closed' \subseteq Conns
BY DEF TypeOK, MgrStop

\* Every step leaves every variable in its type.
LEMMA TypeStep == TypeOK /\ [Next]_vars => TypeOK'
<1> SUFFICES ASSUME TypeOK, [Next]_vars PROVE TypeOK'
  OBVIOUS
<1> USE ProcsOf DEF TypeOK, PCs, Starting, Ending, Terminal, States, Goto
<1>1. CASE CreateStep
  <2>1. CASE CreateStart
    <3>1. /\ registered' \in BOOLEAN /\ state' \in States
          /\ \E to \in {"running", "done"} : Goto(Creator, to)
      BY <2>1 DEF CreateStart
    <3>2. pc' \in [Procs -> PCs]
      BY <3>1
    <3> QED BY <2>1, <3>1, <3>2 DEF CreateStart, talkVars, reqVars
  <2>2. CASE CreateRunning
    BY <2>2 DEF CreateRunning, talkVars, reqVars, actorVars
  <2> QED BY <1>1, <2>1, <2>2 DEF CreateStep
<1>2. ASSUME NEW c \in Conns, Connect(c) \/ BindEdge(c) \/ AttachConn(c) \/ AttachSink(c)
      PROVE TypeOK'
  BY <1>2 DEF Connect, BindEdge, AttachConn, AttachSink, Unbind, storeVars, talkVars,
              reqVars, actorVars
<1>3. ASSUME NEW c \in Conns, SetAttached(c) \/ StartLiveTalk(c) \/ RegisterLive(c)
                              \/ StartRecorder(c)
      PROVE TypeOK'
  BY <1>3 DEF SetAttached, StartLiveTalk, RegisterLive, StartRecorder, storeVars,
              talkVars, reqVars, actorVars
<1>4. ASSUME NEW c \in Conns, LegGone(c) \/ GoneStop(c) \/ PeerLeaves(c)
      PROVE TypeOK'
  <2>1. CASE LegGone(c)
    BY <2>1 DEF LegGone, Unbind, storeVars, talkVars, actorVars
  <2>2. CASE GoneStop(c)
    <3>1. MgrStop("gone") /\ Goto(c, "final") /\ UNCHANGED <<storeVars, talkVars, reqVars>>
      BY <2>2 DEF GoneStop
    <3>2. /\ registered' \in BOOLEAN /\ endedBy' \in {"none", "gone", "end"}
          /\ sinks' \subseteq Conns /\ closed' \subseteq Conns
      BY <3>1, MgrStopTypes
    <3>3. pc' \in [Procs -> PCs]
      BY <3>1
    <3> QED BY <3>1, <3>2, <3>3 DEF storeVars, talkVars, reqVars
  <2>3. CASE PeerLeaves(c)
    BY <2>3 DEF PeerLeaves, storeVars, talkVars, reqVars
  <2> QED BY <1>4, <2>1, <2>2, <2>3
<1>5. ASSUME NEW s \in Stops, StopRequest(s) \/ ClientLeaves(s) PROVE TypeOK'
  BY <1>5 DEF StopRequest, ClientLeaves, storeVars, talkVars, actorVars
<1>6. ASSUME NEW t \in Talks, TalkBegins(t) PROVE TypeOK'
  BY <1>6 DEF TalkBegins, storeVars, talkVars, actorVars, reqVars
<1>7. ASSUME NEW p \in Conns \cup Ends, EndStep(p) PROVE TypeOK'
  <2>0. ASSUME NEW to \in PCs, Back(p) \/ Goto(p, to)
        PROVE  pc' \in [Procs -> PCs]
    BY <2>0 DEF Back
  <2>1. CASE FailCall(p)
    BY <2>0, <2>1 DEF FailCall, storeVars, talkVars, actorVars, reqVars
  <2>2. CASE PlayFallback(p)
    BY <2>0, <2>2 DEF PlayFallback, storeVars, talkVars, actorVars, reqVars
  <2>3. CASE RecordDisposition(p)
    BY <2>0, <2>3 DEF RecordDisposition, storeVars, talkVars, actorVars, reqVars
  <2>4. CASE ReadState(p)
    BY <2>0, <2>4 DEF ReadState, storeVars, talkVars, actorVars, reqVars
  <2>5. CASE SetDraining(p)
    BY <2>0, <2>5 DEF SetDraining, storeVars, talkVars, actorVars, reqVars
  <2>6. CASE StopLiveTalk(p)
    BY <2>0, <2>6 DEF StopLiveTalk, storeVars, talkVars, actorVars, reqVars
  <2>7. CASE StopRecorder(p)
    <3>1. Goto(p, "mgr")
      BY <2>7 DEF StopRecorder
    <3>2. pc' \in [Procs -> PCs]
      BY <3>1
    <3>3. /\ rec' = NoConn /\ failing' = FALSE
          /\ UNCHANGED <<storeVars, actorVars, live, released, overlap, reqVars>>
      BY <2>7 DEF StopRecorder
    <3>4. {bound, live, rec}' \subseteq Conns \cup {NoConn}
      BY <3>3 DEF reqVars
    <3>5. UNCHANGED <<state, disp, queued, registered, sinks, closed, endedBy, released,
                      overlap, term, dead>>
      BY <3>3 DEF storeVars, actorVars, reqVars
    <3> HIDE DEF PCs, Starting, Ending, Terminal, States, Goto
    <3> QED BY <3>2, <3>3, <3>4, <3>5
  <2>8. CASE EndStop(p)
    <3>1. MgrStop("end") /\ Goto(p, "final") /\ UNCHANGED <<storeVars, talkVars, reqVars>>
      BY <2>8 DEF EndStop
    <3>2. /\ registered' \in BOOLEAN /\ endedBy' \in {"none", "gone", "end"}
          /\ sinks' \subseteq Conns /\ closed' \subseteq Conns
      BY <3>1, MgrStopTypes
    <3>3. pc' \in [Procs -> PCs]
      BY <3>1
    <3> QED BY <3>1, <3>2, <3>3 DEF storeVars, talkVars, reqVars
  <2>9. CASE SetTerminal(p)
    BY <2>0, <2>9 DEF SetTerminal, storeVars, talkVars, actorVars, reqVars
  <2>10. CASE NeedsFinal(p)
    BY <2>0, <2>10 DEF NeedsFinal, storeVars, talkVars, actorVars, reqVars
  <2>11. CASE FillIn(p)
    BY <2>0, <2>11 DEF FillIn, storeVars, talkVars, actorVars, reqVars
  <2>12. CASE EnqueuePostcall(p)
    BY <2>0, <2>12 DEF EnqueuePostcall, storeVars, talkVars, actorVars, reqVars
  <2> QED BY <1>7, <2>1, <2>2, <2>3, <2>4, <2>5, <2>6, <2>7, <2>8, <2>9, <2>10, <2>11,
             <2>12 DEF EndStep
<1>8. CASE UNCHANGED vars
  BY <1>8 DEF vars, storeVars, actorVars, talkVars, reqVars
<1> QED
  BY <1>1, <1>2, <1>3, <1>4, <1>5, <1>6, <1>7, <1>8 DEF Next, LegStep, Attach

\* A step of a process that touches neither the talk, the recorder nor what has
\* ended the actor, and that does not enter StopSession, keeps Released.
LEMMA ElsewhereStep ==
  ASSUME TypeOK, Released, NEW p \in Procs, NEW to \in PCs \ {"rec", "mgr"},
         Goto(p, to), UNCHANGED <<live, rec, released, overlap, endedBy>>
  PROVE  Released'
BY DEF TypeOK, Released, Goto

\* StopSession has cleared both when it comes to the actor, and a leg that
\* starts one of them meanwhile is marked.
LEMMA ReleasedStep == LifeInv /\ [Next]_vars => Released'
<1> SUFFICES ASSUME TypeOK, Released, [Next]_vars PROVE Released'
  BY DEF LifeInv
<1> USE ProcsOf DEF PCs, Starting, Ending
<1>1. CASE CreateStep
  BY <1>1, ElsewhereStep DEF CreateStep, CreateStart, CreateRunning, talkVars, actorVars
<1>2. ASSUME NEW c \in Conns, Connect(c) \/ BindEdge(c) \/ AttachConn(c) \/ AttachSink(c)
                              \/ SetAttached(c) \/ StartLiveTalk(c) \/ LegGone(c)
      PROVE Released'
  BY <1>2, ElsewhereStep
     DEF Connect, BindEdge, AttachConn, AttachSink, SetAttached, StartLiveTalk, LegGone,
         Unbind, talkVars, actorVars
<1>3. ASSUME NEW c \in Conns, RegisterLive(c) \/ StartRecorder(c) PROVE Released'
  BY <1>3 DEF RegisterLive, StartRecorder, Released, TypeOK, Goto, actorVars
<1>4. ASSUME NEW c \in Conns, GoneStop(c) PROVE Released'
  BY <1>4 DEF GoneStop, MgrStop, Released, TypeOK, Goto, talkVars
<1>5. ASSUME NEW c \in Conns, PeerLeaves(c) PROVE Released'
  BY <1>5 DEF PeerLeaves, Released, talkVars
<1>6. ASSUME NEW s \in Stops, StopRequest(s) PROVE Released'
  BY <1>6, ElsewhereStep DEF StopRequest, talkVars, actorVars
<1>7. ASSUME NEW s \in Stops, ClientLeaves(s) PROVE Released'
  BY <1>7 DEF ClientLeaves, Released, talkVars, actorVars
<1>8. ASSUME NEW t \in Talks, TalkBegins(t) PROVE Released'
  BY <1>8, ElsewhereStep DEF TalkBegins, talkVars, actorVars
<1>9. ASSUME NEW p \in Conns \cup Ends, EndStep(p) PROVE Released'
  <2>1. CASE FailCall(p) \/ PlayFallback(p) \/ RecordDisposition(p) \/ ReadState(p)
    BY <2>1, ElsewhereStep
       DEF FailCall, PlayFallback, RecordDisposition, ReadState, Back, talkVars, actorVars
  <2>2. CASE SetDraining(p) \/ SetTerminal(p)
    BY <2>2, ElsewhereStep DEF SetDraining, SetTerminal, Back, talkVars, actorVars
  <2>3. CASE NeedsFinal(p) \/ FillIn(p) \/ EnqueuePostcall(p)
    BY <2>3, ElsewhereStep DEF NeedsFinal, FillIn, EnqueuePostcall, Back, talkVars, actorVars
  <2>4. CASE StopLiveTalk(p)
    BY <2>4 DEF StopLiveTalk, Released, TypeOK, Goto, actorVars
  <2>5. CASE StopRecorder(p)
    BY <2>5 DEF StopRecorder, Released, TypeOK, Goto, actorVars
  <2>6. CASE EndStop(p)
    BY <2>6 DEF EndStop, MgrStop, Released, TypeOK, Goto, talkVars
  <2> QED BY <1>9, <2>1, <2>2, <2>3, <2>4, <2>5, <2>6 DEF EndStep
<1>10. CASE UNCHANGED vars
  BY <1>10 DEF vars, actorVars, talkVars, Released
<1> QED
  BY <1>1, <1>2, <1>3, <1>4, <1>5, <1>6, <1>7, <1>8, <1>9, <1>10 DEF Next, LegStep, Attach

\* The invariant holds in every reachable state.
THEOREM LifeInvariant == Spec => []LifeInv
<1>1. LifeInv /\ [Next]_vars => LifeInv'
  BY TypeStep, ReleasedStep DEF LifeInv
<1> QED BY InitLife, <1>1, PTL DEF Spec

\* Every variable ranges over the values the code can give it.
THEOREM LifeTypes == Spec => []TypeOK
<1>1. LifeInv => TypeOK
  BY DEF LifeInv
<1> QED BY LifeInvariant, <1>1, PTL

\* A stop, or the end of the talk, leaves neither a live talk nor a recorder.
THEOREM StopReleasesAll == Spec => []StopReleases
<1>1. LifeInv => StopReleases
  BY DEF LifeInv, Released, StopReleases
<1> QED BY LifeInvariant, <1>1, PTL

-----------------------------------------------------------------------------
(* The language of the session.                                            *)
\* Who is writing what it changed.
TurnBusy(t) == turn[t].pc \in {"lock row", "lock pref", "row", "pref"}
PatchBusy(o) == patch[o].pc \in {"row", "pref", "again", "languages", "write"}
Busy == (\E t \in Turns : TurnBusy(t)) \/ (\E o \in Operators : PatchBusy(o))
Chosen(o) == [detected |-> lang.detected, active |-> patch[o].primary]

\* Whatever is about to be written is a pair the actor has held.  A request's
\* pair goes with the actor's detected language, which stands once locked.
Held ==
  /\ lang \in seen /\ (inMap => row \in seen)
  /\ \A t \in Turns : TurnBusy(t) => locked /\ turn[t].saw \in seen
  /\ \A o \in Operators :
       /\ patch[o].pc = "read" => patch[o].primary \in Languages
       /\ PatchBusy(o) => locked /\ patch[o].primary \in Languages /\ Chosen(o) \in seen
       /\ patch[o].pc = "write" /\ inMap => patch[o].saw.detected = lang.detected

\* Changes that do not overlap have one writer at a time.
OneWriter ==
  ~overlapped =>
    /\ \A t, u \in Turns : TurnBusy(t) /\ TurnBusy(u) => t = u
    /\ \A o, p \in Operators : PatchBusy(o) /\ PatchBusy(p) => o = p
    /\ \A t \in Turns, o \in Operators : ~(TurnBusy(t) /\ PatchBusy(o))

\* Its writes have brought the row and the preference as far as it has come.
Settled == row = lang /\ (aniKnown => pref = lang.active)
TurnWritten(t) == turn[t].saw = lang /\ (turn[t].pc \in {"lock pref", "pref"} => row = lang)
PatchWritten(o) ==
  /\ patch[o].primary = lang.active
  /\ patch[o].pc # "row" => row = lang
  /\ patch[o].pc \in {"again", "languages", "write"} /\ aniKnown => pref = lang.active
Written ==
  inMap /\ ~overlapped /\ ~unwritten =>
    /\ ~Busy => Settled
    /\ \A t \in Turns : TurnBusy(t) => TurnWritten(t)
    /\ \A o \in Operators : PatchBusy(o) => PatchWritten(o)

LangInv == LangTypeOK /\ Held /\ OneWriter /\ Written

\* The steps, by what they do to the languages and who writes.  A change of the
\* actor's languages:
Changes ==
  /\ lang'.active # Unknown /\ (locked => lang'.detected = lang.detected)
  /\ locked' = TRUE /\ seen' = seen \cup {lang'} /\ overlapped' = (overlapped \/ Busy)
  /\ UNCHANGED <<row, pref, unwritten, aniKnown, inMap>>
Unchanged == UNCHANGED <<lang, locked, seen, overlapped, aniKnown, inMap>>
NotStored == UNCHANGED <<row, pref, unwritten>>

OtherTurns(t) == patch' = patch /\ \A u \in Turns : u # t => turn'[u] = turn[u]
OtherPatches(o) == turn' = turn /\ \A p \in Operators : p # o => patch'[p] = patch[p]

TurnChanges(t) ==
  /\ ~TurnBusy(t) /\ turn'[t].pc \in {"lock row", "row"} /\ turn'[t].saw = lang'
  /\ Changes
TurnRests(t) == ~TurnBusy(t) /\ ~TurnBusy(t)' /\ Unchanged /\ NotStored
TurnRow(t) ==
  /\ turn[t].pc \in {"lock row", "row"} /\ turn'[t].pc \in {"lock pref", "pref"}
  /\ turn'[t].saw = turn[t].saw /\ row' \in {row, turn[t].saw}
  /\ ~unwritten' => ~unwritten /\ row' = turn[t].saw
  /\ pref' = pref /\ Unchanged
TurnPref(t) ==
  /\ turn[t].pc \in {"lock pref", "pref"} /\ ~TurnBusy(t)'
  /\ ~unwritten' /\ aniKnown /\ turn[t].saw.active # Unknown =>
       ~unwritten /\ pref' = turn[t].saw.active
  /\ ~unwritten' => ~unwritten
  /\ row' = row /\ Unchanged

PatchKeeps(o) == patch'[o].primary = patch[o].primary
PatchRests(o) ==
  /\ patch[o].pc \in {"idle", "read"} /\ ~PatchBusy(o)'
  /\ patch'[o].pc = "read" => patch'[o].primary \in Languages
  /\ Unchanged /\ NotStored
PatchChanges(o) ==
  /\ patch[o].pc = "read" /\ patch'[o].pc = "row" /\ PatchKeeps(o)
  /\ lang' = Chosen(o) /\ Changes
PatchRow(o) ==
  /\ patch[o].pc = "row" /\ patch'[o].pc = "pref" /\ PatchKeeps(o)
  /\ row' \in {row, Chosen(o)}
  /\ ~unwritten' => ~unwritten /\ row' = Chosen(o)
  /\ pref' = pref /\ Unchanged
PatchPref(o) ==
  /\ \/ patch[o].pc = "pref" /\ patch'[o].pc = "again"
     \/ patch[o].pc = "again" /\ patch'[o].pc = "languages"
  /\ PatchKeeps(o)
  /\ ~unwritten' /\ aniKnown /\ patch[o].primary # Unknown =>
       ~unwritten /\ pref' = patch[o].primary
  /\ ~unwritten' => ~unwritten
  /\ row' = row /\ Unchanged
PatchLooks(o) ==
  /\ patch[o].pc = "languages" /\ patch'[o].pc = "write" /\ PatchKeeps(o)
  /\ inMap => patch'[o].saw.detected = lang.detected
  /\ Unchanged /\ NotStored
PatchFinishes(o) ==
  /\ patch[o].pc = "write" /\ patch'[o].pc = "done"
  /\ row' \in {row, [detected |-> patch[o].saw.detected, active |-> patch[o].primary]}
  /\ ~unwritten' => ~unwritten
  /\ pref' = pref /\ Unchanged

LEMMA LangInitially == LangInit => LangInv
<1> SUFFICES ASSUME LangInit PROVE LangInv
  OBVIOUS
<1> USE LanguageAssumption DEF LangInit, NoPair, Code, Pair
<1>1. LangTypeOK
  <2>1. pref \in Code
    OBVIOUS
  <2>2. lang \in Pair /\ row \in Pair /\ seen \subseteq Pair
    BY <2>1
  <2>3. turn \in [Turns -> [pc : TurnPC, saw : Pair, count : 0 .. MaxTurns]]
    BY DEF TurnPC
  <2>4. patch \in [Operators -> [pc : PatchPC, saw : Pair, primary : Code]]
    BY DEF PatchPC
  <2> QED BY <2>1, <2>2, <2>3, <2>4 DEF LangTypeOK
<1>2. /\ \A t \in Turns : turn[t].pc = "idle"
      /\ \A o \in Operators : patch[o].pc = "idle"
  OBVIOUS
<1>3. ~Busy /\ (\A t \in Turns : ~TurnBusy(t)) /\ (\A o \in Operators : ~PatchBusy(o))
  BY <1>2 DEF Busy, TurnBusy, PatchBusy
<1>4. Held /\ OneWriter
  BY <1>2, <1>3 DEF Held, OneWriter
<1>5. Written
  BY <1>3 DEF Written, Settled
<1> QED BY <1>1, <1>4, <1>5 DEF LangInv

\* A turn's step: its type, and one of four shapes.
LEMMA TurnSteps ==
  ASSUME LangTypeOK, NEW t \in Turns, TurnStep(t)
  PROVE  /\ LangTypeOK' /\ OtherTurns(t)
         /\ TurnChanges(t) \/ TurnRests(t) \/ TurnRow(t) \/ TurnPref(t)
<1> DEFINE Rec == [pc : TurnPC, saw : Pair, count : 0 .. MaxTurns]
           Moved(r) == turn' = [turn EXCEPT ![t] = r]
<1>0. /\ turn \in [Turns -> Rec] /\ turn[t] \in Rec /\ lang \in Pair /\ row \in Pair
      /\ pref \in Code /\ seen \subseteq Pair /\ (locked <=> lang.active # Unknown)
      /\ locked \in BOOLEAN /\ overlapped \in BOOLEAN /\ unwritten \in BOOLEAN
      /\ turn[t].saw \in Pair /\ turn[t].saw.active \in Code
      /\ turn[t].count \in 0 .. MaxTurns /\ MaxTurns \in Nat
  BY LanguageAssumption DEF LangTypeOK, Pair
<1>1. ASSUME NEW r \in Rec, Moved(r), patch' = patch, UNCHANGED <<aniKnown, inMap>>,
             lang' \in Pair, row' \in Pair, pref' \in Code,
             seen' \subseteq Pair, locked' \in BOOLEAN, overlapped' \in BOOLEAN,
             unwritten' \in BOOLEAN, locked' <=> lang'.active # Unknown
      PROVE  LangTypeOK' /\ OtherTurns(t) /\ turn'[t] = r
  <2>1. turn' \in [Turns -> Rec] /\ OtherTurns(t) /\ turn'[t] = r
    BY <1>0, <1>1 DEF OtherTurns
  <2> QED BY <1>1, <2>1 DEF LangTypeOK
<1>2. BeingWritten <=> Busy
  BY DEF BeingWritten, BusyPC, Busy, TurnBusy, PatchBusy, LangTypeOK,
         TurnPC, PatchPC
<1>20. ASSUME NEW r \in Rec, Moved(r), NEW pair \in Pair, Change(pair),
              pair.active # Unknown, locked => pair.detected = lang.detected,
              NotStored, UNCHANGED <<patch, aniKnown, inMap>>
       PROVE  /\ LangTypeOK' /\ OtherTurns(t) /\ turn'[t] = r
              /\ lang' = pair /\ Changes
  <2>1. /\ lang' = pair /\ locked' = TRUE /\ seen' = seen \cup {pair}
        /\ overlapped' = (overlapped \/ Busy)
    BY <1>2, <1>20 DEF Change
  <2>2. row' = row /\ pref' = pref /\ unwritten' = unwritten
    BY <1>20 DEF NotStored
  <2>3. seen' \subseteq Pair /\ overlapped' \in BOOLEAN
    BY <1>0, <2>1 DEF Busy
  <2>4. Changes
    BY <1>20, <2>1, <2>2 DEF Changes
  <2>5. LangTypeOK' /\ OtherTurns(t) /\ turn'[t] = r
    BY <1>0, <1>1, <1>20, <2>1, <2>2, <2>3
  <2> QED BY <2>1, <2>4, <2>5
<1>21. turn[t].count < MaxTurns => turn[t].count + 1 \in 0 .. MaxTurns
  BY <1>0
<1>3. CASE OnListenFinal(t)
  <2>1. CASE Unchanged /\ NotStored /\ patch' = patch
                /\ Moved([turn[t] EXCEPT !.pc = "heard", !.count = @ + 1])
                /\ turn[t].pc = "idle" /\ turn[t].count < MaxTurns
    <3> DEFINE r == [turn[t] EXCEPT !.pc = "heard", !.count = @ + 1]
    <3>1. r \in Rec /\ r.pc = "heard"
      BY <1>0, <1>21, <2>1 DEF TurnPC
    <3>2. LangTypeOK' /\ OtherTurns(t) /\ turn'[t] = r
      BY <1>0, <1>1, <2>1, <3>1 DEF Unchanged, NotStored
    <3> QED BY <2>1, <3>1, <3>2 DEF TurnRests, TurnBusy
  <2>2. ASSUME NEW code \in Languages, ~locked,
               Change([detected |-> code, active |-> code]),
               NotStored, UNCHANGED <<patch, aniKnown, inMap>>,
               turn[t].pc = "idle", turn[t].count < MaxTurns,
               Moved([pc |-> "lock row", saw |-> [detected |-> code, active |-> code],
                      count |-> turn[t].count + 1])
        PROVE  LangTypeOK' /\ OtherTurns(t) /\ TurnChanges(t)
    <3> DEFINE pair == [detected |-> code, active |-> code]
               r == [pc |-> "lock row", saw |-> pair, count |-> turn[t].count + 1]
    <3>1. pair \in Pair /\ pair.active # Unknown
      BY LanguageAssumption DEF Pair, Code
    <3>2. r \in Rec /\ r.pc = "lock row" /\ r.saw = pair
      BY <1>21, <2>2, <3>1 DEF TurnPC
    <3>3. LangTypeOK' /\ OtherTurns(t) /\ turn'[t] = r /\ lang' = pair /\ Changes
      <4> HIDE DEF pair
      <4>1. Moved(r) /\ Change(pair)
        BY <2>2 DEF pair
      <4> HIDE DEF r
      <4> QED BY <1>20, <2>2, <3>1, <3>2, <4>1
    <3> QED BY <2>2, <3>2, <3>3 DEF TurnChanges, TurnBusy
  <2>3. /\ turn[t].pc = "idle" /\ turn[t].count < MaxTurns
        /\ NotStored /\ UNCHANGED <<patch, aniKnown, inMap>>
    BY <1>3 DEF OnListenFinal, TurnStays, rowVars, NotStored
  <2>4. \/ \E code \in Languages :
             /\ ~locked /\ Change([detected |-> code, active |-> code])
             /\ Moved([pc |-> "lock row", saw |-> [detected |-> code, active |-> code],
                       count |-> turn[t].count + 1])
        \/ /\ Moved([turn[t] EXCEPT !.pc = "heard", !.count = @ + 1])
           /\ UNCHANGED <<lang, locked, seen, overlapped>>
    BY <1>3 DEF OnListenFinal, ConfidentListenFinal, Code, heldVars
  <2> QED BY <2>1, <2>2, <2>3, <2>4 DEF Unchanged
<1>4. CASE GraphTurn(t)
  <2>1. CASE Unchanged /\ NotStored /\ patch' = patch
                /\ turn[t].pc = "heard" /\ Moved([turn[t] EXCEPT !.pc = "idle"])
    <3> DEFINE r == [turn[t] EXCEPT !.pc = "idle"]
    <3>1. r \in Rec /\ r.pc = "idle"
      BY <1>0 DEF TurnPC
    <3>2. LangTypeOK' /\ OtherTurns(t) /\ turn'[t] = r
      BY <1>0, <1>1, <2>1, <3>1 DEF Unchanged, NotStored
    <3> QED BY <2>1, <3>1, <3>2 DEF TurnRests, TurnBusy
  <2>2. ASSUME NEW locale \in Languages, Change([lang EXCEPT !.active = locale]),
               NotStored, UNCHANGED <<patch, aniKnown, inMap>>,
               turn[t].pc = "heard", Moved([turn[t] EXCEPT !.pc = "row", !.saw = lang'])
        PROVE  LangTypeOK' /\ OtherTurns(t) /\ TurnChanges(t)
    <3> DEFINE pair == [lang EXCEPT !.active = locale]
               r == [turn[t] EXCEPT !.pc = "row", !.saw = lang']
    <3>1. pair \in Pair /\ pair.active # Unknown /\ pair.detected = lang.detected
      BY <1>0, LanguageAssumption DEF Pair, Code
    <3>2. lang' = pair
      BY <2>2 DEF Change
    <3>3. r \in Rec /\ r.pc = "row" /\ r.saw = lang'
      BY <1>0, <3>1, <3>2 DEF TurnPC
    <3>4. LangTypeOK' /\ OtherTurns(t) /\ turn'[t] = r /\ Changes
      <4> HIDE DEF pair
      <4>1. Moved(r) /\ Change(pair)
        BY <2>2 DEF pair
      <4> HIDE DEF r
      <4> QED BY <1>20, <2>2, <3>1, <3>3, <4>1
    <3> QED BY <2>2, <3>3, <3>4 DEF TurnChanges, TurnBusy
  <2>3. turn[t].pc = "heard" /\ NotStored /\ UNCHANGED <<patch, aniKnown, inMap>>
    BY <1>4 DEF GraphTurn, TurnStays, rowVars, NotStored
  <2>4. \/ \E locale \in Languages :
             /\ Change([lang EXCEPT !.active = locale])
             /\ Moved([turn[t] EXCEPT !.pc = "row", !.saw = lang'])
        \/ /\ Moved([turn[t] EXCEPT !.pc = "idle"])
           /\ UNCHANGED <<lang, locked, seen, overlapped>>
    BY <1>4 DEF GraphTurn, SwitchActiveLanguage, TurnGoes, heldVars
  <2> QED BY <2>1, <2>2, <2>3, <2>4 DEF Unchanged
<1>5. CASE TurnWritesRow(t)
  <2>1. PICK to \in {"lock pref", "pref"} :
          /\ turn[t].pc \in {"lock row", "row"} /\ Moved([turn[t] EXCEPT !.pc = to])
    BY <1>5 DEF TurnWritesRow, TurnGoes
  <2> DEFINE r == [turn[t] EXCEPT !.pc = to]
  <2>2. r \in Rec /\ r.pc = to /\ r.saw = turn[t].saw
    BY <1>0 DEF TurnPC
  <2>3. /\ row' \in {row, turn[t].saw} /\ pref' = pref /\ unwritten' \in BOOLEAN
        /\ ~unwritten' => ~unwritten /\ row' = turn[t].saw
        /\ patch' = patch /\ Unchanged
    BY <1>5, <1>0 DEF TurnWritesRow, WriteRow, TurnStays, heldVars, Unchanged
  <2>4. LangTypeOK' /\ OtherTurns(t) /\ turn'[t] = r
    BY <1>0, <1>1, <2>1, <2>2, <2>3 DEF Unchanged
  <2> QED BY <2>1, <2>2, <2>3, <2>4 DEF TurnRow
<1>6. CASE TurnWritesPref(t)
  <2>1. PICK to \in {"heard", "idle"} :
          /\ turn[t].pc \in {"lock pref", "pref"}
          /\ Moved([turn[t] EXCEPT !.pc = to, !.saw = NoPair])
    BY <1>6 DEF TurnWritesPref
  <2> DEFINE r == [turn[t] EXCEPT !.pc = to, !.saw = NoPair]
  <2>2. r \in Rec /\ r.pc = to
    BY <1>0 DEF TurnPC, NoPair, Pair, Code
  <2>3. /\ row' = row /\ pref' \in Code /\ unwritten' \in BOOLEAN
        /\ ~unwritten' => ~unwritten
        /\ ~unwritten' /\ aniKnown /\ turn[t].saw.active # Unknown => pref' = turn[t].saw.active
        /\ patch' = patch /\ Unchanged
    BY <1>6, <1>0 DEF TurnWritesPref, WritePref, TurnStays, heldVars, Unchanged
  <2>4. LangTypeOK' /\ OtherTurns(t) /\ turn'[t] = r
    BY <1>0, <1>1, <2>1, <2>2, <2>3 DEF Unchanged
  <2> QED BY <2>1, <2>2, <2>3, <2>4 DEF TurnPref, TurnBusy
<1> QED BY <1>3, <1>4, <1>5, <1>6 DEF TurnStep

\* A request's step: its type, and one of six shapes.
LEMMA PatchSteps ==
  ASSUME LangTypeOK, Held, NEW o \in Operators, PatchStep(o)
  PROVE  /\ LangTypeOK' /\ OtherPatches(o)
         /\ \/ PatchRests(o) \/ PatchChanges(o) \/ PatchRow(o)
            \/ PatchPref(o) \/ PatchLooks(o) \/ PatchFinishes(o)
<1> DEFINE Rec == [pc : PatchPC, saw : Pair, primary : Code]
           Moved(r) == patch' = [patch EXCEPT ![o] = r]
<1>0. /\ patch \in [Operators -> Rec] /\ patch[o] \in Rec /\ lang \in Pair
      /\ row \in Pair /\ pref \in Code /\ seen \subseteq Pair
      /\ (locked <=> lang.active # Unknown)
      /\ locked \in BOOLEAN /\ overlapped \in BOOLEAN /\ unwritten \in BOOLEAN
      /\ patch[o].saw \in Pair /\ patch[o].primary \in Code
      /\ lang.detected \in Code /\ patch[o].saw.detected \in Code
  BY DEF LangTypeOK, Pair
<1>1. ASSUME NEW r \in Rec, Moved(r), turn' = turn, UNCHANGED <<aniKnown, inMap>>,
             lang' \in Pair, row' \in Pair, pref' \in Code,
             seen' \subseteq Pair, locked' \in BOOLEAN, overlapped' \in BOOLEAN,
             unwritten' \in BOOLEAN, locked' <=> lang'.active # Unknown
      PROVE  LangTypeOK' /\ OtherPatches(o) /\ patch'[o] = r
  <2>1. patch' \in [Operators -> Rec] /\ OtherPatches(o) /\ patch'[o] = r
    BY <1>0, <1>1 DEF OtherPatches
  <2> QED BY <1>1, <2>1 DEF LangTypeOK
<1>2. ASSUME NEW r \in Rec, Moved(r), turn' = turn, Unchanged, NotStored
      PROVE  LangTypeOK' /\ OtherPatches(o) /\ patch'[o] = r
  BY <1>0, <1>1, <1>2 DEF Unchanged, NotStored
<1>3. CASE PatchRead(o)
  <2>1. PICK primary \in Languages :
          patch' = [patch EXCEPT ![o] = [pc |-> "read", saw |-> row, primary |-> primary]]
    BY <1>3 DEF PatchRead
  <2> DEFINE r == [pc |-> "read", saw |-> row, primary |-> primary]
  <2>2. r \in Rec /\ r.pc = "read" /\ r.primary \in Languages
    BY <1>0 DEF PatchPC, Code
  <2>3. patch[o].pc = "idle" /\ Moved(r) /\ turn' = turn /\ Unchanged /\ NotStored
    BY <1>3, <2>1 DEF PatchRead, PatchStays, heldVars, rowVars,
                      Unchanged, NotStored
  <2>4. LangTypeOK' /\ OtherPatches(o) /\ patch'[o] = r
    BY <1>2, <2>2, <2>3
  <2> QED BY <2>2, <2>3, <2>4 DEF PatchRests, PatchBusy
<1>4. CASE PatchRefused(o)
  <2> DEFINE r == [pc |-> "done", saw |-> NoPair, primary |-> Unknown]
  <2>2. r \in Rec /\ r.pc = "done"
    BY DEF PatchPC, NoPair, Pair, Code
  <2>3. patch[o].pc = "read" /\ Moved(r) /\ turn' = turn /\ Unchanged /\ NotStored
    BY <1>4 DEF PatchRefused, PatchEnds, PatchStays, heldVars,
                rowVars, Unchanged, NotStored
  <2>4. LangTypeOK' /\ OtherPatches(o) /\ patch'[o] = r
    BY <1>2, <2>2, <2>3
  <2> QED BY <2>2, <2>3, <2>4 DEF PatchRests, PatchBusy
<1>5. CASE PatchSwitch(o)
  <2> DEFINE r == [patch[o] EXCEPT !.pc = "row"]
  <2>1. patch[o].pc = "read" /\ patch[o].primary \in Languages
    BY <1>5 DEF PatchSwitch, Held
  <2>2. r \in Rec /\ r.pc = "row" /\ r.primary = patch[o].primary
    BY <1>0 DEF PatchPC
  <2>3. /\ Moved(r) /\ turn' = turn /\ NotStored /\ UNCHANGED <<aniKnown, inMap>>
        /\ Change([lang EXCEPT !.active = patch[o].primary])
    BY <1>5 DEF PatchSwitch, PatchGoes, PatchStays, rowVars, NotStored,
                SwitchActiveLanguage
  <2>4. /\ Chosen(o) = [lang EXCEPT !.active = patch[o].primary]
        /\ Chosen(o) \in Pair /\ Chosen(o).active # Unknown
        /\ Chosen(o).detected = lang.detected
    BY <1>0, <2>1, LanguageAssumption DEF Chosen, Pair
  <2>5. BeingWritten <=> Busy
    BY DEF BeingWritten, BusyPC, Busy, TurnBusy, PatchBusy, LangTypeOK,
           TurnPC, PatchPC
  <2>6. /\ lang' = Chosen(o) /\ locked' = TRUE /\ seen' = seen \cup {Chosen(o)}
        /\ overlapped' = (overlapped \/ Busy)
    BY <2>3, <2>4, <2>5 DEF Change
  <2>7. seen' \subseteq Pair /\ overlapped' \in BOOLEAN
    BY <1>0, <2>4, <2>6 DEF Busy
  <2>8. row' = row /\ pref' = pref /\ unwritten' = unwritten
    BY <2>3 DEF NotStored
  <2>9. Changes
    BY <2>3, <2>4, <2>6, <2>8 DEF Changes
  <2> HIDE DEF r
  <2>10. LangTypeOK' /\ OtherPatches(o) /\ patch'[o] = r
    BY <1>0, <1>1, <2>2, <2>3, <2>4, <2>6, <2>7, <2>8
  <2> QED BY <2>1, <2>2, <2>6, <2>9, <2>10 DEF PatchChanges, PatchKeeps
<1>6. CASE PatchWritesRow(o)
  <2> DEFINE r == [patch[o] EXCEPT !.pc = "pref"]
  <2>2. r \in Rec /\ r.pc = "pref" /\ r.primary = patch[o].primary
    BY <1>0 DEF PatchPC
  <2>3. /\ patch[o].pc = "row" /\ Moved(r) /\ turn' = turn /\ Unchanged
        /\ row' \in {row, Chosen(o)} /\ pref' = pref /\ unwritten' \in BOOLEAN
        /\ ~unwritten' => ~unwritten /\ row' = Chosen(o)
    BY <1>0, <1>6 DEF PatchWritesRow, PatchGoes, PatchStays, heldVars,
                WriteRow, Chosen, Unchanged
  <2>4. Chosen(o) \in Pair
    BY <1>0 DEF Chosen, Pair
  <2>5. LangTypeOK' /\ OtherPatches(o) /\ patch'[o] = r
    BY <1>0, <1>1, <2>2, <2>3, <2>4 DEF Unchanged
  <2> QED BY <2>2, <2>3, <2>5 DEF PatchRow, PatchKeeps
<1>7. CASE PatchWritesPref(o)
  <2>1. PICK to \in {"again", "languages"} :
          /\ patch[o].pc = (IF to = "again" THEN "pref" ELSE "again")
          /\ Moved([patch[o] EXCEPT !.pc = to])
    BY <1>7 DEF PatchWritesPref, PatchGoes
  <2> DEFINE r == [patch[o] EXCEPT !.pc = to]
  <2>2. r \in Rec /\ r.pc = to /\ r.primary = patch[o].primary
    BY <1>0 DEF PatchPC
  <2>3. /\ turn' = turn /\ Unchanged /\ row' = row
        /\ pref' \in Code /\ unwritten' \in BOOLEAN /\ (~unwritten' => ~unwritten)
        /\ ~unwritten' /\ aniKnown /\ patch[o].primary # Unknown => pref' = patch[o].primary
    BY <1>0, <1>7 DEF PatchWritesPref, PatchStays, heldVars, WritePref,
                      Unchanged
  <2>4. Moved(r)
    BY <2>1
  <2> HIDE DEF r
  <2>5. LangTypeOK' /\ OtherPatches(o) /\ patch'[o] = r
    BY <1>0, <1>1, <2>2, <2>3, <2>4 DEF Unchanged
  <2>6. \/ patch[o].pc = "pref" /\ patch'[o].pc = "again"
        \/ patch[o].pc = "again" /\ patch'[o].pc = "languages"
    BY <2>1, <2>2, <2>5
  <2>7. PatchKeeps(o)
    BY <2>2, <2>5 DEF PatchKeeps
  <2>8. PatchPref(o)
    BY <2>3, <2>6, <2>7 DEF PatchPref
  <2> QED BY <2>5, <2>8
<1>8. CASE PatchLanguages(o)
  <2> DEFINE r == [patch[o] EXCEPT !.pc = "write",
                     !.saw.detected = IF inMap THEN lang.detected ELSE @]
  <2>2. /\ r \in Rec /\ r.pc = "write" /\ r.primary = patch[o].primary
        /\ inMap => r.saw.detected = lang.detected
    BY <1>0 DEF PatchPC, Pair
  <2>3. patch[o].pc = "languages" /\ Moved(r) /\ turn' = turn /\ Unchanged /\ NotStored
    BY <1>8 DEF PatchLanguages, PatchStays, heldVars, rowVars,
                Unchanged, NotStored
  <2> HIDE DEF r
  <2>4. LangTypeOK' /\ OtherPatches(o) /\ patch'[o] = r
    BY <1>2, <2>2, <2>3
  <2> QED BY <2>2, <2>3, <2>4 DEF PatchLooks, PatchKeeps
<1>9. CASE PatchWrites(o)
  <2> DEFINE r == [pc |-> "done", saw |-> NoPair, primary |-> Unknown]
             last == [detected |-> patch[o].saw.detected, active |-> patch[o].primary]
  <2>2. r \in Rec /\ r.pc = "done"
    BY DEF PatchPC, NoPair, Pair, Code
  <2>3. /\ patch[o].pc = "write" /\ Moved(r) /\ turn' = turn /\ Unchanged
        /\ row' \in {row, last} /\ pref' = pref /\ unwritten' \in BOOLEAN
        /\ ~unwritten' => ~unwritten
    BY <1>0, <1>9 DEF PatchWrites, PatchEnds, PatchStays, heldVars,
                      rowVars, WriteRow, Unchanged
  <2>4. last \in Pair
    BY <1>0 DEF Pair
  <2> HIDE DEF last, r
  <2>5. LangTypeOK' /\ OtherPatches(o) /\ patch'[o] = r
    BY <1>0, <1>1, <2>2, <2>3, <2>4 DEF Unchanged
  <2> QED BY <2>2, <2>3, <2>5 DEF PatchFinishes, last
<1> QED BY <1>3, <1>4, <1>5, <1>6, <1>7, <1>8, <1>9 DEF PatchStep

\* Each of the shapes keeps what is said of the pairs, of who writes, and of
\* what has been written.
LangPart == Held /\ OneWriter /\ Written

LEMMA TurnKeeps ==
  ASSUME LangTypeOK, LangTypeOK', LangPart,
         NEW t \in Turns, OtherTurns(t),
         TurnChanges(t) \/ TurnRests(t) \/ TurnRow(t) \/ TurnPref(t)
  PROVE  LangPart'
<1>0. /\ lang \in Pair /\ lang' \in Pair /\ row \in Pair /\ row' \in Pair
      /\ \A u \in Turns : u # t => (TurnBusy(u)' <=> TurnBusy(u)) /\ turn'[u] = turn[u]
      /\ \A o \in Operators : PatchBusy(o)' <=> PatchBusy(o)
      /\ patch' = patch
      /\ Busy <=> (\E u \in Turns : TurnBusy(u)) \/ (\E o \in Operators : PatchBusy(o))
      /\ Busy' <=> (\E u \in Turns : TurnBusy(u)') \/ (\E o \in Operators : PatchBusy(o)')
  BY DEF LangTypeOK, OtherTurns, TurnBusy, PatchBusy, Busy
<1> USE DEF LangPart
<1>1. CASE TurnChanges(t)
  <2>1. /\ ~TurnBusy(t) /\ TurnBusy(t)' /\ turn'[t].saw = lang'
        /\ turn'[t].pc \notin {"lock pref", "pref"}
        /\ Changes
    BY <1>1 DEF TurnChanges, TurnBusy
  <2>2. Held'
    <3>1. lang' \in seen' /\ (inMap' => row' \in seen')
      BY <2>1 DEF Changes, Held
    <3>2. ASSUME NEW u \in Turns, TurnBusy(u)' PROVE locked' /\ turn'[u].saw \in seen'
      BY <1>0, <2>1, <3>1, <3>2 DEF Changes, Held
    <3>3. ASSUME NEW o \in Operators
          PROVE  /\ patch'[o].pc = "read" => patch'[o].primary \in Languages
                 /\ PatchBusy(o)' => /\ locked' /\ patch'[o].primary \in Languages
                                     /\ Chosen(o)' \in seen'
                 /\ patch'[o].pc = "write" /\ inMap'
                      => patch'[o].saw.detected = lang'.detected
      <4>1. PatchBusy(o) => lang'.detected = lang.detected /\ Chosen(o)' = Chosen(o)
        BY <1>0, <2>1 DEF Changes, Held, Chosen
      <4>2. patch[o].pc = "write" => PatchBusy(o)
        BY DEF PatchBusy
      <4> QED BY <1>0, <2>1, <4>1, <4>2 DEF Changes, Held
    <3> QED BY <3>1, <3>2, <3>3 DEF Held
  <2>3. ~overlapped' => /\ ~Busy /\ \A u \in Turns : ~TurnBusy(u)
                        /\ \A o \in Operators : ~PatchBusy(o)
    BY <1>0, <2>1 DEF Changes
  <2>4. OneWriter'
    BY <1>0, <2>3 DEF OneWriter
  <2>5. Written'
    BY <1>0, <2>1, <2>3 DEF Written, TurnWritten
  <2> QED BY <2>2, <2>4, <2>5
<1>2. CASE TurnRests(t)
  <2>1. ~TurnBusy(t) /\ ~TurnBusy(t)' /\ Unchanged /\ NotStored
    BY <1>2 DEF TurnRests
  <2>2. Held'
    BY <1>0, <2>1 DEF Held, Unchanged, NotStored, Chosen
  <2>3. OneWriter'
    BY <1>0, <2>1 DEF OneWriter, Unchanged
  <2>4. Written'
    BY <1>0, <2>1 DEF Written, Unchanged, NotStored, Settled, TurnWritten, PatchWritten
  <2> QED BY <2>2, <2>3, <2>4
<1>3. CASE TurnRow(t)
  <2>1. /\ TurnBusy(t) /\ TurnBusy(t)' /\ turn'[t].saw = turn[t].saw /\ Unchanged
        /\ row' \in {row, turn[t].saw} /\ pref' = pref
        /\ ~unwritten' => ~unwritten /\ row' = turn[t].saw
    BY <1>3 DEF TurnRow, TurnBusy
  <2>2. Held'
    BY <1>0, <2>1 DEF Held, Unchanged, Chosen
  <2>3. OneWriter'
    BY <1>0, <2>1 DEF OneWriter, Unchanged
  <2>4. Written'
    <3> SUFFICES ASSUME inMap', ~overlapped', ~unwritten' PROVE
          /\ Busy'
          /\ \A u \in Turns : TurnBusy(u)' => TurnWritten(u)'
          /\ \A o \in Operators : ~PatchBusy(o)'
      BY DEF Written
    <3>1. /\ \A u \in Turns : TurnBusy(u)' => u = t
          /\ \A o \in Operators : ~PatchBusy(o)'
      BY <1>0, <2>1 DEF OneWriter, Unchanged
    <3>2. turn[t].saw = lang
      BY <2>1 DEF Written, Unchanged, TurnWritten
    <3>3. TurnWritten(t)'
      BY <2>1, <3>2 DEF TurnWritten, Unchanged
    <3> QED BY <1>0, <2>1, <3>1, <3>3
  <2> QED BY <2>2, <2>3, <2>4
<1>4. CASE TurnPref(t)
  <2>1. /\ TurnBusy(t) /\ ~TurnBusy(t)' /\ Unchanged /\ row' = row
        /\ turn[t].pc \in {"lock pref", "pref"} /\ (~unwritten' => ~unwritten)
        /\ ~unwritten' /\ aniKnown /\ turn[t].saw.active # Unknown => pref' = turn[t].saw.active
    BY <1>4 DEF TurnPref, TurnBusy
  <2>2. Held'
    BY <1>0, <2>1 DEF Held, Unchanged, Chosen
  <2>3. OneWriter'
    BY <1>0, <2>1 DEF OneWriter, Unchanged
  <2>4. Written'
    <3> SUFFICES ASSUME inMap', ~overlapped', ~unwritten' PROVE
          /\ Settled'
          /\ \A u \in Turns : ~TurnBusy(u)'
          /\ \A o \in Operators : ~PatchBusy(o)'
      BY DEF Written
    <3>1. /\ \A u \in Turns : ~TurnBusy(u)'
          /\ \A o \in Operators : ~PatchBusy(o)'
      BY <1>0, <2>1 DEF OneWriter, Unchanged
    <3>2. turn[t].saw = lang /\ row = lang
      BY <2>1 DEF Written, Unchanged, TurnWritten
    <3>3. lang.active # Unknown
      BY <2>1 DEF Held, LangTypeOK
    <3>4. Settled'
      BY <2>1, <3>2, <3>3 DEF Settled, Unchanged
    <3> QED BY <3>1, <3>4
  <2> QED BY <2>2, <2>3, <2>4
<1> QED BY <1>1, <1>2, <1>3, <1>4

LEMMA PatchesKeep ==
  ASSUME LangTypeOK, LangTypeOK', LangPart,
         NEW o \in Operators, OtherPatches(o),
         \/ PatchRests(o) \/ PatchChanges(o) \/ PatchRow(o)
         \/ PatchPref(o) \/ PatchLooks(o) \/ PatchFinishes(o)
  PROVE  LangPart'
<1>0. /\ lang \in Pair /\ lang' \in Pair /\ row \in Pair /\ row' \in Pair
      /\ \A p \in Operators : p # o => (PatchBusy(p)' <=> PatchBusy(p)) /\ patch'[p] = patch[p]
      /\ \A t \in Turns : TurnBusy(t)' <=> TurnBusy(t)
      /\ turn' = turn
      /\ Busy <=> (\E t \in Turns : TurnBusy(t)) \/ (\E p \in Operators : PatchBusy(p))
      /\ Busy' <=> (\E t \in Turns : TurnBusy(t)') \/ (\E p \in Operators : PatchBusy(p)')
  BY DEF LangTypeOK, OtherPatches, TurnBusy, PatchBusy, Busy
<1>a. \A p \in Operators : patch[p].pc = "write" => PatchBusy(p)
  BY DEF PatchBusy
<1> USE DEF LangPart
\* While this request is the one that writes, nobody else is.
<1>b. ASSUME PatchBusy(o), PatchBusy(o)', Unchanged PROVE OneWriter'
  BY <1>0, <1>b DEF OneWriter, Unchanged
<1>c. ASSUME PatchBusy(o), Unchanged, ~overlapped'
      PROVE  /\ \A p \in Operators : PatchBusy(p)' => p = o
             /\ \A t \in Turns : ~TurnBusy(t)'
  BY <1>0, <1>c DEF OneWriter, Unchanged
<1>d. ASSUME PatchBusy(o), PatchBusy(o)', Unchanged,
             inMap /\ ~overlapped /\ ~unwritten' => PatchWritten(o)'
      PROVE  Written'
  BY <1>0, <1>c, <1>d DEF Written, Unchanged
<1>e. ASSUME PatchBusy(o), PatchBusy(o)', Unchanged, PatchKeeps(o), row' \in {row, Chosen(o)},
             patch'[o].pc = "write" /\ inMap => patch'[o].saw.detected = lang.detected
      PROVE  Held'
  <2>1. Chosen(o)' = Chosen(o) /\ \A p \in Operators : p # o => Chosen(p)' = Chosen(p)
    BY <1>0, <1>e DEF Chosen, PatchKeeps, Unchanged
  <2>2. patch'[o].pc # "read"
    BY <1>e DEF PatchBusy
  <2>3. lang' \in seen' /\ (inMap' => row' \in seen')
    BY <1>e DEF Held, Unchanged
  <2> QED BY <1>0, <1>e, <2>1, <2>2, <2>3 DEF Held, Unchanged, PatchKeeps
<1>1. CASE PatchRests(o)
  <2>1. /\ ~PatchBusy(o) /\ ~PatchBusy(o)' /\ Unchanged /\ NotStored
        /\ patch'[o].pc = "read" => patch'[o].primary \in Languages
    BY <1>1 DEF PatchRests, PatchBusy
  <2>2. Held'
    <3>1. \A p \in Operators : p # o => Chosen(p)' = Chosen(p)
      BY <1>0, <2>1 DEF Chosen, Unchanged
    <3>2. patch'[o].pc # "write"
      BY <2>1 DEF PatchBusy
    <3> QED BY <1>0, <2>1, <3>1, <3>2 DEF Held, Unchanged, NotStored
  <2>3. OneWriter'
    BY <1>0, <2>1 DEF OneWriter, Unchanged
  <2>4. Written'
    BY <1>0, <2>1 DEF Written, Unchanged, NotStored, Settled, TurnWritten, PatchWritten
  <2> QED BY <2>2, <2>3, <2>4
<1>2. CASE PatchChanges(o)
  <2>1. /\ ~PatchBusy(o) /\ PatchBusy(o)' /\ PatchKeeps(o) /\ lang' = Chosen(o)
        /\ patch'[o].pc = "row" /\ patch[o].pc = "read" /\ patch[o].primary \in Languages
        /\ Changes
    BY <1>2 DEF PatchChanges, PatchBusy, Held
  <2>2. lang'.detected = lang.detected /\ lang'.active = patch[o].primary
    BY <2>1 DEF Chosen
  <2>3. Held'
    <3>1. lang' \in seen' /\ (inMap' => row' \in seen')
      BY <2>1 DEF Changes, Held
    <3>2. \A t \in Turns : TurnBusy(t)' => locked' /\ turn'[t].saw \in seen'
      BY <1>0, <2>1 DEF Changes, Held
    <3>3. Chosen(o)' = lang' /\ patch'[o].primary \in Languages
      BY <1>0, <2>1, <2>2 DEF Chosen, PatchKeeps, Pair
    <3>4. ASSUME NEW p \in Operators, p # o
          PROVE  /\ patch'[p].pc = "read" => patch'[p].primary \in Languages
                 /\ PatchBusy(p)' => /\ locked' /\ patch'[p].primary \in Languages
                                     /\ Chosen(p)' \in seen'
                 /\ patch'[p].pc = "write" /\ inMap'
                      => patch'[p].saw.detected = lang'.detected
      <4>1. Chosen(p)' = Chosen(p)
        BY <1>0, <2>2, <3>4 DEF Chosen
      <4> QED BY <1>0, <2>1, <2>2, <3>4, <4>1 DEF Changes, Held
    <3>5. locked' /\ patch'[o].pc # "read" /\ patch'[o].pc # "write"
      BY <2>1 DEF Changes
    <3> QED BY <3>1, <3>2, <3>3, <3>4, <3>5 DEF Held
  <2>4. ~overlapped' => /\ ~Busy /\ \A t \in Turns : ~TurnBusy(t)
                        /\ \A p \in Operators : ~PatchBusy(p)
    BY <1>0, <2>1 DEF Changes
  <2>5. OneWriter'
    BY <1>0, <2>4 DEF OneWriter
  <2>6. PatchWritten(o)'
    BY <2>1, <2>2 DEF PatchWritten, PatchKeeps
  <2>7. Written'
    BY <1>0, <2>1, <2>4, <2>6 DEF Written
  <2> QED BY <2>3, <2>5, <2>7
<1>3. CASE PatchRow(o)
  <2>1. /\ PatchBusy(o) /\ PatchBusy(o)' /\ Unchanged /\ PatchKeeps(o) /\ pref' = pref
        /\ row' \in {row, Chosen(o)} /\ patch'[o].pc = "pref"
        /\ ~unwritten' => ~unwritten /\ row' = Chosen(o)
    BY <1>3 DEF PatchRow, PatchBusy
  <2>2. Held'
    BY <1>e, <2>1
  <2>3. inMap /\ ~overlapped /\ ~unwritten' => PatchWritten(o)'
    <3> SUFFICES ASSUME inMap, ~overlapped, ~unwritten' PROVE PatchWritten(o)'
      OBVIOUS
    <3>1. patch[o].primary = lang.active
      BY <2>1 DEF Written, PatchWritten
    <3>2. row' = lang
      BY <1>0, <2>1, <3>1 DEF Chosen, Pair
    <3> QED BY <2>1, <3>1, <3>2 DEF PatchWritten, Unchanged, PatchKeeps
  <2> QED BY <1>b, <1>d, <2>1, <2>2, <2>3
<1>4. CASE PatchPref(o)
  <2>1. /\ PatchBusy(o) /\ PatchBusy(o)' /\ Unchanged /\ PatchKeeps(o) /\ row' = row
        /\ patch[o].pc # "row" /\ patch'[o].pc # "write"
        /\ patch[o].primary \in Languages /\ (~unwritten' => ~unwritten)
        /\ ~unwritten' /\ aniKnown /\ patch[o].primary # Unknown => pref' = patch[o].primary
    BY <1>4 DEF PatchPref, PatchBusy, Held
  <2>2. Held'
    BY <1>e, <2>1
  <2>3. inMap /\ ~overlapped /\ ~unwritten' => PatchWritten(o)'
    BY <2>1, LanguageAssumption DEF Written, PatchWritten, Unchanged, PatchKeeps
  <2> QED BY <1>b, <1>d, <2>1, <2>2, <2>3
<1>5. CASE PatchLooks(o)
  <2>1. /\ PatchBusy(o) /\ PatchBusy(o)' /\ Unchanged /\ PatchKeeps(o) /\ NotStored
        /\ patch[o].pc = "languages"
        /\ inMap => patch'[o].saw.detected = lang.detected
    BY <1>5 DEF PatchLooks, PatchBusy
  <2>2. Held'
    BY <1>e, <2>1 DEF NotStored
  <2>3. inMap /\ ~overlapped /\ ~unwritten' => PatchWritten(o)'
    BY <2>1 DEF Written, PatchWritten, Unchanged, PatchKeeps, NotStored
  <2> QED BY <1>b, <1>d, <2>1, <2>2, <2>3
<1>6. CASE PatchFinishes(o)
  <2>1. /\ PatchBusy(o) /\ ~PatchBusy(o)' /\ Unchanged /\ pref' = pref
        /\ patch[o].pc = "write" /\ patch'[o].pc = "done"
        /\ row' \in {row, [detected |-> patch[o].saw.detected, active |-> patch[o].primary]}
        /\ ~unwritten' => ~unwritten
    BY <1>6 DEF PatchFinishes, PatchBusy
  <2>2. inMap => row' \in {row, Chosen(o)}
    BY <2>1 DEF Held, Chosen
  <2>3. Held'
    <3>1. \A p \in Operators : p # o => Chosen(p)' = Chosen(p)
      BY <1>0, <2>1 DEF Chosen, Unchanged
    <3>2. lang' \in seen' /\ (inMap' => row' \in seen')
      BY <2>1, <2>2 DEF Held, Unchanged
    <3> QED BY <1>0, <2>1, <3>1, <3>2 DEF Held, Unchanged
  <2>4. OneWriter'
    BY <1>0, <2>1 DEF OneWriter, Unchanged
  <2>5. Written'
    <3> SUFFICES ASSUME inMap', ~overlapped', ~unwritten' PROVE
          /\ Settled'
          /\ \A t \in Turns : ~TurnBusy(t)'
          /\ \A p \in Operators : ~PatchBusy(p)'
      BY DEF Written
    <3>1. PatchWritten(o) /\ inMap
      BY <2>1 DEF Written, Unchanged
    <3>2. row = lang /\ Chosen(o) = lang /\ (aniKnown => pref = lang.active)
      BY <1>0, <2>1, <3>1 DEF PatchWritten, Chosen, Pair
    <3>3. Settled'
      BY <2>1, <2>2, <3>1, <3>2 DEF Settled, Unchanged
    <3>4. /\ \A t \in Turns : ~TurnBusy(t)'
          /\ \A p \in Operators : ~PatchBusy(p)'
      BY <1>0, <1>c, <2>1
    <3> QED BY <3>3, <3>4
  <2> QED BY <2>3, <2>4, <2>5
<1> QED BY <1>1, <1>2, <1>3, <1>4, <1>5, <1>6

LEMMA LangSteps ==
  ASSUME LangInv, [LangNext]_langVars
  PROVE  LangInv'
<1>0. LangTypeOK /\ LangPart /\ Held
  BY DEF LangInv, LangPart
<1>1. ASSUME NEW t \in Turns, TurnStep(t) PROVE LangInv'
  BY <1>0, <1>1, TurnSteps, TurnKeeps DEF LangInv, LangPart
<1>2. ASSUME NEW o \in Operators, PatchStep(o) PROVE LangInv'
  BY <1>0, <1>2, PatchSteps, PatchesKeep DEF LangInv, LangPart
<1>3. CASE Unregister
  <2>1. /\ inMap' = FALSE
        /\ UNCHANGED <<lang, locked, seen, overlapped, row, pref, unwritten, aniKnown, turn, patch>>
    BY <1>3 DEF Unregister, heldVars, rowVars
  <2>2. LangTypeOK'
    BY <1>0, <2>1 DEF LangTypeOK
  <2>3. Held' /\ OneWriter' /\ Written'
    BY <1>0, <2>1 DEF LangPart, Held, OneWriter, Written, TurnBusy, PatchBusy, Chosen
  <2> QED BY <2>2, <2>3 DEF LangInv
<1>4. CASE UNCHANGED langVars
  <2>1. UNCHANGED <<lang, locked, row, pref, aniKnown, inMap, turn, patch, seen, overlapped,
                    unwritten>>
    BY <1>4 DEF langVars
  <2>2. LangTypeOK'
    BY <1>0, <2>1 DEF LangTypeOK
  <2>3. Held' /\ OneWriter' /\ Written'
    BY <1>0, <2>1 DEF LangPart, Held, OneWriter, Written, TurnBusy, PatchBusy, Chosen,
                      Busy, Settled, TurnWritten, PatchWritten
  <2> QED BY <2>2, <2>3 DEF LangInv
<1> QED BY <1>1, <1>2, <1>3, <1>4 DEF LangNext

LEMMA LangAlways == LangSpec => []LangInv
<1>1. LangInv /\ [LangNext]_langVars => LangInv'
  BY LangSteps
<1> QED BY LangInitially, <1>1, PTL DEF LangSpec

\* Every variable has its type, and the actor has an active language exactly
\* when it is locked, so that no later final can flip it.
THEOREM LanguageTypes == LangSpec => []LangTypeOK
<1>1. LangInv => LangTypeOK
  BY DEF LangInv
<1> QED BY LangAlways, <1>1, PTL

\* While the call is up the row shows languages the actor has held, and those
\* it holds once changes that did not overlap have been written.
THEOREM LanguageRowAgrees ==
  LangSpec => []LanguageAgrees
<1>1. LangInv => LanguageAgrees
  <2>1. LangInv => (BeingWritten <=> Busy)
    BY DEF LangInv, BeingWritten, BusyPC, Busy, TurnBusy, PatchBusy, LangTypeOK,
           TurnPC, PatchPC
  <2> QED BY <2>1 DEF LangInv, Held, Written, Settled, LanguageAgrees
<1> QED BY LangAlways, <1>1, PTL
=============================================================================
