-------------------------- MODULE SessionLifecycle --------------------------
(***************************************************************************)
(* The life of one session: control/server.go, disposition.go and edge.go  *)
(* with the actor manager (runtime/session/actor.go) and the live talk and *)
(* recorder of control/runtime_adapter.go and callops.go.                  *)
(*                                                                         *)
(* POST /v1/sessions writes the row, starts the actor and writes Running.  *)
(* A leg (websocket) binds, attaches and starts the live talk; when it     *)
(* goes, its watcher stops the actor and cancels the session.  POST /stop  *)
(* and the end of the talk stop everything and write a terminal state.     *)
(* Whoever writes one also does the terminal work.  Each process is a      *)
(* sequence of steps on the store, the manager or the runtime's maps; no   *)
(* two of them share a lock for longer than one step.                      *)
(***************************************************************************)
EXTENDS Integers, FiniteSets

CONSTANTS Conns,   \* legs that connect with the session's token
          Stops,   \* POST /stop requests
          Talks,   \* turns or failures that end the talk
          Creator, \* POST /v1/sessions
          NoConn   \* no leg

Ends == Stops \cup Talks
Procs == Conns \cup Ends \cup {Creator}

ASSUME LifeAssumption ==
  /\ NoConn \notin Conns
  /\ Conns \cap Ends = {} /\ Stops \cap Talks = {} /\ Creator \notin Conns \cup Ends

VARIABLES state,      \* session.state in the store
          disp,       \* session_disposition.final
          queued,     \* a postcall job has been queued
          registered, \* Manager.actors has the session
          sinks,      \* legs attached to the actor
          bound,      \* Handler.bound: the leg that holds the session
          closed,     \* legs that have closed
          live,       \* SessionRuntime.lives: the leg that started the talk
          rec,        \* SessionRuntime.recorders: the leg that started it
          failing,    \* SessionRuntime.failScenario is set
          pc,         \* where each process is
          term,       \* the terminal state it is to write
          dead,       \* requests whose client has gone
          endedBy,    \* history: what took the actor out of the manager
          released,   \* history: some ending has stopped the live talk
          overlap     \* history: an attach went on after that

storeVars == <<state, disp, queued>>
actorVars == <<registered, sinks, closed, endedBy>>
talkVars == <<live, rec, failing, released, overlap>>
reqVars == <<bound, term, dead>>
vars == <<storeVars, actorVars, talkVars, reqVars, pc>>

Terminal == {"Completed", "Cancelled", "Failed"}
States == {"Created", "Running", "Attached", "Draining"} \cup Terminal
Ending == {"read", "drain", "live", "rec", "mgr", "final", "work", "fill", "enqueue"}
Starting == {"attach", "sink", "attached", "get", "register", "record"}
PCs == {"idle", "start", "running", "bind", "up", "gone",
        "tool", "fail", "prompt", "failed", "done"} \cup Starting \cup Ending

Init ==
  /\ state = "Created" /\ disp = "none" /\ queued = FALSE
  /\ registered = FALSE /\ sinks = {} /\ closed = {} /\ endedBy = "none"
  /\ bound = NoConn /\ live = NoConn /\ rec = NoConn /\ failing = FALSE
  /\ pc = [p \in Procs |-> IF p = Creator THEN "start" ELSE "idle"]
  /\ term = [p \in Procs |-> "Completed"]
  /\ dead = {} /\ released = FALSE /\ overlap = FALSE

Goto(p, to) == pc' = [pc EXCEPT ![p] = to]

\* A leg's handler that ended the talk returns to its leg; others are done.
Back(p) == Goto(p, IF p \in Conns /\ term[p] = "Completed" THEN "up" ELSE "done")

-----------------------------------------------------------------------------
\* handleCreateSession, from the row on.
CreateStart ==
  /\ pc[Creator] = "start"
  /\ \/ /\ registered' = TRUE
        /\ Goto(Creator, "running")
        /\ UNCHANGED state
     \/ /\ state' \in {state, "Failed"}   \* not written when the client has gone
        /\ Goto(Creator, "done")
        /\ UNCHANGED registered
  /\ UNCHANGED <<disp, queued, sinks, closed, endedBy, talkVars, reqVars>>

CreateRunning ==
  /\ pc[Creator] = "running"
  /\ state' \in {state, "Running"}
  /\ Goto(Creator, "done")
  /\ UNCHANGED <<disp, queued, actorVars, talkVars, reqVars>>

-----------------------------------------------------------------------------
\* Handler.ServeHTTP: one leg at a time holds the session.
Connect(c) ==
  /\ pc[c] = "idle" /\ pc[Creator] = "done" /\ bound = NoConn
  /\ bound' = c
  /\ Goto(c, "bind")
  /\ UNCHANGED <<storeVars, actorVars, talkVars, term, dead>>

\* The leg is over: it lets go of the session, and then onGone runs.
Unbind(c) ==
  /\ bound' = NoConn
  /\ term' = [term EXCEPT ![c] = "Cancelled"]
  /\ Goto(c, "gone")

\* BindEdge finds the actor, or the request is refused; the upgrade may fail.
BindEdge(c) ==
  /\ pc[c] = "bind"
  /\ \/ registered /\ Goto(c, "attach") /\ UNCHANGED <<bound, term>>
     \/ registered /\ Unbind(c)
     \/ ~registered /\ bound' = NoConn /\ Goto(c, "done") /\ UNCHANGED term
  /\ UNCHANGED <<storeVars, actorVars, talkVars, dead>>

\* AttachConn: find the actor, add the leg, write Attached, start the talk.
AttachConn(c) ==
  /\ pc[c] = "attach"
  /\ \/ registered /\ Goto(c, "sink") /\ UNCHANGED <<closed, bound, term>>
     \/ ~registered /\ closed' = closed \cup {c} /\ Unbind(c)
  /\ UNCHANGED <<storeVars, registered, sinks, endedBy, talkVars, dead>>

AttachSink(c) ==
  /\ pc[c] = "sink"
  /\ sinks' = sinks \cup {c}
  /\ Goto(c, "attached")
  /\ UNCHANGED <<storeVars, registered, closed, endedBy, talkVars, reqVars>>

SetAttached(c) ==
  /\ pc[c] = "attached"
  /\ state' = "Attached"
  /\ Goto(c, "get")
  /\ UNCHANGED <<disp, queued, actorVars, talkVars, reqVars>>

\* StartLiveTalk looks for the actor and for a talk that is already live, and
\* opens the listen stream, which may fail.
StartLiveTalk(c) ==
  /\ pc[c] = "get"
  /\ \/ registered /\ live = NoConn /\ Goto(c, "register")
     \/ registered /\ live # NoConn /\ Goto(c, "up")
     \/ (registered => live = NoConn) /\ Goto(c, "fail")
  /\ UNCHANGED <<storeVars, actorVars, talkVars, reqVars>>

RegisterLive(c) ==
  /\ pc[c] = "register"
  /\ \/ live # NoConn /\ Goto(c, "up") /\ UNCHANGED <<live, overlap>>
     \/ live = NoConn /\ Goto(c, "record") /\ live' = c /\ overlap' = (overlap \/ released)
  /\ UNCHANGED <<storeVars, actorVars, rec, failing, released, reqVars>>

\* startRecorder: keeps one that runs; recording may be off or fail to start.
StartRecorder(c) ==
  /\ pc[c] = "record"
  /\ rec' \in IF rec = NoConn THEN {c, NoConn} ELSE {rec}
  /\ overlap' = (overlap \/ released)
  /\ Goto(c, "up")
  /\ UNCHANGED <<storeVars, actorVars, live, failing, released, reqVars>>

\* The peer leaves, or writing to it fails.
PeerLeaves(c) ==
  /\ pc[c] \notin {"idle", "bind", "gone", "done"} /\ c \notin closed
  /\ closed' = closed \cup {c}
  /\ UNCHANGED <<storeVars, registered, sinks, endedBy, talkVars, reqVars, pc>>

\* The watcher that ServeHTTP leaves behind when AttachConn has returned.
LegGone(c) ==
  /\ pc[c] = "up" /\ c \in closed
  /\ Unbind(c)
  /\ UNCHANGED <<storeVars, actorVars, talkVars, dead>>

-----------------------------------------------------------------------------
\* Manager.Stop: the caller that removes the actor drains it, which closes the
\* legs attached to it.
MgrStop(by) ==
  /\ registered' = FALSE
  /\ IF registered
     THEN closed' = closed \cup sinks /\ endedBy' = by
     ELSE UNCHANGED <<closed, endedBy>>
  /\ UNCHANGED sinks

\* onGone: stop the actor, then write Cancelled and do the terminal work.
GoneStop(c) ==
  /\ pc[c] = "gone"
  /\ MgrStop("gone")
  /\ Goto(c, "final")
  /\ UNCHANGED <<storeVars, talkVars, reqVars>>

\* POST /stop arrives with its reason; a turn reaches a Tool or End, or fails.
StopRequest(s) ==
  /\ s \in Stops /\ pc[s] = "idle"
  /\ \E t \in {"Completed", "Cancelled"} : term' = [term EXCEPT ![s] = t]
  /\ Goto(s, "read")
  /\ UNCHANGED <<storeVars, actorVars, talkVars, bound, dead>>

TalkBegins(t) ==
  /\ t \in Talks /\ pc[t] = "idle" /\ (registered \/ live # NoConn)
  /\ \E to \in {"tool", "fail"} : Goto(t, to)
  /\ UNCHANGED <<storeVars, actorVars, talkVars, reqVars>>

\* FailCall: the first failure wins, and only while there is an actor.
FailCall(p) ==
  /\ pc[p] = "fail"
  /\ failing' = TRUE
  /\ IF failing THEN Back(p) ELSE Goto(p, "prompt")
  /\ UNCHANGED <<storeVars, actorVars, live, rec, released, overlap, reqVars>>

PlayFallback(p) ==
  /\ pc[p] = "prompt"
  /\ IF registered THEN Goto(p, "failed") ELSE Back(p)
  /\ UNCHANGED <<storeVars, actorVars, talkVars, reqVars>>

\* recordLiveDisposition, or OnGraphEnd, whose End may name no disposition.
RecordDisposition(p) ==
  /\ pc[p] \in {"tool", "failed"}
  /\ disp' \in {pc[p]} \cup {d \in {disp} : pc[p] = "tool"}
  /\ Goto(p, "read")
  /\ UNCHANGED <<state, queued, actorVars, talkVars, reqVars>>

\* handleStopSession and EndSessionAfterTalk.
ReadState(p) ==
  /\ pc[p] = "read"
  /\ IF p \in dead \/ state \in Terminal THEN Back(p) ELSE Goto(p, "drain")
  /\ UNCHANGED <<storeVars, actorVars, talkVars, reqVars>>

SetDraining(p) ==
  /\ pc[p] = "drain"
  /\ \/ p \notin dead /\ state' = "Draining" /\ Goto(p, "live")
     \/ p \in dead /\ Back(p) /\ UNCHANGED state
  /\ UNCHANGED <<disp, queued, actorVars, talkVars, reqVars>>

\* SessionRuntime.StopSession: the live talk, the recorder, the actor.
StopLiveTalk(p) ==
  /\ pc[p] = "live"
  /\ live' = NoConn /\ released' = TRUE
  /\ Goto(p, "rec")
  /\ UNCHANGED <<storeVars, actorVars, rec, failing, overlap, reqVars>>

\* A seeded slip: the recorder is only closed for a call that failed.
StopFailedRecorder(p) ==
  /\ pc[p] = "rec"
  /\ rec' = (IF failing THEN NoConn ELSE rec) /\ failing' = FALSE
  /\ Goto(p, "mgr")
  /\ UNCHANGED <<storeVars, actorVars, live, released, overlap, reqVars>>

StopRecorder(p) ==
  /\ pc[p] = "rec"
  /\ rec' = NoConn /\ failing' = FALSE
  /\ Goto(p, "mgr")
  /\ UNCHANGED <<storeVars, actorVars, live, released, overlap, reqVars>>

EndStop(p) ==
  /\ pc[p] = "mgr"
  /\ MgrStop("end")
  /\ Goto(p, "final")
  /\ UNCHANGED <<storeVars, talkVars, reqVars>>

\* A seeded slip: the terminal state is only written over Draining.
SetTerminalFromDraining(p) ==
  /\ pc[p] = "final"
  /\ \/ p \notin dead /\ Goto(p, "work")
        /\ state' = IF state = "Draining" THEN term[p] ELSE state
     \/ p \in dead /\ Back(p) /\ UNCHANGED state
  /\ UNCHANGED <<disp, queued, actorVars, talkVars, reqVars>>

SetTerminal(p) ==
  /\ pc[p] = "final"
  /\ \/ p \notin dead /\ state' = term[p] /\ Goto(p, "work")
     \/ p \in dead /\ Back(p) /\ UNCHANGED state
  /\ UNCHANGED <<disp, queued, actorVars, talkVars, reqVars>>

\* onSessionTerminal: fill in a missing disposition, queue the postcall job.
Empty == disp = "none"

\* A seeded slip: a session that has its disposition needs no terminal work at all.
NeedsFinalOrNothing(p) ==
  /\ pc[p] = "work"
  /\ IF p \in dead \/ ~Empty THEN Back(p) ELSE Goto(p, "fill")
  /\ UNCHANGED <<storeVars, actorVars, talkVars, reqVars>>

NeedsFinal(p) ==
  /\ pc[p] = "work"
  /\ IF p \in dead THEN Back(p) ELSE Goto(p, IF Empty THEN "fill" ELSE "enqueue")
  /\ UNCHANGED <<storeVars, actorVars, talkVars, reqVars>>

FillIn(p) ==
  /\ pc[p] = "fill"
  /\ disp' = IF p \in dead THEN disp
             ELSE IF term[p] = "Cancelled" THEN "abandoned" ELSE "out_of_scope"
  /\ Goto(p, "enqueue")
  /\ UNCHANGED <<state, queued, actorVars, talkVars, reqVars>>

EnqueuePostcall(p) ==
  /\ pc[p] = "enqueue"
  /\ queued' = (queued \/ p \notin dead)
  /\ Back(p)
  /\ UNCHANGED <<state, disp, actorVars, talkVars, reqVars>>

ClientLeaves(s) ==
  /\ s \in Stops \ dead /\ pc[s] \in Ending
  /\ dead' = dead \cup {s}
  /\ UNCHANGED <<storeVars, actorVars, talkVars, bound, term, pc>>

-----------------------------------------------------------------------------
CreateStep == CreateStart \/ CreateRunning
Attach(c) == \/ BindEdge(c) \/ AttachConn(c) \/ AttachSink(c) \/ SetAttached(c)
             \/ StartLiveTalk(c) \/ RegisterLive(c) \/ StartRecorder(c)
LegStep(c) == Attach(c) \/ LegGone(c) \/ GoneStop(c)
EndStep(p) == \/ FailCall(p) \/ PlayFallback(p) \/ RecordDisposition(p)
              \/ ReadState(p) \/ SetDraining(p) \/ StopLiveTalk(p) \/ StopRecorder(p)
              \/ EndStop(p) \/ SetTerminal(p) \/ NeedsFinal(p) \/ FillIn(p)
              \/ EnqueuePostcall(p)

Next ==
  \/ CreateStep
  \/ \E c \in Conns : Connect(c) \/ LegStep(c) \/ PeerLeaves(c)
  \/ \E s \in Stops : StopRequest(s) \/ ClientLeaves(s)
  \/ \E t \in Talks : TalkBegins(t)
  \/ \E p \in Conns \cup Ends : EndStep(p)

Spec == Init /\ [][Next]_vars

\* Handlers that run go on, and callers hang up in the end.
Fairness ==
  /\ WF_vars(CreateStep)
  /\ \A c \in Conns : WF_vars(LegStep(c)) /\ WF_vars(PeerLeaves(c))
  /\ \A p \in Conns \cup Ends : WF_vars(EndStep(p))

FairSpec == Spec /\ Fairness

-----------------------------------------------------------------------------
\* Every variable ranges over the values the code can give it.
TypeOK ==
  /\ state \in States
  /\ disp \in {"none", "tool", "failed", "abandoned", "out_of_scope"}
  /\ queued \in BOOLEAN /\ registered \in BOOLEAN /\ failing \in BOOLEAN
  /\ released \in BOOLEAN /\ overlap \in BOOLEAN
  /\ endedBy \in {"none", "gone", "end"}
  /\ sinks \subseteq Conns /\ closed \subseteq Conns /\ dead \subseteq Stops
  /\ {bound, live, rec} \subseteq Conns \cup {NoConn}
  /\ pc \in [Procs -> PCs] /\ term \in [Procs -> {"Completed", "Cancelled"}]

\* StopSession (a stop, or the end of the talk) leaves neither a live talk nor
\* a recorder behind, whatever else runs meanwhile: unless a leg was still
\* starting them after the live talk had been looked for.
StopReleases == endedBy = "end" /\ ~overlap => live = NoConn /\ rec = NoConn

\* A stop that came before POST /v1/sessions had written Running; a stop whose
\* client has gone, so that its writes are refused.
Overtaken == pc[Creator] # "done" /\ \E p \in Ends : pc[p] # "idle"
Excused == Overtaken \/ dead # {}

\* However attaches, stops, ends of talk and disconnects interleave, a session
\* whose actor has been stopped ends up terminal for good, though each of them
\* writes its own state without a look at the one it replaces.
EndsForGood == <>Excused \/ [](endedBy # "none" => <>[](state \in Terminal))

\* ... and it ends up with a disposition and a postcall job, although whoever
\* comes second returns early when the state is terminal already.
EndIsEvidenced == <>Excused \/ [](endedBy # "none" => <>(disp # "none" /\ queued))

\* docs/phases/P2.5_recording_metadata.md:59, "WebSocket teardown must not skip
\* stop": when the teardown of a leg is over its recorder has been stopped.
TeardownStopsRecording == \A c \in Conns : pc[c] = "done" => rec # c

=============================================================================
