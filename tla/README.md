# aiorchestrator in TLA+

TLA+ models of the Coraltele AI Orchestrator, the Go service that holds a
telephone conversation: FreeSWITCH streams a call's audio to it over a
websocket, it listens (speech to text), walks a conversation graph or asks a
language model, speaks (text to speech) and at the end transfers or hangs up the
call. The models are translated from `src/internal/...`; where a document
(`docs/`, a comment) and the code differ, the model follows the code; section 3
lists the differences met.

To check: `tlc -config MCx.cfg MCx` for a run, `tlapm XProofs.tla` for the
proofs. `PROJECT.json` lists the runs, the code each definition stands for, the
hazards each property is aimed at, and for each property a mutation of the model
(a plausible slip in the code) that makes it fail.

## 1. The system

One process, many sessions; a session is one conversation.

| component | code (`src/internal/`) | state | operations | talks to |
|---|---|---|---|---|
| Edge connection | `edge/modaudiostream/conn.go` | downlink queue, flush generation, pending marks, closed, failure streak, action once | WritePCM, write loop, Flush, WaitMark, Hangup, Transfer, signalClose | FreeSWITCH websocket; called by Talk, FailCall, tools |
| Media gate | `control/media_phase.go` | phase, welcome flag, first uplink, queued finals | attach, first uplink, settle tick, begin/complete/revert welcome, queue/take finals, draining | called by answer, finals consumer, stop |
| Turn machine | `runtime/composer/composer.go`, `control/runtime_adapter.go` | Talk state, current stream, barge flags, welcome flags, failed-once | AnswerCall, OnListenFinal, InjectFinal, OnPCM, Interrupt, speak | cursor, edge, gate, engines |
| Call operations | `control/callops.go` | toolDone, failScenario, recorders | execGraphTool, Transfer, HangupTool, FailCall, start/stopRecorder | edge verbs, store (disposition), session end |
| Graph cursor | `runtime/graph/`, `flow/` | node, armed, retries, language block, last edge | Bootstrap, HandleUtterance; publish validation | Talk |
| Session lifecycle | `control/server.go`, `disposition.go`, `edge.go` | stored session state, disposition, postcall job | create, attach, stop, feeder_gone, talk end, terminal work | manager, store, runtime |
| Session actor | `runtime/session/actor.go` | feeders, sinks, tap, drain once, terminal | Start, Drain, Stop, Wait, attach | edge, bus |
| Uplink | `actor.go` feeder pump, `control/runtime_adapter.go` tap and listen pump, `gateway/sarvamstt` stream, `runtime/bus` | bounded channels, the tap, the stream | read, pump, tap, write, final, end | listen engine, recorder, gate |
| Language lock | `runtime/session/language.go` | detected, active, locked | first confident final, operator switch | turns, store |
| Fallback prompts | `fallback/fallback.go`, `control/fallback_api.go` | files, decode cache | put, delete, list, resolve | FailCall |
| Recorder, reaper | `runtime/record/`, `store/*recording*` | leg buffers, file, meta | write, mux, close; sweep of orphans | files, store |
| Jobs | `control/postcall.go`, `playback.go`, `store/store_[de].go` | job rows, leases | open, lease, finish, fail, cancel | store, think engine |
| Flows, profiles | `store/store_flow.go`, `control/flows.go`, `profile/` | versions, bindings | draft, publish, bind | session creation |
| Gateways, admission | `router/registry.go`, `profile/validate.go`, `control/tenant_engines.go` | registrations, the tenant's engines | validate, select, gate, put, resolve | session creation |
| Tokens, audio, UI, settings | `edge/token`, `audio/`, `control/ui.go` ... | little or none | one request, one answer | |

### Who runs when

Per session the process runs, side by side: the websocket reader (uplink
frames, then OnPCM and the recorder tap), the websocket write loop, the
listen-engine reader, the finals consumer, the partials consumer, the settle
ticker, the silence watchdog, the recorder's mux, and whatever HTTP requests
arrive: `/answer`, `/inject-text`, `/stop`, `/transfer`, language switches.
State is guarded by several small mutexes held for one section each; almost
every handler reads in one section and acts in another. That is where the
difficulty of this code lies:

* **Turns of two goroutines at once.** `Talk` has no lock around a turn: the
  answer call that drains queued finals, the finals consumer and `/inject-text`
  can each be inside one, with one shared `state`, one `speakStream` and one
  cursor.
* **Barge-in** takes the floor in one section and cancels "the current stream"
  in another; three different goroutines decide to barge, each on different
  evidence.
* **The welcome.** Finals that arrive before the welcome is over are queued; the
  decision to queue and the queueing are separate sections.
* **The end.** A Tool, an End node, a pipeline failure, a leg that goes and a
  `/stop` all end a session, each its own way and possibly together; the leg
  takes one verb only, the disposition is read, changed and written back.
* **The downlink.** Playout is known only by counting frames; barge-in, queue
  overflow, write failure and close all change the count, under another lock
  than the queue's.
* **A graph** written by a tenant decides the walk, under a mutex; what the
  publish check guarantees must be enough for it to return and to arm.
* **Restarts.** Jobs are leased rows; recordings have to be found after a crash.
* **Hand-overs that drop.** Audio goes reader, feeder, tap, queue, recogniser,
  through channels that drop when full, between goroutines that each end for a
  reason of their own and take parts of the others with them.
* **Two statements.** The language row, the disposition, the postcall job and the
  prompt cache are read and written apart, without a transaction.

### What makes each part correct

* Edge: after a barge-in nothing that was flushed keeps playing; a playout wait
  returns when, and not before, everything queued has been played; one verb per
  leg; a leg that closes lets everybody go.
* Gate: one welcome, undisturbed; no caller speech lost or doubled; a gate that
  closes stays closed; a failed welcome can be tried again.
* Turn machine: the state others decide on tells the truth; an armed Tool is not
  disturbed and is carried out; the disposition says what happened; a call that
  is closing is closed.
* Cursor: repair ends after the configured number of reprompts; a turn in which
  the caller picks a language arms no Tool; one Tool per session; published
  documents can be walked.
* Lifecycle: terminal states are final, terminal work is done once, nothing of a
  stopped session stays behind.
* Uplink: every frame is heard, recorded or counted as dropped, in order; a stop
  ends every goroutine. Language: actor, row and preference agree in the end.
* Recorder: a finished file has every frame that was accepted, its header tells
  the truth, and a recording that nobody finishes is found. Jobs: one open job per
  session, no result lost, no job stuck. Flows: one published version, never
  changed under a running session. Prompts: what is played was uploaded, whole,
  and is the tenant's own as long as the tenant has one.

## 2. The modules

Each component has a module, a module `MC...` with the small instance for TLC and
its `.cfg`; those proved about have a module `...Proofs` too, three of which serve
a second module as well: SessionLifecycleProofs LanguageLock, TurnMachineProofs
FallbackStore, FlowCursorProofs ListenPath. The names of these three are distinct
for that (`LangInit`, `PromptNext`, `UplinkInv`). Four modules are abstract
specifications: VersionLog, and CallLeg, FinalsFloor and GraphWalk, which say what
TurnMachine and the modules around it expect of one another.

### EdgeConn

One leg's downlink. An action is one critical section of `conn.go`, so every
interleaving of `mu`, `markMu` and `writeMu` sections is explored.

* `WriteEnqueue`/`WriteAddMarks` are `WritePCM`, `FlushOnePop`, the
  `WriteAudio...` actions and `FlushOneMarkDone` the write loop; `FlushDrop` and
  its followers are `Flush`; `WaitStart`, `InnerCheck`, `WaitReturn`,
  `WaitExpire` are `WaitMark` with the goroutine it spawns; `ActRequest` ... are `Hangup`/`Transfer` through `sendAction`; the leg
  closes on `PeerGone` or `FailuresClose`, and `FinishClose` is the part of
  `signalClose` that drops the marks.
* A frame is the flush generation it was queued in: nothing else about a frame
  matters to the properties. `peerGen`, `stale`, `verbsSent`, `frames` are
  history. A failed websocket write is a choice; the shared failure streak is
  kept because any writer that reaches it closes the leg.
* Not in it: the uplink and the codec (`onPCM`, JSON and base64).

### MediaGate

The gate with the goroutines that pass it: attach, first uplink, settle ticker,
finals consumer, any number of `/answer` calls, stop. One action is one section
of `sessionMedia` (or of the Talk's welcome flag). Finals are numbers in the
order they were recognised; `delivered` is the order in which their turns began.
They come through the channel the recogniser's reader fills (`EmitFinal`,
sarvamstt/listen.go): it holds `FinalsCap`, and what finds it full is gone
(`dropped`). `late` are finals that were queued when the welcome was over already.
A welcome fails before anything of it is done (`WelcomeFails`) or, when a Tool the
entry walk has armed cannot be carried out, after the Talk has taken it for
completed (`WelcomeToolFails`); both give the gate back. The turn itself is one
step here; `TurnMachine` opens it up.

### FlowCursor

`runtime/graph/cursor.go` over documents accepted by `flow.Validate` (which is
`Validates`). A call holds the cursor's mutex from beginning to end, so calls do
not interleave, but `advanceSilentLocked` is one action per visited node:
whether it ends is one of the questions. `Docs` is a constant; Init picks any of
them that validates. What matching picks for an utterance is a choice: an edge,
no match, or unclear. Texts and locales are left out; a prompt reference
resolves or it does not.

### TurnMachine

The Talk of one live session on a graph, with its drivers of turns (`Answer`,
`Consumer`, `Injectors`), the goroutines that only barge in (`Vad`, partials),
and `FailCall`. `drv[d]` is where driver d is in its turn: look at the state
(`deliverListenFinal`), start, think, open a stream, stream, settle, Tool verb,
record, end. `barge[g]` is a decision taken and not yet carried out, which is
how stale decisions appear. The leg is reduced to up/gone and the verb it has
taken (EdgeConn has the rest), the cursor to where it stands (FlowCursor; a walk
that fails half-way leaves it short of a node), the gate to whether finals get
through (MediaGate). They get through once the welcome is over, and to the
consumer on a stopped session as well, since `shouldQueueFinal` queues nothing in
Draining (`LetsThrough`). Disposition writes are the actions `Record` and
`FailRecord`.

### CallLeg, FinalsFloor and GraphWalk

What lies between TurnMachine and the three modules above it, as small machines
of their own: a leg goes once and takes one verb; the turn of a final begins when
the welcome is over, with at most one in the consumer's goroutine and one in the
answer's; a cursor moves between "short of a node", "listens" and its two ends,
and arms once. Both sides of each seam are shown to implement it: EdgeConn,
MediaGate and FlowCursor as the one that provides it, TurnMachine as the one that
relies on it (`Leg`, `Floor`, `Walk` at the end of each module). That ties what
each side does to the same machine. It is not a joint state space: what the small
machine does not show is not compared. Where they are wider than one side:

* a session may be `stopped` in TurnMachine because its leg has gone, when the
  gate is not drained; the consumer then lets finals through that the gate would
  queue, so TurnMachine has more behaviours there than the code;
* TurnMachine has one answer that delivers; in MediaGate several may be at their
  rests at once, which the floor sees as one;
* within a call of the cursor that has taken the caller's choice, the walk stands
  where it listened; it moves when the call returns or arms.

### SessionLifecycle

One session from its create to its terminal work. `pc[p]` is where a request or
goroutine is: `Creator` is `POST /v1/sessions`, a leg in `Conns` is the websocket
handler and then the watcher it leaves behind, `Stops` are `POST /stop`
requests, `Talks` what ends the talk from inside (a Tool, an End node, a
failure). An action is one statement on the store, one section of the manager or
of the runtime's maps, or one of the handler's, so `AttachConn`, `StartLiveTalk`,
`startRecorder`, `StopSession`, `onGone` and the terminal work are several steps
each, that interleave. `MgrStop` takes the actor out of the manager and closes
its legs in one step: a leg that attaches between the two is closed either way,
as one that attached before. A request whose client has gone (`dead`) has its
statements refused; other failing statements are left out, and so is what a
session did between its attach and its end (TurnMachine has that).
`released`, `overlap` and `endedBy` are history.

SessionLifecycle has stand-ins for its neighbours too (the leg, the gate, the
talk), each a flag or a step. These are argued in its comments; no run checks
them.

### ListenPath

The uplink of one call: the websocket's reader, the actor's feeder pump and its
PCM tap, the listen pump, the recogniser's stream, the consumer of finals, the
settle watch, the answer to the create request (which ends the actor's context)
and StopSession. Every hand-over is a bounded channel that drops when it is full,
and every party ends for a reason of its own. `StartLiveTalk` is the six steps it
takes (`start`): it looks the actor up, attaches, opens the stream, which is a
dial, registers the live talk and starts the goroutines; a stop may come between
any two. There is one stop, which looks for the live talk once; a second would
find what the first has missed. A frame is its sequence number;
`heard` is the history of what became of each. The gate has only the phases the
uplink moves it through (MediaGate has the rest), and a turn is one step of the
consumer (TurnMachine).

### LanguageLock

The language of one call as the actor holds it, as the session row shows it and
as the caller's preference remembers it; turns lock and switch it, an operator's
PATCH switches it, a stop takes the actor away. The actor changes under its
mutex, the row and the preference are written after it, a statement each, from
what the changer saw. `overlapped` and `unwritten` are history.

### Recorder

One recording from `startRecorder` to its last byte: two writers, the mux
goroutine, `Close` with the file taken over from the mux, the reaper, the
retention sweep, and crashes of the process. The done check of a write and its
append are two steps, and so are taking from the buffers, writing and patching
the header. A frame is its number in the order it was offered; silence is
counted only. A write that fails may leave a part of a frame in the file (`torn`),
which no count of the recorder has. `drained`, `accepted`, `atClose` and
`statLive` are history.

### PostcallJobs and PlaybackJob

PostcallJobs is the queue of postcall work of one session: transitions that
enqueue, workers that lease, read, think and write back, and those who record a
final of their own meanwhile, a statement of the store at a time; workers may die
and statements be refused (`FaultBudget`), which some of the code takes for an
answer: `GetRefused`, `PutRefused`, `WriterRefused`. PlaybackJob EXTENDS it: a playback job
leases a file, starts an actor, hears the file out over the actor's bus and
enqueues postcall work as one of its `Enders`.

### VersionLog, Admission and Registry

VersionLog is the abstract specification: per key an append-only list of valid
documents, and pins, each of which names an entry that exists. Registry is the
code: publish transactions statement by statement (a row lock for flows,
MAX + 1 and the primary key for profiles), lost clients, drafts, the tenant's
engines, answer pins, and the creation of a session from the versions it resolves
to the capability gate. `Abstract` is the refinement mapping: `log` is the
committed rows, and for the tenant's key the bindings its row has held.
Admission has the pure checks Registry asks: `profile.Validate`, the check of a
tenant's engines, `router.Select` and the gate. Health is any set of gateways at
the moment of asking. One tenant; `resolveTenantID` only picks it.

### FallbackStore

The prompts a failing call plays: upload as create, two writes, rename, and the
drop of the cache entry; deletion; and `Resolve`, which walks from the tenant's
own prompt to the default and loads each candidate in four steps. A file is an
inode with the upload its first half and its rest come from; `live` and `gap` are
history of what could be seen during a search. It takes every write to a file to
change its time or size, which is what the cache compares: two writes of equal
size within one tick of a coarse clock would not be told apart.

## 3. The runs

| run | instance | what it asks |
|---|---|---|
| `edge_conn` | 1 speaker, 1 flusher, 1 waiter, 2 callers; queue of 1, chunks of 1-2, 2 frames, 1 flush, failure limit 2 | `StaleBounded`, `MarkNeverEarly`; refinement `ImplementsCallLeg`; liveness `LegAnswersAll` |
| `media_gate` | 2 answering clients with 2 tries each, 3 finals through a channel of 1 | `WelcomeExclusive`, `FinalsConserved`; refinement `ImplementsFinalsFloor`; liveness `WelcomeEnds` |
| `flow_cursor` | every document of four nodes of the family in `MCFlowCursor`, unclear answers to 3 | `AskedWithinPolicy`, `LanguageTurnNeverArms`, `NamedTransferArms`; refinement `ImplementsGraphWalk`; liveness `TurnReturnsIfAcyclic` |
| `turn_machine` | the three drivers, VAD, partials, FailCall; three turns or welcomes | `StateTruthful`, `TransferredIsTrue`; refinement `KeepsToNeighbours`; liveness `CallsEnd` |
| `session_lifecycle` | a create, one leg, one stop, one end of talk | `StopReleases`; liveness `EndsForGood`, `EndIsEvidenced` |
| `session_gone` | the same | violated: `TeardownStopsRecording` |
| `listen_path` | 2 frames, channels of 1 | `UplinkTypeOK`, `UplinkAccounted`; liveness `CallerIsHeard`, `StopReleasesAll` |
| `language_lock` | 2 turn goroutines of 2 turns, 1 operator, 2 languages | `LangTypeOK`, `LanguageAgrees` |
| `recorder` | 2 frames a leg, backlog 1, drain limit 1, 1 tick of up to 2 frames, 1 crash | `FramesConserved`, `FinishedIsComplete`, `FileTruthful`; liveness `OrphansStamped` |
| `jobs` | 2 transitions (one the playback's), 2 workers, 2 rows, an operator, 1 fault, files of 0 and 2 frames | `RunOnce`, `LastFinalWins`, `NoFrameUnheard`; liveness `JobsSettle` |
| `registry` | a flow, a profile, 2 publishers, a session, an operator, 2 PUTs of engines, 12 profile documents | `TypeOK`; refinement `ImplementsVersionLog`; liveness `PublishReturns` |
| `fallback_store` | 2 uploads, a deletion, a caller; a tenant's directory and the default | `PromptTypeOK`, `ServedIsCurrent`, `WidensOnlyPastGaps` |

Why the bounds are enough to make the interesting cases happen:

* `edge_conn`: one frame fills the queue, the second overflows it or meets a
  frame in hand; the two callers race for the one verb; a failure streak of two
  needs two different writers to reach it, one of which closes the leg from
  inside the once. The waiter's lost wake-up needs one waiter.
* `media_gate`: two clients are what exclusion needs; with two tries each a
  client can retry a failed welcome or return after a completed one; two finals
  are enough to strand, double or reorder one, and the third finds the channel
  full while the consumer has the first in hand.
* `flow_cursor`: an Entry, two free nodes and a hangup give every edge between
  two different node types, cycles of length one and two, and chains of
  Speak/Inform on the way to a Tool; three unclear answers exceed the largest
  configured retry count used (1, and the default 3 in `Corners`).
* `turn_machine`: three turns let all three drivers be inside one at the same
  time: one speaking, one barging, one failing on the armed Tool.
* `session_lifecycle`: a stop, an end of talk, the leg's own failing attach and
  its watcher are four processes that may each be inside a terminal transition;
  one leg is all the edge admits at a time.
* `listen_path`: with channels of one the second frame meets a full one
  everywhere; each party may end first; the stop falls between any two steps of
  the start.
* `language_lock`: two goroutines and an operator make every pair of overlapping
  changes; the second turn of a goroutine sees a lock that is already there.
* `recorder`: the second frame meets a mux that has the first in hand; backlog,
  drain and catch-up limits are all reached; the crash falls into every step.
* `jobs`: two transitions to overlap in, two workers to lease one row, a worker
  that dies with it, or one that is refused a statement; an empty file and one
  whose end overtakes its frames.
* `registry`: the publishers meet on the flow or on the profile, or miss each
  other; the second PUT of engines falls between any two steps of the session.
  Each invalid profile misses one thing that `Validate` asks for.
* `fallback_store`: two uploads to one path or to two on one search, and a
  deletion between any two steps of a load.

Every run has `CHECK_DEADLOCK FALSE`: the bounds on calls, frames and turns run
out, and a session that has ended has nothing left to do. That somebody is stuck
before is what the liveness properties are about. Symmetry is used in
`fallback_store` and `language_lock`, which check safety only.

### Fairness

Weak fairness, and only for what the Go scheduler and the code's own deadlines
give: a goroutine that can go on does, a ticker ticks, the write loop runs every
frame interval. Nobody is obliged to speak, call an endpoint, let a context
expire, disconnect or fail. In particular

* EdgeConn: the write loop, the second sections of WritePCM and Flush, the
  waiting goroutine, a verb request under way, a close under way.
* MediaGate: the settle ticker, the consumer, an answer call under way (its
  speaking is bounded by the request's context). No recogniser need fail.
* FlowCursor: the call under way takes its next step.
* TurnMachine: a driver, a barge-in and FailCall go on, since engines end their
  streams or their contexts do, and the verb's playout waits have deadlines of
  10 and 20 seconds; and a leg that has gone is noticed (`GoneStops`).
* SessionLifecycle: handlers, the watcher and the end of a talk go on once begun
  (they wait for engines and statements that return), and a caller hangs up in
  the end. A client need not call `/stop`, nor wait for it.
* ListenPath: the goroutines of a call and a start under way; the dial and the
  writes to the recogniser have deadlines.
  The caller need not speak and the recogniser need not answer.
* Recorder: the mux, a stop under way, the reaper's ticker, and a service manager
  that restarts the process. Nobody has to start or stop a recording.
* PlaybackJob: the workers poll for ever and go on, but may die (`FaultBudget`).
* Registry: a publish request goes on, since PostgreSQL hands a row lock on.

### Where the code and its documents disagree

Checked by a run of its own:

* `session_gone` (code bug). When a leg goes, `onGone` stops the actor and writes
  Cancelled, and never `SessionRuntime.StopSession`: live talk, listen stream and
  recorder go on. As the session is terminal by then, a later stop or end of talk
  returns before it would stop them.

Met while modelling; the properties of the modules except each of these, by the
history variable or case named, and without the exception TLC shows it:

* Edge. `WritePCM` queues under one lock and counts under another (conn.go:363).
  The write loop can account for the frame in between; `markDone` clamps at zero,
  the later `+=` never goes away, and every later `WaitMark` of that leg waits out
  its context, against the comment at conn.go:233-235.
* Gate. docs/04_LIVE_TURN_MACHINE.md:11 promises that all speech is answered or in
  the transcript. The recogniser's reader drops a final, uncounted, when the
  channel of eight is full (sarvamstt/listen.go:321; `dropped`), and a final judged
  "queue it" may be queued after the only drain (runtime_adapter.go:328; `late`).
  `FinalsConserved` says that this is all: what is not dropped is in one place,
  once, until its turn, and at most one stays behind in the queue, one that was
  judged before the welcome was over.
* Cursor. A published document whose Entry, Speak or Inform nodes lead back to
  each other keeps the walk, and its mutex, for ever (cursor.go:276, against
  111-112): `TurnReturnsIfAcyclic` is what holds. The publish check looks at a
  transfer's outgoing edges, the arm at the edge that led in (validate.go:211,
  against docs/phases/P2.9_routing_matrix.md:53): `NamedTransferArms` is what holds.
* Turns. Arming a Tool switches the energy VAD off and nothing else: a partial or
  a second final still cuts the closing line (runtime_adapter.go:359, against
  docs/04_LIVE_TURN_MACHINE.md:58). A lab client that drops its `/inject-text`
  request cancels the Tool its text armed, and nothing ends the call
  (`ClientLeft`). A stale Capturing write of `OnPCM`, and a
  `finishSpeakToListening` of another driver, cut speech nobody barged into. A
  recorded transfer may be overwritten by a later failure.
* Lifecycle. A stop that overtakes its create leaves a Running row without an
  actor (`Overtaken`); a stop whose client leaves stays Draining until the leg
  goes (`dead`); an attach that overtakes a stop leaves a live talk, a recorder
  and a leg without an actor (`overlap`); the fill-in of a disposition, read and
  written in two statements, may replace a Tool's own.
* Listening. The actor's context comes from the create request, so the actor is
  Terminal and its bus closed as soon as that has been answered
  (server.go:491, against the comment at actor.go:158). A recogniser that fails
  ends the listen pump, which takes the tap, and the recorder and the barge-in
  detector with it; nobody calls FailCall, though fallback.go:1-5 says such a call
  plays a prompt; and the stream is not closed (listen.go:269). A stop that comes
  while `StartLiveTalk` dials finds no live talk (runtime_adapter.go:103), and what
  is registered then runs on without a session: pump, consumer, settle watch and
  stream (`Missed`). An error message
  of the peer ends the feeder pump while the socket's reader reads on
  (actor.go:302). `SwitchLanguage` asks for a listen restart and throws the answer
  away (runtime_adapter.go:543); the comment at 187-188 names a function that does
  not exist, and docs/01_VISION_AND_SCOPE.md:61 counts on it.
* Language. Two changes that overlap may leave the row with the earlier
  (`overlapped`).
* Recorder. A mux stuck for two seconds makes `Close` return with a file that may
  still grow and a header that nobody settles later.
* Jobs. Only Queued rows are leased and `leased_until` is never read: the job of a
  worker that dies stays Running, and blocks a new one (`abandoned`). Two
  overlapping transitions open two jobs (`overlap`). The worker writes back the
  disposition it read, and loses a final an operator recorded meanwhile, against
  docs/phases/P2.6_disposition.md:117 (`stale`). It drops the error of that read
  (postcall.go:138): refused it, it writes the row as if no final were there, and
  the upsert keeps the final and takes over its source (store_cc5.go:130), against
  the comment at postcall.go:139. `parseDisposition` looks for
  "resolved" before "unresolved", which contains it (postcall.go:239). A playback
  file that cannot be opened leaves its session Running; `GetPlaybackJob` never
  returns the session or the error.
* Admission. The capability gate looks at the gateways the profile lists, a
  session uses the tenant's engines, and these are only looked at for their port:
  a live session may be bound to an engine that cannot stream. `Validate` is
  content with a voice for any gateway, and the engine bound may be another.
* Fallback prompts. Two uploads of one prompt share `dst+".tmp"`, against
  fallback.go:195-197 (`clash`): a caller may hear half of each. A download of a
  prompt that resolves more widely answers 404 (fallback_api.go:73-78). Without
  `X-Tenant-ID` the API uploads for "default", which is not the "_default" that
  every tenant inherits.

## 4. The proofs

Proved by TLAPS for all values of the constants, from the assumptions named in
the modules (`BoundsAssumption`, `GateAssumption`, `CursorAssumption`,
`DocsAssumption`, `TurnAssumption`, `LifeAssumption`, `RegistryAssumption`,
`RecorderAssumption`, `JobsAssumption`, `PlaybackAssumption`,
`LanguageAssumption`, `FallbackAssumption`, `CapacitiesAssumption`: bounds are
naturals, limits and channels are positive, the kinds of goroutine are distinct,
documents are documents, uploads are not paths and `None` is neither). No
finiteness is assumed.

* **MediaGateProofs.** `TypeCorrect`, `WelcomesExclude`, `WelcomeUndisturbed`,
  `DrainingReopened`. The invariant is `TypeInv /\ PCInv /\ GateInv`: which calls
  can be at which step in which phase, and that a gated call between its
  `beginWelcome` and its completion is the only one while the phase says
  Welcoming. The phase alone is not inductive: `revertWelcome` of one call could
  let in another. `FinalsAreConserved` is proved beside it, by `ConsInv`: the
  places a final can be (stream, queue, the consumer's hand, the rest of an answer
  call's list, delivered) hold it once if it is due (emitted and not dropped) and
  never otherwise, and no such rest names it twice; and by `LateInv`, that a final
  is late only if the consumer had it in hand when the welcome was completed, of
  which there is one. Both parts of `ConsInv` are needed: an
  answer call that delivers one final would otherwise take another of the same
  number with it, and `emit` could put a number that is already somewhere. The
  counting lemmas (`CountAppend`, `CountFirst`) say what an append and the loss of a
  first element do to the number of occurrences, as cardinalities of index sets,
  so that no induction over sequences is needed. `GateKeepsTheFloor` shows that
  MediaGate implements FinalsFloor: `PCInv` gives it that an answer about to deliver
  comes after the completed welcome, `GateInv` that the consumer, which looks at the
  phase first, finds Conversing only when the welcome is over and Draining only on
  a stopped session.
* **EdgeConnProofs.** `TypeCorrect` (with the queue's limit),
  `BargeInDropsQueue`, `StaleFramesBounded`, `NoWakeupLost`, `MarksNotEarly`,
  `OneVerbPerLeg`. `StaleBounded` needs `StaleInv`, which charges the frame the
  write loop holds to the flush that overtook it; `MarkNeverEarly` needs
  `MarkInv`, an inequality between the queue, the frame in hand, the frames not
  yet counted and the count; `VerbAtMostOnce` needs `VerbInv`, that only the
  caller inside the once can write. With it `EdgeIsALeg`: the once ends in `Tell`
  or `Waste`, closing is `Gone`, and everything else leaves the leg alone.
* **FlowCursorProofs.** `TypeCorrect`, `CountsAreFresh`, `AskingIsBounded`
  (`CountInv`: a count and the reprompts it stands for agree), `EC23`
  (`LanguageInv`: the block is set for as long as a language turn walks),
  `ArmFreezes` (`ArmInv`), `NamedTransfersArm` (`NamedInv`, which carries the
  publish check along the walk). `CursorWalks` shows that FlowCursor implements
  GraphWalk; `ArmInv` makes the Tool final there and the count of arms one.
* **TurnMachineProofs.** `TypeCorrect`, `StateNeverStranded` (inductive given the
  types), `ToolHasOneDriver` (`ArmInv`: an armed Tool is carried by at most one
  driver, and the cursor stands on it), `TransferredCallersWere` and
  `FailuresHaveCauses` (`RecordInv`, `CauseInv`: a driver about to record holds
  the outcome of the verb it asked for). `SeamsHold` shows that TurnMachine keeps
  to CallLeg, FinalsFloor and GraphWalk at once. The types are enough here, as
  TurnMachine keeps to its neighbours by its guards: what each of these promises
  took an invariant on the other side of the seam.

* **SessionLifecycleProofs.** `LifeTypes` and `StopReleasesAll`. The invariant
  `Released` follows StopSession: from `stopLiveTalk` on no talk is live and from
  `stopRecorder` on nothing records, unless a leg has started either since.

* **RegistryProofs.** `RegistryTypes`, `RegistryIsALog` (the refinement of
  VersionLog, safety and all of it: the abstract specification has no fairness)
  and `PinsStand`. The invariant is `TypeOK /\ PubInv /\ PinInv`. `PubInv` carries
  the publish transactions: the number a transaction has read is a version's or
  the next one, a transaction that has inserted holds the next one, and two that
  have are at different keys. That needs the primary key (`Insert`'s guards) and
  not the row lock of flows. `PinInv` says that what a request has read is in the
  log from then on, before it is pinned too. Profiles, flows and the checks of
  Admission are opaque: whatever `Validate` and the gate decide, this holds.

* **RecorderProofs.** `RecorderTypes`, `NoFrameLost`, `FinishedComplete`,
  `SizesTruthful`, `StampedIsFinal`. `Control` is who may write the file: Close is
  past its wait only when the mux has exited, and the mux exits only when done is
  closed. With it, `Conserved` (the frames in hand belong to the one that writes)
  is inductive; `FramesConserved` alone is not, since two that write at once would
  each have frames in hand. `Complete` carries "all accepted before Close is in
  the file" from the last drain to the settled row, with `Conserved` to turn empty
  buffers into a complete file. `Sizes` needs `Quiet`: where a size has been taken
  for final, nobody who could still write is left. `StampedIsFinal` follows from it
  as a property of steps.

* **PlaybackJobProofs.** `PlaybackTypes`, `JobRunOnce`, `FinalStands`,
  `FramesHeard`, over PostcallJobs and PlaybackJob together. `Holds` relates the
  lease to the row (a held job is Running, held by one, not abandoned), `Unpushed`
  says that no CRM call was made before its worker comes to it, `OneOpen` that
  while no two enqueues overlapped the one about to insert has no open job beside
  it, `WritesNewest` that a worker not overtaken holds the newest final (and one that
  was refused the read none, which is why the upsert keeps what is there), and
  `Listened` that what reached the bus is heard or waits in the tap. Every step
  of a worker is first brought to one of seven shapes (`WorkerSteps`), so that each
  invariant is argued about shapes and not about the failures and answers of
  `runJob` one by one.

* **SessionLifecycleProofs, of LanguageLock.** `LanguageTypes`,
  `LanguageRowAgrees`. `Held` says that all that is about to be written is a pair
  the actor has held, a request's with the detected language the actor has, which
  stands once locked; with `Held` alone the row shows what was held, and not yet
  the actor's own. That needs `OneWriter` (changes that did not overlap have one
  writer at a time) and `Written` (what its statements have brought the row and the
  preference to, step by step).

* **TurnMachineProofs, of FallbackStore.** `PromptStoreTypes`,
  `CallersHearCurrentPrompts`, `SearchesWidenOnlyPastGaps`. `Placed` is about the
  file system: an inode is only at the slot it was uploaded to or that slot's
  ".tmp", never at both. `Alone` is about a path without a clash: one upload at a
  time writes, to the temporary file, and has written as much as it has come;
  hence `Installed`, one whole upload. A time and size that were seen there
  (`Known`) stand for an inode nobody writes to any more and that never comes
  back once replaced (`Frozen`); so what is cached under them is the content in
  place whenever they are in place, and whoever has just seen them has had it in
  place meanwhile (`Entry`). The last is what a check of the cache against the
  file's time and size buys, and why `ServedIsCurrent` is not inductive without
  it. `PassedGaps` is the same claim as `WidensOnlyPastGaps`, at every step of the
  search and not only at its end.

* **FlowCursorProofs, of ListenPath.** `UplinkTypes` and `UplinkFramesAccounted`.
  `UplinkInv` follows a frame in two parts. `Coming`: all that was sent is with the
  recorder, in the pump's hand, in the websocket, or skipped, in one place only and
  in order. `Going`: what the recorder has and was not lost is with the recogniser,
  in the listen pump's hand or in the queue, likewise. `LeftNothing` is about the
  end: a pump that has ended was told of an error, or had nothing left to come.
  None is inductive alone: `UplinkAccounted` says nothing of the frames in hand,
  which is where order would be lost. "In order" is stated by `Rising` and
  `Before`, of positions and ranges, from which `UplinkAccounted` follows without
  induction over lengths; `AppendRises`, `HeadLeads` and `ConcatRises` are all that is needed of
  sequences. Every step is brought to one of a few shapes first (`Quiet`,
  `Arrives`, `Taken`, `Queued`, `Given`, ...).

Each invariant was checked by TLC before it was proved. Those that no run lists
any more, because the theorem says more than the small instance does, are the
`TypeOK` of EdgeConn, MediaGate, FlowCursor, TurnMachine, SessionLifecycle,
Recorder and PlaybackJob, `QueueIsCurrent`, `NoLostWakeup`,
`VerbAtMostOnce`, `NoTurnDuringWelcome`, `OnlyAnswerLeavesDraining`,
`OnlyCurrentCounts`, `ArmIsFinal`, `FailureHasCause`.

Every safety property of a passing run is a theorem. Only model-checked: the
liveness properties (`LegAnswersAll`, `WelcomeEnds`, `TurnReturnsIfAcyclic`,
`CallsEnd`, `EndsForGood`, `EndIsEvidenced`, `CallerIsHeard`, `StopReleasesAll`,
`OrphansStamped`, `JobsSettle`, `PublishReturns`), since fairness and ENABLED are
beyond the prover; and what the operators of Admission compute, which the run of
Registry exercises over its documents and the proofs leave opaque.

## 5. Not modelled, and why

* Engines (listen, think, speak), FreeSWITCH, the database: external; their
  answers, delays and failures are choices of the modules that call them.
* `thinkpath.Path.Run`, the turn without a graph: only tests call it.
* How an utterance is matched, the echo test, VAD energy and its hysteresis,
  partial results: their verdicts are choices, so the properties hold whatever
  they say. `Inform`'s lookup of knowledge bindings resolves or does not.
* The language allowlist, which nothing outside tests sets.
* A second recorder for one call, started by a leg that attaches again while the
  first is being stopped; `meta.json` and directory names.
* Partial PCM frames, resampling, wire formats, token signatures: sequential
  conversions.
* Subscribers of the bus that only watch (SSE, consoles), audit records, metrics,
  transcripts, credentials and settings rows: they record or configure and decide
  nothing about a running call.
* Migrations and process start-up: sequential; what gateways are registered is a
  constant of Admission.

## 6. Plan

Done: every module of section 2 with its run; the proofs of section 4, the
refinements between the modules of one call among them. What a caller hears came
first, then what is left of the call afterwards, then what decides whether it may
begin.

What would come next:

1. SessionLifecycle with two legs in turn, against an abstract session that ends
   once, and its stand-ins for the gate and the talk as refinements too.
2. The turn without a graph, once something other than tests calls it.
