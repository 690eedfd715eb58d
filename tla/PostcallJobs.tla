----------------------------- MODULE PostcallJobs -----------------------------
(***************************************************************************)
(* The postcall work of one session: the queue of postcall_job rows, its    *)
(* workers (one per process), and the disposition row they share with the   *)
(* operators' PATCH and the Tools' late recordings.                         *)
(*                                                                         *)
(* Every statement of the store is one step; what a handler read in one     *)
(* statement it uses in a later one.                                        *)
(***************************************************************************)
EXTENDS Integers, Sequences

CONSTANTS Jobs,        \* ids of postcall_job rows
          Enders,      \* terminal transitions that enqueue a job
          Workers,     \* postcall workers, one per process
          Writers,     \* requests and Tools that record a final of their own
          Skills,      \* subset of {"push_disposition", "create_ticket"} the profile allows
          FaultBudget  \* bound: workers that die, statements that are refused

ASSUME JobsAssumption ==
  /\ FaultBudget \in Nat
  /\ Skills \subseteq {"push_disposition", "create_ticket"}

NoJob == "none"
FillInFinal == "fill_in"       \* what ensureTerminalDisposition has recorded
Finals == {"", FillInFinal} \cup Writers
Sources == {"", "live_graph", "postcall_worker"} \cup Writers
Suggestions == {"", "unresolved", "tagged"}

ASSUME NamesDistinct ==
  /\ NoJob \notin Jobs
  /\ Writers \cap {"", FillInFinal, "live_graph", "postcall_worker"} = {}

Unrecorded == [final |-> "", source |-> ""]

VARIABLES jobs,       \* state of each row
          ender,      \* EXISTS, then INSERT
          disp,       \* the session_disposition row
          worker,     \* what each worker does and has read (seen is history)
          writer,     \* GET, then UPSERT
          newest,     \* history: the final recorded last by anyone but a worker
          overlap,    \* history: two enqueues read before either inserted
          stale,      \* history: what of newest a worker that had not read it wrote over
          runs,       \* history: CRM calls made for each job
          abandoned,  \* history: jobs whose worker died or was refused
          faults

jobVars == <<jobs, ender, disp, worker, writer, newest, overlap, stale, runs,
             abandoned, faults>>

Idle == [pc |-> "idle", job |-> NoJob, suggestion |-> "", final |-> "", source |-> "",
         seen |-> {}]

\* The transitions are over when they enqueue: onSessionTerminal has filled a
\* final in; a playback session ends without one.
JobInit ==
  /\ jobs = [j \in Jobs |-> "absent"]
  /\ ender = [e \in Enders |-> "wait"]
  /\ disp \in {[suggestion |-> "", final |-> "", source |-> ""],
               [suggestion |-> "", final |-> FillInFinal, source |-> "live_graph"]}
  /\ worker = [w \in Workers |-> Idle]
  /\ writer = [p \in Writers |-> [pc |-> "get", suggestion |-> ""]]
  /\ newest = [Unrecorded EXCEPT !.final = disp.final, !.source = disp.source]
  /\ overlap = FALSE /\ stale = {}
  /\ runs = [j \in Jobs |-> <<>>]
  /\ abandoned = {} /\ faults = 0

Open(j) == jobs[j] \in {"Queued", "Running"}

-----------------------------------------------------------------------------
\* The store has the terminal state: onSessionTerminal goes on to the enqueue.
TerminalReached(e) ==
  /\ ender[e] = "wait"
  /\ ender' = [ender EXCEPT ![e] = "check"]
  /\ UNCHANGED <<jobs, disp, worker, writer, newest, overlap, stale, runs, abandoned, faults>>

\* CreatePostcallJob: an open job is a conflict, which enqueuePostcall swallows.
EnqueueCheck(e) ==
  /\ ender[e] = "check"
  /\ ender' = [ender EXCEPT ![e] = IF \E j \in Jobs : Open(j) THEN "done" ELSE "insert"]
  /\ overlap' = (overlap \/ \E d \in Enders \ {e} : ender[d] = "insert")
  /\ UNCHANGED <<jobs, disp, worker, writer, newest, stale, runs, abandoned, faults>>

EnqueueInsert(e) ==
  /\ ender[e] = "insert"
  /\ \E j \in Jobs :
       /\ jobs[j] = "absent"
       /\ jobs' = [jobs EXCEPT ![j] = "Queued"]
  /\ ender' = [ender EXCEPT ![e] = "done"]
  /\ UNCHANGED <<disp, worker, writer, newest, overlap, stale, runs, abandoned, faults>>

\* The statement is refused: the enqueue is logged and given up (fail-open).
EnqueueRefused(e) ==
  /\ ender[e] \in {"check", "insert"} /\ faults < FaultBudget
  /\ ender' = [ender EXCEPT ![e] = "refused"] /\ faults' = faults + 1
  /\ UNCHANGED <<jobs, disp, worker, writer, newest, overlap, stale, runs, abandoned>>

-----------------------------------------------------------------------------
WorkerStep(w, from, r) ==
  /\ worker[w].pc = from
  /\ worker' = [worker EXCEPT ![w] = r]

\* UpdatePostcallJob with the state the worker has come to.
SettleJob(w, state) ==
  /\ jobs' = [jobs EXCEPT ![worker[w].job] = state]
  /\ UNCHANGED <<ender, disp, writer, newest, overlap, stale, runs, abandoned, faults>>

\* LeaseNextPostcallJob: one transaction that skips locked rows and takes
\* Queued ones only.
\* A seeded slip: the lease of a row that somebody else runs is taken over.
LeaseOpen(w) ==
  \E j \in Jobs :
    /\ Open(j)
    /\ WorkerStep(w, "idle", [Idle EXCEPT !.pc = "load", !.job = j])
    /\ jobs' = [jobs EXCEPT ![j] = "Running"]
    /\ UNCHANGED <<ender, disp, writer, newest, overlap, stale, runs, abandoned, faults>>

Lease(w) ==
  \E j \in Jobs :
    /\ jobs[j] = "Queued"
    /\ WorkerStep(w, "idle", [Idle EXCEPT !.pc = "load", !.job = j])
    /\ jobs' = [jobs EXCEPT ![j] = "Running"]
    /\ UNCHANGED <<ender, disp, writer, newest, overlap, stale, runs, abandoned, faults>>

\* Session, profile version and document are read; then the template is asked.
\* A seeded slip: a failed read returns and leaves the row as it is.
LoadFailsQuietly(w) == WorkerStep(w, "load", Idle)
                       /\ UNCHANGED <<jobs, ender, disp, writer, newest, overlap, stale,
                                      runs, abandoned, faults>>

LoadFails(w) == WorkerStep(w, "load", Idle) /\ SettleJob(w, "Failed")

Load(w) ==
  /\ WorkerStep(w, "load", [worker[w] EXCEPT !.pc = "think"])
  /\ UNCHANGED <<jobs, ender, disp, writer, newest, overlap, stale, runs, abandoned, faults>>

ThinkFails(w) == WorkerStep(w, "think", Idle) /\ SettleJob(w, "Failed")

\* Without a template or a provider the suggestion is "unresolved".
Think(w) ==
  /\ \E s \in {"unresolved", "tagged"} :
       WorkerStep(w, "think", [worker[w] EXCEPT !.pc = "get", !.suggestion = s])
  /\ UNCHANGED <<jobs, ender, disp, writer, newest, overlap, stale, runs, abandoned, faults>>

\* A final that is there keeps its source; else the row becomes the worker's.
\* A seeded slip: the source becomes the worker's in any case.
GetOwnSource(w) ==
  /\ WorkerStep(w, "get",
       [worker[w] EXCEPT !.pc = "put", !.final = disp.final, !.source = "postcall_worker",
                         !.seen = {newest}])
  /\ UNCHANGED <<jobs, ender, disp, writer, newest, overlap, stale, runs, abandoned, faults>>

GetDisposition(w) ==
  /\ WorkerStep(w, "get",
       [worker[w] EXCEPT !.pc = "put", !.final = disp.final, !.seen = {newest},
                         !.source = IF disp.final = "" THEN "postcall_worker" ELSE disp.source])
  /\ UNCHANGED <<jobs, ender, disp, writer, newest, overlap, stale, runs, abandoned, faults>>

\* The read is refused, and its error swallowed: the worker goes on as if no
\* final were there.
GetRefused(w) ==
  /\ faults < FaultBudget
  /\ WorkerStep(w, "get", [worker[w] EXCEPT !.pc = "put", !.final = "", !.seen = {},
                                            !.source = "postcall_worker"])
  /\ faults' = faults + 1
  /\ UNCHANGED <<jobs, ender, disp, writer, newest, overlap, stale, runs, abandoned>>

\* UpsertSessionDisposition: an empty final keeps the one that is there, but
\* the source is written over in any case.
Upserted(r) == [r EXCEPT !.final = IF @ = "" THEN disp.final ELSE @]

Record(w) == [suggestion |-> worker[w].suggestion, final |-> worker[w].final,
              source |-> worker[w].source]

PutDisposition(w) ==
  /\ WorkerStep(w, "put", [worker[w] EXCEPT !.pc = "push"])
  /\ disp' = Upserted(Record(w))
  /\ stale' = stale \cup (IF newest \in worker[w].seen THEN {}
                          ELSE IF worker[w].final = "" THEN {"source"}
                          ELSE {"final", "source"})
  /\ UNCHANGED <<jobs, ender, writer, newest, overlap, runs, abandoned, faults>>

\* The upsert is refused, and its error dropped: the worker goes on to the CRM.
PutRefused(w) ==
  /\ faults < FaultBudget
  /\ WorkerStep(w, "put", [worker[w] EXCEPT !.pc = "push"])
  /\ faults' = faults + 1
  /\ UNCHANGED <<jobs, ender, disp, writer, newest, overlap, stale, runs, abandoned>>

\* maybePushCRM: push_disposition when it is allowed, else create_ticket.  The
\* result is not looked at.
CrmSkill ==
  CASE "push_disposition" \in Skills -> <<"push_disposition">>
    [] "push_disposition" \notin Skills /\ "create_ticket" \in Skills -> <<"create_ticket">>
    [] OTHER -> <<>>

PushCRM(w) ==
  /\ WorkerStep(w, "push", [worker[w] EXCEPT !.pc = "settle"])
  /\ runs' = [runs EXCEPT ![worker[w].job] = @ \o CrmSkill]
  /\ UNCHANGED <<jobs, ender, disp, writer, newest, overlap, stale, abandoned, faults>>

Settle(w) == WorkerStep(w, "settle", Idle) /\ SettleJob(w, "Completed")

\* The process dies or shuts down, or the last statement is refused (its error
\* is dropped): the row stays Running, and nothing looks at leased_until.
WorkerLost(w) ==
  /\ worker[w].pc # "idle" /\ faults < FaultBudget
  /\ worker' = [worker EXCEPT ![w] = Idle]
  /\ abandoned' = abandoned \cup {worker[w].job} /\ faults' = faults + 1
  /\ UNCHANGED <<jobs, ender, disp, writer, newest, overlap, stale, runs>>

Faulty(w) == WorkerLost(w) \/ GetRefused(w) \/ PutRefused(w)

Work(w) ==
  \/ Lease(w) \/ LoadFails(w) \/ Load(w) \/ ThinkFails(w) \/ Think(w)
  \/ GetDisposition(w) \/ PutDisposition(w) \/ PushCRM(w) \/ Settle(w)

-----------------------------------------------------------------------------
\* handlePatchDisposition and recordLiveDisposition: suggestion and template are
\* read and written back with the new final.
WriterGet(p) ==
  /\ writer[p].pc = "get"
  /\ writer' = [writer EXCEPT ![p] = [pc |-> "put", suggestion |-> disp.suggestion]]
  /\ UNCHANGED <<jobs, ender, disp, worker, newest, overlap, stale, runs, abandoned, faults>>

WriterPut(p) ==
  /\ writer[p].pc = "put"
  /\ writer' = [writer EXCEPT ![p].pc = "done"]
  /\ disp' = [suggestion |-> writer[p].suggestion, final |-> p, source |-> p]
  /\ newest' = [final |-> p, source |-> p] /\ stale' = {}
  /\ UNCHANGED <<jobs, ender, worker, overlap, runs, abandoned, faults>>

\* A refused read: a Tool goes on without the suggestion, the PATCH gives up.  A
\* refused upsert: the final is lost, to the log or to the client's error.
WriterRefused(p) ==
  /\ writer[p].pc \in {"get", "put"} /\ faults < FaultBudget
  /\ \E to \in {"put", "done"} :
       /\ writer[p].pc = "put" => to = "done"
       /\ writer' = [writer EXCEPT ![p].pc = to]
  /\ faults' = faults + 1
  /\ UNCHANGED <<jobs, ender, disp, worker, newest, overlap, stale, runs, abandoned>>

\* E: the transitions that reach their end on their own here.
JobStep(E) ==
  \/ \E e \in E : TerminalReached(e)
  \/ \E e \in Enders : EnqueueCheck(e) \/ EnqueueInsert(e) \/ EnqueueRefused(e)
  \/ \E w \in Workers : Work(w) \/ Faulty(w)
  \/ \E p \in Writers : WriterGet(p) \/ WriterPut(p) \/ WriterRefused(p)

JobSpec == JobInit /\ [][JobStep(Enders)]_jobVars

-----------------------------------------------------------------------------
JobTypeOK ==
  /\ jobs \in [Jobs -> {"absent", "Queued", "Running", "Completed", "Failed"}]
  /\ ender \in [Enders -> {"wait", "check", "insert", "done", "refused"}]
  /\ disp \in [suggestion : Suggestions, final : Finals, source : Sources]
  /\ worker \in [Workers -> [pc : {"idle", "load", "think", "get", "put", "push", "settle"},
                             job : Jobs \cup {NoJob}, suggestion : Suggestions,
                             final : Finals, source : Sources,
                             seen : SUBSET [final : Finals, source : Sources]]]
  /\ writer \in [Writers -> [pc : {"get", "put", "done"}, suggestion : Suggestions]]
  /\ newest \in [final : Finals, source : Sources]
  /\ overlap \in BOOLEAN /\ stale \subseteq {"final", "source"}
  /\ runs \in [Jobs -> Seq(Skills)]
  /\ abandoned \in SUBSET Jobs /\ faults \in 0 .. FaultBudget

\* A job is run by one worker and its CRM call is made once; and unless two
\* terminal transitions overlapped in CreatePostcallJob, the session has one
\* open job, so that no two workers push for one session side by side.
RunOnce ==
  /\ \A w, x \in Workers : w # x /\ worker[w].job # NoJob => worker[w].job # worker[x].job
  /\ \A j \in Jobs : Len(runs[j]) <= 1
  /\ \A i, j \in Jobs : Open(i) /\ Open(j) /\ ~overlap => i = j

\* The final recorded last, by a Tool or an operator, stands with its provenance.
\* A worker writes the final over only when that was recorded after the worker
\* had read another; it takes the provenance over only then, or when it had read
\* no final: there was none yet, or the read was refused.
LastFinalWins ==
  "final" \notin stale =>
    /\ disp.final = newest.final
    /\ "source" \notin stale /\ disp.final # "" => disp.source = newest.source
=============================================================================
