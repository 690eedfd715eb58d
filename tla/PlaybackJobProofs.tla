-------------------------- MODULE PlaybackJobProofs --------------------------
(***************************************************************************)
(* Theorems about PlaybackJob and the PostcallJobs it extends, for any     *)
(* jobs, terminal transitions, workers, writers and file lengths: the type *)
(* invariant, that a job is run once, that the final recorded last stands, *)
(* and that a playback job does not fail over frames nobody listened to.   *)
(***************************************************************************)
EXTENDS PlaybackJob, SequenceTheorems, TLAPS

\* A worker holds a job exactly while it is not idle; the row says Running, no
\* other worker holds it, and nobody has abandoned it.
Holds ==
  /\ \A w \in Workers :
       /\ worker[w].pc = "idle" <=> worker[w].job = NoJob
       /\ worker[w].job # NoJob =>
            jobs[worker[w].job] = "Running" /\ worker[w].job \notin abandoned
  /\ \A w, x \in Workers : w # x /\ worker[w].job # NoJob => worker[w].job # worker[x].job
  /\ \A j \in abandoned : jobs[j] = "Running"

\* No CRM call has been made for a job before its worker comes to make it.
Unpushed ==
  /\ \A j \in Jobs : Len(runs[j]) <= 1 /\ (jobs[j] \in {"absent", "Queued"} => runs[j] = <<>>)
  /\ \A w \in Workers :
       worker[w].pc \in {"load", "think", "get", "put", "push"} => runs[worker[w].job] = <<>>

\* As long as no two enqueues overlapped, one that is about to insert is alone
\* and has no open job beside it.
OneOpen ==
  ~overlap =>
    /\ \A i, j \in Jobs : Open(i) /\ Open(j) => i = j
    /\ \A e \in Enders : ender[e] = "insert" => \A j \in Jobs : ~Open(j)
    /\ \A e, d \in Enders : ender[e] = "insert" /\ ender[d] = "insert" => e = d

\* A worker that is about to write back what it has read, and has not been
\* overtaken, writes back the newest final; a writer records its final once.
\* A worker whose read was refused has seen nothing and has no final to write.
WritesNewest ==
  /\ LastFinalWins
  /\ \A w \in Workers :
       worker[w].pc = "put" /\ newest \in worker[w].seen /\ "final" \notin stale =>
         /\ worker[w].final = newest.final
         /\ "source" \notin stale /\ worker[w].final # "" => worker[w].source = newest.source
  /\ \A p \in Writers : writer[p].pc # "done" =>
       newest.final # p /\ \A w \in Workers : \A s \in worker[w].seen : s.final # p

JobInv == Holds /\ Unpushed /\ OneOpen /\ WritesNewest

\* What has reached the bus has been heard or waits in the tap, and once the
\* worker has stopped listening of its own accord nothing more reaches it.
Listened ==
  /\ published => heard \/ tap > 0
  /\ job = "Queued" => pc = "idle"
  /\ job \in {"Completed", "Failed"} => pc \in {"row", "idle"}
  /\ pc = "row" => job # "Running"
  /\ pc \in {"stop", "settle"} /\ cut = "no" => pump = "done" /\ tap = 0
  /\ job = "Failed" /\ cut = "no" => pump = "done" /\ ~published

IInv == TypeOK /\ JobInv /\ Listened

-----------------------------------------------------------------------------
(* The shape of a worker's step.                                           *)
WorkerPC == {"idle", "load", "think", "get", "put", "push", "settle"}
WorkerRec == [pc : WorkerPC, job : Jobs \cup {NoJob}, suggestion : Suggestions,
              final : Finals, source : Sources, seen : SUBSET [final : Finals, source : Sources]]

Others(w) == \A x \in Workers : x # w => worker'[x] = worker[x]

\* A lease; a step with the job in hand; the end of the work, however it comes.
Takes(w, j) ==
  /\ worker[w].pc = "idle" /\ jobs[j] = "Queued"
  /\ worker'[w].pc = "load" /\ worker'[w].job = j /\ worker'[w].seen = {}
  /\ jobs' = [jobs EXCEPT ![j] = "Running"]
  /\ UNCHANGED <<ender, disp, writer, newest, overlap, stale, runs, abandoned>>

Goes(w) ==
  /\ \/ worker[w].pc = "load" /\ worker'[w].pc = "think"
     \/ worker[w].pc = "think" /\ worker'[w].pc = "get"
     \/ worker[w].pc = "put" /\ worker'[w].pc = "push"
  /\ worker'[w].job = worker[w].job /\ worker'[w].seen = worker[w].seen
  /\ UNCHANGED <<jobs, ender, disp, writer, newest, overlap, stale, runs, abandoned>>

Reads(w) ==
  /\ worker[w].pc = "get" /\ worker'[w].pc = "put" /\ worker'[w].job = worker[w].job
  /\ worker'[w].seen = {newest} /\ worker'[w].final = disp.final
  /\ disp.final # "" => worker'[w].source = disp.source
  /\ UNCHANGED <<jobs, ender, disp, writer, newest, overlap, stale, runs, abandoned>>

Misses(w) ==
  /\ worker[w].pc = "get" /\ worker'[w].pc = "put" /\ worker'[w].job = worker[w].job
  /\ worker'[w].seen = {}
  /\ UNCHANGED <<jobs, ender, disp, writer, newest, overlap, stale, runs, abandoned>>

Writes(w) ==
  /\ worker[w].pc = "put" /\ worker'[w].pc = "push" /\ worker'[w].job = worker[w].job
  /\ worker'[w].seen = worker[w].seen
  /\ disp'.final = IF worker[w].final = "" THEN disp.final ELSE worker[w].final
  /\ disp'.source = worker[w].source
  /\ stale' = stale \cup (IF newest \in worker[w].seen THEN {}
                          ELSE IF worker[w].final = "" THEN {"source"}
                          ELSE {"final", "source"})
  /\ UNCHANGED <<jobs, ender, writer, newest, overlap, runs, abandoned>>

Pushes(w) ==
  /\ worker[w].pc = "push" /\ worker'[w].pc = "settle" /\ worker'[w].job = worker[w].job
  /\ worker'[w].seen = worker[w].seen
  /\ runs' = [runs EXCEPT ![worker[w].job] = @ \o CrmSkill]
  /\ UNCHANGED <<jobs, ender, disp, writer, newest, overlap, stale, abandoned>>

Drops(w) ==
  /\ worker[w].pc # "idle" /\ worker'[w] = Idle
  /\ \/ /\ \E state \in {"Completed", "Failed"} :
             jobs' = [jobs EXCEPT ![worker[w].job] = state]
        /\ UNCHANGED abandoned
     \/ jobs' = jobs /\ abandoned' = abandoned \cup {worker[w].job}
  /\ UNCHANGED <<ender, disp, writer, newest, overlap, stale, runs>>

WorkerShape(w) ==
  \/ \E j \in Jobs : Takes(w, j)
  \/ Goes(w) \/ Reads(w) \/ Misses(w) \/ Writes(w) \/ Pushes(w) \/ Drops(w)

LEMMA IdleTyped ==
  Idle \in WorkerRec /\ Idle.pc = "idle" /\ Idle.job = NoJob /\ Idle.seen = {}
BY DEF Idle, WorkerRec, WorkerPC, Suggestions, Finals, Sources

LEMMA WorkerAt ==
  ASSUME JobTypeOK, NEW w \in Workers, NEW from, NEW r \in WorkerRec, WorkerStep(w, from, r)
  PROVE  /\ worker' \in [Workers -> WorkerRec] /\ worker'[w] = r /\ Others(w)
         /\ worker[w].pc = from /\ worker[w] \in WorkerRec
<1>1. worker \in [Workers -> WorkerRec]
  BY DEF JobTypeOK, WorkerRec, WorkerPC
<1>2. worker' = [worker EXCEPT ![w] = r] /\ worker[w].pc = from
  BY DEF WorkerStep
<1> QED
  BY <1>1, <1>2 DEF Others

\* A worker that only moves on keeps the rest of its record.
LEMMA MovedOn ==
  ASSUME NEW r \in WorkerRec, NEW to \in WorkerPC
  PROVE  LET m == [r EXCEPT !.pc = to]
         IN /\ m \in WorkerRec /\ m.pc = to /\ m.job = r.job /\ m.seen = r.seen
            /\ m.final = r.final /\ m.source = r.source
BY DEF WorkerRec

LEMMA WorkerSteps ==
  ASSUME JobTypeOK, NEW w \in Workers, Work(w) \/ Faulty(w)
  PROVE  /\ worker' \in [Workers -> WorkerRec] /\ Others(w)
         /\ WorkerShape(w)
<1> DEFINE Goal == worker' \in [Workers -> WorkerRec] /\ Others(w) /\ WorkerShape(w)
<1>0. worker[w] \in WorkerRec /\ newest \in [final : Finals, source : Sources]
      /\ disp \in [suggestion : Suggestions, final : Finals, source : Sources]
  BY DEF JobTypeOK, WorkerRec, WorkerPC
<1>1. CASE Lease(w)
  <2>1. PICK j \in Jobs :
          /\ jobs[j] = "Queued"
          /\ WorkerStep(w, "idle", [Idle EXCEPT !.pc = "load", !.job = j])
          /\ jobs' = [jobs EXCEPT ![j] = "Running"]
          /\ UNCHANGED <<ender, disp, writer, newest, overlap, stale, runs, abandoned, faults>>
    BY <1>1 DEF Lease
  <2> DEFINE r == [Idle EXCEPT !.pc = "load", !.job = j]
  <2>2. r \in WorkerRec /\ r.pc = "load" /\ r.job = j /\ r.seen = {}
    BY IdleTyped DEF Idle, WorkerRec, WorkerPC
  <2> HIDE DEF r
  <2>3. WorkerStep(w, "idle", r)
    BY <2>1 DEF r
  <2>4. /\ worker' \in [Workers -> WorkerRec] /\ worker'[w] = r /\ Others(w)
        /\ worker[w].pc = "idle"
    BY <2>1, <2>2, <2>3, WorkerAt
  <2> QED
    BY <2>1, <2>2, <2>3, <2>4 DEF WorkerShape, Takes
<1>2. CASE LoadFails(w) \/ ThinkFails(w) \/ Settle(w)
  <2>1. PICK from \in {"load", "think", "settle"}, state \in {"Completed", "Failed"} :
          WorkerStep(w, from, Idle) /\ SettleJob(w, state)
    BY <1>2 DEF LoadFails, ThinkFails, Settle
  <2>2. /\ worker' \in [Workers -> WorkerRec] /\ worker'[w] = Idle /\ Others(w)
        /\ worker[w].pc = from
    BY <2>1, IdleTyped, WorkerAt
  <2> QED
    BY <2>1, <2>2 DEF WorkerShape, Drops, SettleJob
<1>3. CASE Load(w)
  <2> DEFINE r == [worker[w] EXCEPT !.pc = "think"]
  <2>1. r \in WorkerRec /\ r.pc = "think" /\ r.job = worker[w].job /\ r.seen = worker[w].seen
    BY <1>0, MovedOn DEF WorkerPC
  <2> HIDE DEF r
  <2>2. WorkerStep(w, "load", r)
    BY <1>3 DEF Load, r
  <2>3. /\ worker' \in [Workers -> WorkerRec] /\ worker'[w] = r /\ Others(w)
        /\ worker[w].pc = "load"
    BY <2>1, <2>2, WorkerAt
  <2> QED
    BY <1>3, <2>1, <2>2, <2>3 DEF Load, WorkerShape, Goes
<1>4. CASE Think(w)
  <2>1. PICK g \in {"unresolved", "tagged"} :
          WorkerStep(w, "think", [worker[w] EXCEPT !.pc = "get", !.suggestion = g])
    BY <1>4 DEF Think
  <2> DEFINE r == [worker[w] EXCEPT !.pc = "get", !.suggestion = g]
  <2>2. r \in WorkerRec /\ r.pc = "get" /\ r.job = worker[w].job /\ r.seen = worker[w].seen
    BY <1>0 DEF WorkerRec, WorkerPC, Suggestions
  <2> HIDE DEF r
  <2>3. WorkerStep(w, "think", r)
    BY <2>1 DEF r
  <2>4. /\ worker' \in [Workers -> WorkerRec] /\ worker'[w] = r /\ Others(w)
        /\ worker[w].pc = "think"
    BY <2>2, <2>3, WorkerAt
  <2> QED
    BY <1>4, <2>2, <2>3, <2>4 DEF Think, WorkerShape, Goes
<1>5. CASE GetDisposition(w)
  <2> DEFINE r == [worker[w] EXCEPT !.pc = "put", !.final = disp.final, !.seen = {newest},
                     !.source = IF disp.final = "" THEN "postcall_worker" ELSE disp.source]
  <2>1. /\ r \in WorkerRec /\ r.pc = "put" /\ r.job = worker[w].job /\ r.seen = {newest}
        /\ r.final = disp.final /\ (disp.final # "" => r.source = disp.source)
    BY <1>0 DEF WorkerRec, WorkerPC, Sources
  <2> HIDE DEF r
  <2>2. WorkerStep(w, "get", r)
    BY <1>5 DEF GetDisposition, r
  <2>3. /\ worker' \in [Workers -> WorkerRec] /\ worker'[w] = r /\ Others(w)
        /\ worker[w].pc = "get"
    BY <2>1, <2>2, WorkerAt
  <2> QED
    BY <1>5, <2>1, <2>2, <2>3 DEF GetDisposition, WorkerShape, Reads
<1>6. CASE PutDisposition(w)
  <2> DEFINE r == [worker[w] EXCEPT !.pc = "push"]
  <2>1. r \in WorkerRec /\ r.pc = "push" /\ r.job = worker[w].job /\ r.seen = worker[w].seen
    BY <1>0, MovedOn DEF WorkerPC
  <2> HIDE DEF r
  <2>2. WorkerStep(w, "put", r)
    BY <1>6 DEF PutDisposition, r
  <2>3. /\ disp'.final = IF worker[w].final = "" THEN disp.final ELSE worker[w].final
        /\ disp'.source = worker[w].source
    BY <1>6 DEF PutDisposition, Upserted, Record
  <2>4. /\ worker' \in [Workers -> WorkerRec] /\ worker'[w] = r /\ Others(w)
        /\ worker[w].pc = "put"
    BY <2>1, <2>2, <2>3, WorkerAt
  <2> QED
    BY <1>6, <2>1, <2>2, <2>3, <2>4 DEF PutDisposition, WorkerShape, Writes
<1>7. CASE PushCRM(w)
  <2> DEFINE r == [worker[w] EXCEPT !.pc = "settle"]
  <2>1. r \in WorkerRec /\ r.pc = "settle" /\ r.job = worker[w].job /\ r.seen = worker[w].seen
    BY <1>0, MovedOn DEF WorkerPC
  <2> HIDE DEF r
  <2>2. WorkerStep(w, "push", r)
    BY <1>7 DEF PushCRM, r
  <2>3. /\ worker' \in [Workers -> WorkerRec] /\ worker'[w] = r /\ Others(w)
        /\ worker[w].pc = "push"
    BY <2>1, <2>2, WorkerAt
  <2> QED
    BY <1>7, <2>1, <2>2, <2>3 DEF PushCRM, WorkerShape, Pushes
<1>8. CASE WorkerLost(w)
  <2>1. WorkerStep(w, worker[w].pc, Idle)
    BY <1>8 DEF WorkerLost, WorkerStep
  <2> QED
    BY <1>8, <2>1, IdleTyped, WorkerAt DEF WorkerLost, WorkerShape, Drops
<1>9. CASE GetRefused(w)
  <2> DEFINE r == [worker[w] EXCEPT !.pc = "put", !.final = "", !.seen = {},
                                    !.source = "postcall_worker"]
  <2>1. r \in WorkerRec /\ r.pc = "put" /\ r.job = worker[w].job /\ r.seen = {}
    BY <1>0 DEF WorkerRec, WorkerPC, Sources, Finals
  <2> HIDE DEF r
  <2>2. WorkerStep(w, "get", r)
    BY <1>9 DEF GetRefused, r
  <2>3. /\ worker' \in [Workers -> WorkerRec] /\ worker'[w] = r /\ Others(w)
        /\ worker[w].pc = "get"
    BY <2>1, <2>2, WorkerAt
  <2> QED
    BY <1>9, <2>1, <2>2, <2>3 DEF GetRefused, WorkerShape, Misses
<1>10. CASE PutRefused(w)
  <2> DEFINE r == [worker[w] EXCEPT !.pc = "push"]
  <2>1. r \in WorkerRec /\ r.pc = "push" /\ r.job = worker[w].job /\ r.seen = worker[w].seen
    BY <1>0, MovedOn DEF WorkerPC
  <2> HIDE DEF r
  <2>2. WorkerStep(w, "put", r)
    BY <1>10 DEF PutRefused, r
  <2>3. /\ worker' \in [Workers -> WorkerRec] /\ worker'[w] = r /\ Others(w)
        /\ worker[w].pc = "put"
    BY <2>1, <2>2, WorkerAt
  <2> QED
    BY <1>10, <2>1, <2>2, <2>3 DEF PutRefused, WorkerShape, Goes
<1> QED
  BY <1>1, <1>2, <1>3, <1>4, <1>5, <1>6, <1>7, <1>8, <1>9, <1>10 DEF Work, Faulty

-----------------------------------------------------------------------------
(* Types of the postcall side.                                             *)

\* At most one CRM skill is called for a job.
LEMMA OneSkill == CrmSkill \in Seq(Skills) /\ Len(CrmSkill) <= 1 /\ Len(CrmSkill) \in Nat
<1>1. CASE "push_disposition" \in Skills
  <2>1. CrmSkill = <<"push_disposition">>
    BY <1>1 DEF CrmSkill
  <2> QED
    BY <1>1, <2>1
<1>2. CASE "push_disposition" \notin Skills /\ "create_ticket" \in Skills
  <2>1. CrmSkill = <<"create_ticket">>
    BY <1>2 DEF CrmSkill
  <2> QED
    BY <1>2, <2>1
<1>3. CASE "push_disposition" \notin Skills /\ "create_ticket" \notin Skills
  <2>1. CrmSkill = <<>>
    BY <1>3 DEF CrmSkill
  <2> QED
    BY <2>1, EmptySeq
<1> QED
  BY <1>1, <1>2, <1>3

LEMMA JobTypeInit == JobInit => JobTypeOK
<1> SUFFICES ASSUME JobInit PROVE JobTypeOK
  OBVIOUS
<1>1. worker \in [Workers -> WorkerRec]
  BY IdleTyped DEF JobInit
<1>2. runs \in [Jobs -> Seq(Skills)]
  BY EmptySeq DEF JobInit
<1>3. /\ disp \in [suggestion : Suggestions, final : Finals, source : Sources]
      /\ newest \in [final : Finals, source : Sources]
  <2>1. /\ disp \in {[suggestion |-> "", final |-> "", source |-> ""],
                     [suggestion |-> "", final |-> FillInFinal, source |-> "live_graph"]}
        /\ newest = [Unrecorded EXCEPT !.final = disp.final, !.source = disp.source]
    BY DEF JobInit
  <2>2. disp \in [suggestion : Suggestions, final : Finals, source : Sources]
    <3>1. /\ "" \in Suggestions /\ "" \in Finals /\ "" \in Sources
          /\ FillInFinal \in Finals /\ "live_graph" \in Sources
      BY DEF Suggestions, Finals, Sources
    <3>2. CASE disp = [suggestion |-> "", final |-> "", source |-> ""]
      BY <3>1, <3>2
    <3>3. CASE disp = [suggestion |-> "", final |-> FillInFinal, source |-> "live_graph"]
      BY <3>1, <3>3
    <3> QED
      BY <2>1, <3>2, <3>3
  <2>3. newest = [final |-> disp.final, source |-> disp.source]
    BY <2>1 DEF Unrecorded
  <2> QED
    BY <2>2, <2>3
<1>4. faults \in 0 .. FaultBudget
  <2>1. faults = 0
    BY DEF JobInit
  <2> QED
    BY <2>1, JobsAssumption
<1>5. writer \in [Writers -> [pc : {"get", "put", "done"}, suggestion : Suggestions]]
  BY DEF JobInit, Suggestions
<1> QED
  BY <1>1, <1>2, <1>3, <1>4, <1>5 DEF JobInit, JobTypeOK, WorkerRec, WorkerPC

LEMMA WorkerTypes ==
  ASSUME JobTypeOK, Holds, NEW w \in Workers, Work(w) \/ Faulty(w)
  PROVE  JobTypeOK'
<1>1. worker' \in [Workers -> WorkerRec] /\ WorkerShape(w)
  BY WorkerSteps
<1>2. worker[w].job \in Jobs \cup {NoJob}
  BY DEF JobTypeOK
<1>3. jobs' \in [Jobs -> {"absent", "Queued", "Running", "Completed", "Failed"}]
  <2>1. \/ jobs' = jobs
        \/ \E i \in Jobs : jobs' = [jobs EXCEPT ![i] = "Running"]
        \/ \E state \in {"Completed", "Failed"} : jobs' = [jobs EXCEPT ![worker[w].job] = state]
    BY <1>1 DEF WorkerShape, Takes, Goes, Reads, Misses, Writes, Pushes, Drops
  <2> QED
    BY <2>1 DEF JobTypeOK
<1>4. runs' \in [Jobs -> Seq(Skills)]
  <2>1. \A j \in Jobs : runs[j] \o CrmSkill \in Seq(Skills)
    BY OneSkill, ConcatProperties DEF JobTypeOK
  <2>2. CASE Pushes(w)
    BY <2>1, <2>2 DEF Pushes, JobTypeOK
  <2>3. CASE ~Pushes(w)
    BY <1>1, <2>3 DEF JobTypeOK, WorkerShape, Takes, Goes, Reads, Misses, Writes, Drops
  <2> QED
    BY <2>2, <2>3
<1>5. UNCHANGED <<ender, writer, newest, overlap>>
  BY <1>1 DEF WorkerShape, Takes, Goes, Reads, Misses, Writes, Pushes, Drops
<1>6. stale' \subseteq {"final", "source"}
  <2>1. stale' = stale \/ stale' = stale \cup {"source"} \/ stale' = stale \cup {"final", "source"}
    BY <1>1 DEF WorkerShape, Takes, Goes, Reads, Misses, Writes, Pushes, Drops
  <2> QED
    BY <2>1 DEF JobTypeOK
<1>7. disp' \in [suggestion : Suggestions, final : Finals, source : Sources]
  <2>1. CASE PutDisposition(w)
    <3>1. Record(w) \in [suggestion : Suggestions, final : Finals, source : Sources]
      BY DEF JobTypeOK, Record
    <3>2. Upserted(Record(w)) \in [suggestion : Suggestions, final : Finals, source : Sources]
      BY <3>1 DEF JobTypeOK, Upserted
    <3> QED
      BY <2>1, <3>2 DEF PutDisposition
  <2>2. CASE ~PutDisposition(w)
    BY <2>2 DEF Work, Lease, LoadFails, Load, ThinkFails, Think, GetDisposition, PushCRM,
                Settle, Faulty, WorkerLost, GetRefused, PutRefused, SettleJob, JobTypeOK
  <2> QED
    BY <2>1, <2>2
<1>8. faults' \in 0 .. FaultBudget
  <2>1. faults' = faults \/ (faults < FaultBudget /\ faults' = faults + 1)
    BY DEF Work, Lease, LoadFails, Load, ThinkFails, Think, GetDisposition,
          PutDisposition, PushCRM, Settle, Faulty, WorkerLost, GetRefused, PutRefused, SettleJob
  <2>2. faults \in 0 .. FaultBudget
    BY DEF JobTypeOK
  <2> QED
    BY <2>1, <2>2, JobsAssumption
<1>9. abandoned' \in SUBSET Jobs
  <2>1. CASE WorkerLost(w)
    <3>1. worker[w].job \in Jobs
      BY <1>2, <2>1 DEF WorkerLost, Holds
    <3> QED
      BY <2>1, <3>1 DEF WorkerLost, JobTypeOK
  <2>2. CASE ~WorkerLost(w)
    BY <2>2 DEF Work, Lease, LoadFails, Load, ThinkFails, Think, GetDisposition,
          PutDisposition, PushCRM, Settle, Faulty, GetRefused, PutRefused, SettleJob, JobTypeOK
  <2> QED
    BY <2>1, <2>2
<1> QED
  BY <1>1, <1>3, <1>4, <1>5, <1>6, <1>7, <1>8, <1>9 DEF JobTypeOK, WorkerRec, WorkerPC

\* The transitions that end the session, and the writers of finals.
LEMMA EnderTypes ==
  ASSUME JobTypeOK, NEW e \in Enders,
         TerminalReached(e) \/ EnqueueCheck(e) \/ EnqueueInsert(e) \/ EnqueueRefused(e)
  PROVE  JobTypeOK'
<1>1. UNCHANGED <<disp, worker, writer, newest, stale, runs, abandoned>>
  BY DEF TerminalReached, EnqueueCheck, EnqueueInsert, EnqueueRefused
<1>2. ender' \in [Enders -> {"wait", "check", "insert", "done", "refused"}]
  <2>1. \E state \in {"check", "insert", "done", "refused"} :
          ender' = [ender EXCEPT ![e] = state]
    BY DEF TerminalReached, EnqueueCheck, EnqueueInsert, EnqueueRefused
  <2> QED
    BY <2>1 DEF JobTypeOK
<1>3. jobs' \in [Jobs -> {"absent", "Queued", "Running", "Completed", "Failed"}]
  <2>1. jobs' = jobs \/ \E j \in Jobs : jobs' = [jobs EXCEPT ![j] = "Queued"]
    BY DEF TerminalReached, EnqueueCheck, EnqueueInsert, EnqueueRefused
  <2> QED
    BY <2>1 DEF JobTypeOK
<1>4. overlap' \in BOOLEAN
  BY DEF TerminalReached, EnqueueCheck, EnqueueInsert, EnqueueRefused, JobTypeOK
<1>5. faults' \in 0 .. FaultBudget
  <2>1. faults' = faults \/ (faults < FaultBudget /\ faults' = faults + 1)
    BY DEF TerminalReached, EnqueueCheck, EnqueueInsert, EnqueueRefused
  <2>2. faults \in 0 .. FaultBudget
    BY DEF JobTypeOK
  <2> QED
    BY <2>1, <2>2, JobsAssumption
<1> QED
  BY <1>1, <1>2, <1>3, <1>4, <1>5 DEF JobTypeOK

LEMMA WriterTypes ==
  ASSUME JobTypeOK, NEW p \in Writers, WriterGet(p) \/ WriterPut(p) \/ WriterRefused(p)
  PROVE  JobTypeOK'
<1> DEFINE Row == [suggestion : Suggestions, final : Finals, source : Sources]
<1>1. UNCHANGED <<jobs, ender, worker, overlap, runs, abandoned>>
  BY DEF WriterGet, WriterPut, WriterRefused
<1>2. /\ disp.suggestion \in Suggestions /\ writer[p].suggestion \in Suggestions
      /\ p \in Finals /\ p \in Sources
  BY DEF JobTypeOK, Finals, Sources
<1>3. writer' \in [Writers -> [pc : {"get", "put", "done"}, suggestion : Suggestions]]
  <2>1. CASE WriterGet(p)
    BY <1>2, <2>1 DEF WriterGet, JobTypeOK
  <2>2. CASE WriterPut(p)
    BY <2>2 DEF WriterPut, JobTypeOK
  <2>3. CASE WriterRefused(p)
    BY <2>3 DEF WriterRefused, JobTypeOK
  <2> QED
    BY <2>1, <2>2, <2>3
<1>4. /\ disp' \in Row /\ newest' \in [final : Finals, source : Sources]
      /\ stale' \subseteq {"final", "source"}
  <2>1. CASE WriterGet(p) \/ WriterRefused(p)
    BY <2>1 DEF WriterGet, WriterRefused, JobTypeOK
  <2>2. CASE WriterPut(p)
    <3>1. /\ disp' = [suggestion |-> writer[p].suggestion, final |-> p, source |-> p]
          /\ newest' = [final |-> p, source |-> p] /\ stale' = {}
      BY <2>2 DEF WriterPut
    <3> QED
      BY <1>2, <3>1
  <2> QED
    BY <2>1, <2>2
<1>5. faults' \in 0 .. FaultBudget
  <2>1. faults' = faults \/ (faults < FaultBudget /\ faults' = faults + 1)
    BY DEF WriterGet, WriterPut, WriterRefused
  <2>2. faults \in 0 .. FaultBudget
    BY DEF JobTypeOK
  <2> QED
    BY <2>1, <2>2, JobsAssumption
<1> QED
  BY <1>1, <1>3, <1>4, <1>5 DEF JobTypeOK

LEMMA JobTypes ==
  ASSUME JobTypeOK, Holds, JobStep(Enders \ {Playback})
  PROVE  JobTypeOK'
BY EnderTypes, WorkerTypes, WriterTypes DEF JobStep

-----------------------------------------------------------------------------
(* The postcall side keeps its invariant.                                  *)

\* Steps of the transitions: no worker moves, and a row may become Queued.
EnderShape(e) ==
  /\ jobs' = jobs \/ \E j \in Jobs : jobs[j] = "absent" /\ jobs' = [jobs EXCEPT ![j] = "Queued"]
  /\ UNCHANGED <<disp, worker, writer, newest, stale, runs, abandoned>>

LEMMA EnderSteps ==
  ASSUME NEW e \in Enders,
         TerminalReached(e) \/ EnqueueCheck(e) \/ EnqueueInsert(e) \/ EnqueueRefused(e)
  PROVE  EnderShape(e)
BY DEF EnderShape, TerminalReached, EnqueueCheck, EnqueueInsert, EnqueueRefused

LEMMA HoldsEnder ==
  ASSUME JobTypeOK, Holds, NEW e \in Enders, EnderShape(e)
  PROVE  Holds'
<1>1. \A j \in Jobs : jobs[j] = "Running" => jobs'[j] = "Running"
  BY DEF EnderShape, JobTypeOK
<1>2. abandoned \subseteq Jobs /\ \A w \in Workers : worker[w].job \in Jobs \cup {NoJob}
  BY DEF JobTypeOK
<1> QED
  BY <1>1, <1>2 DEF EnderShape, Holds

LEMMA HoldsWorker ==
  ASSUME JobTypeOK, Holds, NEW w \in Workers, Others(w), WorkerShape(w)
  PROVE  Holds'
<1>0. /\ jobs \in [Jobs -> {"absent", "Queued", "Running", "Completed", "Failed"}]
      /\ abandoned \subseteq Jobs /\ NoJob \notin Jobs
      /\ \A x \in Workers : worker[x].job \in Jobs \cup {NoJob}
  BY NamesDistinct DEF JobTypeOK
<1>1. ASSUME NEW j \in Jobs, Takes(w, j) PROVE Holds'
  <2>1. \A x \in Workers : worker[x].job # j
    BY <1>0, <1>1 DEF Takes, Holds
  <2>2. j \notin abandoned
    BY <1>1 DEF Takes, Holds
  <2>3. jobs'[j] = "Running" /\ \A i \in Jobs : i # j => jobs'[i] = jobs[i]
    BY <1>0, <1>1 DEF Takes
  <2>4. worker'[w].pc = "load" /\ worker'[w].job = j /\ abandoned' = abandoned /\ j # NoJob
    BY <1>0, <1>1 DEF Takes
  <2> QED
    BY <1>0, <2>1, <2>2, <2>3, <2>4 DEF Holds, Others
<1>2. CASE Goes(w) \/ Reads(w) \/ Misses(w) \/ Writes(w) \/ Pushes(w)
  <2>1. /\ worker[w].pc # "idle" /\ worker'[w].pc # "idle" /\ worker'[w].job = worker[w].job
        /\ UNCHANGED <<jobs, abandoned>>
    BY <1>2 DEF Goes, Reads, Misses, Writes, Pushes
  <2> QED
    BY <2>1 DEF Holds, Others
<1>3. CASE Drops(w)
  <2> DEFINE j == worker[w].job
  <2>1. /\ j \in Jobs /\ jobs[j] = "Running" /\ j \notin abandoned
        /\ \A x \in Workers : x # w => worker[x].job # j
    BY <1>0, <1>3 DEF Drops, Holds
  <2>2. worker'[w].pc = "idle" /\ worker'[w].job = NoJob
    BY <1>3, IdleTyped DEF Drops
  <2>3. \A i \in Jobs : i # j => jobs'[i] = jobs[i]
    BY <1>0, <1>3 DEF Drops
  <2>4. \/ abandoned' = abandoned
        \/ abandoned' = abandoned \cup {j} /\ jobs' = jobs
    BY <1>3 DEF Drops
  <2> HIDE DEF j
  <2>5. \A i \in abandoned' : jobs'[i] = "Running"
    BY <1>0, <2>1, <2>3, <2>4 DEF Holds
  <2>6. \A x \in Workers : x # w /\ worker[x].job # NoJob =>
          jobs'[worker[x].job] = "Running" /\ worker[x].job \notin abandoned'
    BY <1>0, <2>1, <2>3, <2>4 DEF Holds
  <2> QED
    BY <2>2, <2>5, <2>6 DEF Holds, Others
<1> QED
  BY <1>1, <1>2, <1>3 DEF WorkerShape

LEMMA UnpushedEnder ==
  ASSUME JobTypeOK, Unpushed, NEW e \in Enders, EnderShape(e)
  PROVE  Unpushed'
<1>1. \A j \in Jobs : jobs'[j] \in {"absent", "Queued"} => jobs[j] \in {"absent", "Queued"}
  BY DEF EnderShape, JobTypeOK
<1> QED
  BY <1>1 DEF EnderShape, Unpushed

LEMMA UnpushedWorker ==
  ASSUME JobTypeOK, Holds, Unpushed, NEW w \in Workers, Others(w), WorkerShape(w)
  PROVE  Unpushed'
<1> DEFINE Early == {"load", "think", "get", "put", "push"}
           New   == {"absent", "Queued"}
<1>0. /\ jobs \in [Jobs -> {"absent", "Queued", "Running", "Completed", "Failed"}]
      /\ runs \in [Jobs -> Seq(Skills)] /\ NoJob \notin Jobs
      /\ \A x \in Workers : worker[x].job \in Jobs \cup {NoJob}
  BY NamesDistinct DEF JobTypeOK
<1>1. ASSUME NEW j \in Jobs, Takes(w, j) PROVE Unpushed'
  <2>1. runs[j] = <<>> /\ runs' = runs
    BY <1>1 DEF Takes, Unpushed
  <2>2. \A i \in Jobs : jobs'[i] \in New => jobs[i] \in New
    BY <1>0, <1>1 DEF Takes
  <2>3. worker'[w].job = j
    BY <1>1 DEF Takes
  <2> QED
    BY <2>1, <2>2, <2>3 DEF Unpushed, Others
<1>2. CASE Goes(w) \/ Reads(w) \/ Misses(w) \/ Writes(w)
  <2>1. worker[w].pc \in Early /\ worker'[w].job = worker[w].job /\ UNCHANGED <<jobs, runs>>
    BY <1>2 DEF Goes, Reads, Misses, Writes
  <2> QED
    BY <2>1 DEF Unpushed, Others
<1>3. CASE Pushes(w)
  <2> DEFINE j == worker[w].job
  <2>1. /\ j \in Jobs /\ jobs[j] = "Running"
        /\ \A x \in Workers : x # w => worker[x].job # j
    BY <1>0, <1>3 DEF Pushes, Holds
  <2>2. runs[j] = <<>> /\ worker'[w].pc = "settle" /\ jobs' = jobs
        /\ runs' = [runs EXCEPT ![j] = @ \o CrmSkill]
    BY <1>3 DEF Pushes, Unpushed
  <2> HIDE DEF j
  <2>3. runs[j] \o CrmSkill = CrmSkill
    BY <2>2, OneSkill, ConcatEmptySeq
  <2>4. Len(runs'[j]) <= 1 /\ \A i \in Jobs : i # j => runs'[i] = runs[i]
    BY <1>0, <2>1, <2>2, <2>3, OneSkill
  <2>5. \A i \in Jobs : Len(runs'[i]) <= 1 /\ (jobs'[i] \in New => runs'[i] = <<>>)
    BY <2>1, <2>2, <2>4 DEF Unpushed
  <2>6. ASSUME NEW x \in Workers, worker'[x].pc \in Early PROVE runs'[worker'[x].job] = <<>>
    <3>1. x # w /\ worker'[x] = worker[x]
      BY <2>2, <2>6 DEF Others
    <3>2. worker[x].job \in Jobs /\ worker[x].job # j
      BY <1>0, <2>1, <2>6, <3>1 DEF Holds
    <3> QED
      BY <2>4, <2>6, <3>1, <3>2 DEF Unpushed
  <2> QED
    BY <2>5, <2>6 DEF Unpushed
<1>4. CASE Drops(w)
  <2>1. worker'[w].pc = "idle" /\ runs' = runs
    BY <1>4, IdleTyped DEF Drops
  <2>2. \A i \in Jobs : jobs'[i] \in New => jobs[i] \in New
    BY <1>0, <1>4 DEF Drops
  <2> QED
    BY <2>1, <2>2 DEF Unpushed, Others
<1> QED
  BY <1>1, <1>2, <1>3, <1>4 DEF WorkerShape

LEMMA OneOpenEnder ==
  ASSUME JobTypeOK, OneOpen, NEW e \in Enders,
         TerminalReached(e) \/ EnqueueCheck(e) \/ EnqueueInsert(e) \/ EnqueueRefused(e)
  PROVE  OneOpen'
<1>0. /\ jobs \in [Jobs -> {"absent", "Queued", "Running", "Completed", "Failed"}]
      /\ ender \in [Enders -> {"wait", "check", "insert", "done", "refused"}]
      /\ overlap \in BOOLEAN
  BY DEF JobTypeOK
<1>1. CASE TerminalReached(e) \/ EnqueueRefused(e)
  <2>1. /\ UNCHANGED <<jobs, overlap>>
        /\ \A d \in Enders : ender'[d] = "insert" => ender[d] = "insert"
    BY <1>0, <1>1 DEF TerminalReached, EnqueueRefused
  <2> QED
    BY <2>1 DEF OneOpen, Open
<1>2. CASE EnqueueCheck(e)
  <2>1. jobs' = jobs /\ (~overlap' => ~overlap /\ \A d \in Enders \ {e} : ender[d] # "insert")
    BY <1>2 DEF EnqueueCheck
  <2>2. /\ \A d \in Enders \ {e} : ender'[d] = ender[d]
        /\ ender'[e] = "insert" => \A j \in Jobs : ~Open(j)
    BY <1>0, <1>2 DEF EnqueueCheck
  <2> QED
    BY <2>1, <2>2 DEF OneOpen, Open
<1>3. CASE EnqueueInsert(e)
  <2>1. PICK j \in Jobs : jobs' = [jobs EXCEPT ![j] = "Queued"]
    BY <1>3 DEF EnqueueInsert
  <2>2. /\ overlap' = overlap /\ ender[e] = "insert" /\ ender'[e] = "done"
        /\ \A d \in Enders \ {e} : ender'[d] = ender[d]
    BY <1>0, <1>3 DEF EnqueueInsert
  <2>3. \A i \in Jobs : i # j => jobs'[i] = jobs[i]
    BY <1>0, <2>1
  <2> QED
    BY <2>2, <2>3 DEF OneOpen, Open
<1> QED
  BY <1>1, <1>2, <1>3

LEMMA OneOpenWorker ==
  ASSUME JobTypeOK, OneOpen, NEW w \in Workers, WorkerShape(w)
  PROVE  OneOpen'
<1>0. jobs \in [Jobs -> {"absent", "Queued", "Running", "Completed", "Failed"}]
  BY DEF JobTypeOK
<1>1. UNCHANGED <<ender, overlap>>
  BY DEF WorkerShape, Takes, Goes, Reads, Misses, Writes, Pushes, Drops
<1>2. ASSUME NEW j \in Jobs, Open(j)' PROVE Open(j)
  <2>1. CASE \E i \in Jobs : Takes(w, i)
    BY <1>0, <1>2, <2>1 DEF Takes, Open
  <2>2. CASE Drops(w)
    BY <1>0, <1>2, <2>2 DEF Drops, Open
  <2>3. CASE Goes(w) \/ Reads(w) \/ Misses(w) \/ Writes(w) \/ Pushes(w)
    BY <1>2, <2>3 DEF Goes, Reads, Misses, Writes, Pushes, Open
  <2> QED
    BY <2>1, <2>2, <2>3 DEF WorkerShape
<1> QED
  BY <1>1, <1>2 DEF OneOpen

LEMMA WritesNewestWorker ==
  ASSUME JobTypeOK, WritesNewest, NEW w \in Workers, Others(w), WorkerShape(w)
  PROVE  WritesNewest'
<1>1. UNCHANGED <<writer, newest>>
  BY DEF WorkerShape, Takes, Goes, Reads, Misses, Writes, Pushes, Drops
<1>2. ASSUME UNCHANGED <<disp, stale>>, worker'[w].pc # "put",
             \A p \in Writers : writer[p].pc # "done" => \A s \in worker'[w].seen : s.final # p
      PROVE  WritesNewest'
  BY <1>1, <1>2 DEF WritesNewest, LastFinalWins, Others
<1>3. CASE (\E j \in Jobs : Takes(w, j)) \/ Drops(w)
  <2>1. worker'[w].pc \in {"load", "idle"} /\ worker'[w].seen = {} /\ UNCHANGED <<disp, stale>>
    BY <1>3, IdleTyped DEF Takes, Drops
  <2> QED
    BY <1>2, <2>1
<1>4. CASE Goes(w) \/ Pushes(w)
  <2>1. /\ worker'[w].pc # "put" /\ worker'[w].seen = worker[w].seen
        /\ UNCHANGED <<disp, stale>>
    BY <1>4 DEF Goes, Pushes
  <2> QED
    BY <1>2, <2>1 DEF WritesNewest
<1>5. CASE Reads(w)
  <2>1. /\ worker'[w].seen = {newest} /\ worker'[w].final = disp.final
        /\ (disp.final # "" => worker'[w].source = disp.source) /\ UNCHANGED <<disp, stale>>
    BY <1>5 DEF Reads
  <2> QED
    BY <1>1, <2>1 DEF WritesNewest, LastFinalWins, Others
<1>6. CASE Writes(w)
  <2>1. worker'[w].pc = "push" /\ worker'[w].seen = worker[w].seen
    BY <1>6 DEF Writes
  <2>2. LastFinalWins'
    <3> SUFFICES ASSUME "final" \notin stale' PROVE LastFinalWins'
      BY DEF LastFinalWins
    <3>1. /\ "final" \notin stale /\ disp.final = newest.final
          /\ "source" \notin stale' => "source" \notin stale /\ newest \in worker[w].seen
          /\ newest \notin worker[w].seen => worker[w].final = ""
      BY <1>6 DEF Writes, WritesNewest, LastFinalWins
    <3>2. newest \in worker[w].seen =>
            /\ worker[w].final = newest.final
            /\ "source" \notin stale /\ worker[w].final # "" => worker[w].source = newest.source
      BY <1>6, <3>1 DEF Writes, WritesNewest
    <3>3. disp'.final = newest.final /\ disp'.source = worker[w].source
      BY <1>6, <3>1, <3>2 DEF Writes
    <3> QED
      BY <1>1, <3>1, <3>2, <3>3 DEF LastFinalWins
  <2>3. stale \subseteq stale'
    BY <1>6 DEF Writes
  <2> QED
    BY <1>1, <2>1, <2>2, <2>3 DEF WritesNewest, Others
<1>7. CASE Misses(w)
  <2>1. worker'[w].seen = {} /\ UNCHANGED <<disp, stale>>
    BY <1>7 DEF Misses
  <2> QED
    BY <1>1, <2>1 DEF WritesNewest, LastFinalWins, Others
<1> QED
  BY <1>3, <1>4, <1>5, <1>6, <1>7 DEF WorkerShape

LEMMA WritesNewestWriter ==
  ASSUME JobTypeOK, WritesNewest, NEW p \in Writers,
         WriterGet(p) \/ WriterPut(p) \/ WriterRefused(p)
  PROVE  WritesNewest'
<1>0. writer \in [Writers -> [pc : {"get", "put", "done"}, suggestion : Suggestions]]
  BY DEF JobTypeOK
<1>1. worker' = worker
  BY DEF WriterGet, WriterPut, WriterRefused
<1>2. writer[p].pc # "done"
  BY DEF WriterGet, WriterPut, WriterRefused
<1>3. \A q \in Writers : q # p => writer'[q] = writer[q]
  BY <1>0 DEF WriterGet, WriterPut, WriterRefused
<1>4. CASE WriterGet(p) \/ WriterRefused(p)
  <2>1. UNCHANGED <<disp, newest, stale>>
    BY <1>4 DEF WriterGet, WriterRefused
  <2> QED
    BY <1>1, <1>2, <1>3, <2>1 DEF WritesNewest, LastFinalWins
<1>5. CASE WriterPut(p)
  <2>1. /\ writer'[p].pc = "done" /\ newest'.final = p /\ newest'.source = p
        /\ disp'.final = p /\ disp'.source = p
    BY <1>0, <1>5 DEF WriterPut
  <2>2. \A w \in Workers : newest' \notin worker'[w].seen
    BY <1>1, <1>2, <2>1 DEF WritesNewest
  <2> QED
    BY <1>1, <1>3, <2>1, <2>2 DEF WritesNewest, LastFinalWins
<1> QED
  BY <1>4, <1>5

LEMMA JobInvInit == JobInit => JobInv
<1> SUFFICES ASSUME JobInit PROVE JobInv
  OBVIOUS
<1>1. \A w \in Workers : worker[w].pc = "idle" /\ worker[w].job = NoJob /\ worker[w].seen = {}
  BY DEF JobInit, Idle
<1>2. Holds
  BY <1>1 DEF JobInit, Holds
<1>3. Unpushed
  <2>1. \A j \in Jobs : runs[j] = <<>>
    BY DEF JobInit
  <2>2. Len(<<>>) <= 1
    OBVIOUS
  <2> QED
    <3>1. \A j \in Jobs : Len(runs[j]) <= 1
      BY <2>1, <2>2
    <3> QED
      BY <1>1, <2>1, <3>1 DEF Unpushed
<1>4. OneOpen
  BY DEF JobInit, OneOpen, Open
<1>5. WritesNewest
  <2>1. newest.final = disp.final /\ newest.source = disp.source
    BY DEF JobInit, Unrecorded
  <2>2. disp.final \in {"", FillInFinal}
    <3>1. \/ disp = [suggestion |-> "", final |-> "", source |-> ""]
          \/ disp = [suggestion |-> "", final |-> FillInFinal, source |-> "live_graph"]
      BY DEF JobInit
    <3>2. CASE disp = [suggestion |-> "", final |-> "", source |-> ""]
      BY <3>2
    <3>3. CASE disp = [suggestion |-> "", final |-> FillInFinal, source |-> "live_graph"]
      BY <3>3
    <3> QED
      BY <3>1, <3>2, <3>3
  <2> QED
    BY <1>1, <2>1, <2>2, NamesDistinct DEF WritesNewest, LastFinalWins
<1> QED
  BY <1>2, <1>3, <1>4, <1>5 DEF JobInv

LEMMA JobInvEnder ==
  ASSUME JobTypeOK, JobInv, NEW e \in Enders,
         TerminalReached(e) \/ EnqueueCheck(e) \/ EnqueueInsert(e) \/ EnqueueRefused(e)
  PROVE  JobInv'
<1>1. EnderShape(e)
  BY EnderSteps
<1>2. WritesNewest'
  BY <1>1 DEF EnderShape, JobInv, WritesNewest, LastFinalWins
<1> QED
  BY <1>1, <1>2, HoldsEnder, UnpushedEnder, OneOpenEnder DEF JobInv

LEMMA JobInvStep ==
  ASSUME JobTypeOK, JobInv, JobStep(Enders \ {Playback})
  PROVE  JobInv'
<1>1. ASSUME NEW w \in Workers, Work(w) \/ Faulty(w) PROVE JobInv'
  <2>1. Others(w) /\ WorkerShape(w)
    BY <1>1, WorkerSteps
  <2> QED
    BY <2>1, HoldsWorker, UnpushedWorker, OneOpenWorker, WritesNewestWorker DEF JobInv
<1>2. ASSUME NEW p \in Writers, WriterGet(p) \/ WriterPut(p) \/ WriterRefused(p) PROVE JobInv'
  <2>1. UNCHANGED <<jobs, ender, worker, overlap, runs, abandoned>>
    BY <1>2 DEF WriterGet, WriterPut, WriterRefused
  <2>2. Holds' /\ Unpushed' /\ OneOpen'
    BY <2>1 DEF JobInv, Holds, Unpushed, OneOpen, Open
  <2> QED
    BY <1>2, <2>2, WritesNewestWriter DEF JobInv
<1> QED
  BY <1>1, <1>2, JobInvEnder DEF JobStep

LEMMA JobInvStutter ==
  ASSUME JobInv, UNCHANGED <<jobs, ender, disp, worker, writer, newest, overlap, stale, runs,
                             abandoned>>
  PROVE  JobInv'
<1>1. Holds'
  BY DEF JobInv, Holds
<1>2. Unpushed'
  BY DEF JobInv, Unpushed
<1>3. OneOpen'
  BY DEF JobInv, OneOpen, Open
<1>4. WritesNewest'
  BY DEF JobInv, WritesNewest, LastFinalWins
<1> QED
  BY <1>1, <1>2, <1>3, <1>4 DEF JobInv

-----------------------------------------------------------------------------
(* The playback side.                                                      *)
\* Whatever the playback side does, the postcall side sees a session that has
\* ended, one failure more, or nothing.
LEMMA PlaySees ==
  ASSUME JobTypeOK, JobInv, Play \/ Feed \/ PbLost
  PROVE  JobTypeOK' /\ JobInv'
<1>1. CASE PbCompleted
  <2>1. TerminalReached(Playback) /\ Playback \in Enders
    BY <1>1, PlaybackAssumption DEF PbCompleted
  <2> QED
    BY <2>1, EnderTypes, JobInvEnder
<1>2. CASE ~PbCompleted
  <2>1. /\ UNCHANGED <<jobs, ender, disp, worker, writer, newest, overlap, stale, runs, abandoned>>
        /\ faults' = faults \/ (faults < FaultBudget /\ faults' = faults + 1)
    <3>1. CASE Play
      BY <1>2, <3>1 DEF Play, PbLease, PbLoadFails, PbStart, PbSession, PbOpenFails, PbOpen,
         PbHear, PbTold, PbDrained, PbCut, PbStop, PbSettle, PbFailed, PlayStep, jobVars
    <3>2. CASE Feed
      BY <3>2 DEF Feed, ReadFrame, ReadEnd, Pump, PumpFrame, PumpStop, PumpGone, PumpDrained,
         jobVars
    <3>3. CASE PbLost
      BY <3>3 DEF PbLost
    <3> QED
      BY <3>1, <3>2, <3>3
  <2>2. faults' \in 0 .. FaultBudget
    <3>1. faults \in 0 .. FaultBudget
      BY DEF JobTypeOK
    <3> QED
      BY <2>1, <3>1, JobsAssumption
  <2>3. JobTypeOK'
    BY <2>1, <2>2 DEF JobTypeOK
  <2> QED
    BY <2>1, <2>3, JobInvStutter
<1> QED
  BY <1>1, <1>2

\* What a step of the playback worker touches, and what it tells.
LEMMA PlayTypesStep ==
  ASSUME PlayTypeOK, Play \/ Feed \/ PbLost
  PROVE  PlayTypeOK'
<1>0. TapCap \in Nat \ {0}
  BY PlaybackAssumption
<1>1. CASE PbHear
  <2>1. tap' \in 0 .. TapCap
    BY <1>0, <1>1 DEF PbHear, PlayTypeOK
  <2> QED
    BY <1>1, <2>1 DEF PbHear, PlayStep, fileVars, PlayTypeOK
<1>2. CASE Play /\ ~PbHear
  <2>1. UNCHANGED <<file, chan, stopSent, tap, told, heard, published>>
    BY <1>2 DEF Play, PbLease, PbLoadFails, PbStart, PbSession, PbOpenFails, PbOpen, PbTold,
       PbDrained, PbCut, PbStop, PbSettle, PbCompleted, PbFailed, fileVars, tapVars
  <2>2. /\ pc' \in {"idle", "load", "session", "open", "listen", "drain", "stop", "settle", "row"}
        /\ job' \in {job, "Running", "Completed", "Failed"}
        /\ row' \in {row, "Running", "Completed", "Failed"}
    BY <1>2 DEF Play, PbLease, PbLoadFails, PbStart, PbSession, PbOpenFails, PbOpen, PbTold,
       PbDrained, PbCut, PbStop, PbSettle, PbCompleted, PbFailed, PlayStep
  <2>3. /\ actor' \in {actor, "live", "stopped"} /\ pump' \in {pump, "pump", "done"}
        /\ cut' \in {cut, "load", "open", "cut"}
    BY <1>2 DEF Play, PbLease, PbLoadFails, PbStart, PbSession, PbOpenFails, PbOpen, PbTold,
       PbDrained, PbCut, PbStop, PbSettle, PbCompleted, PbFailed, fileVars
  <2> QED
    BY <2>1, <2>2, <2>3 DEF PlayTypeOK
<1>3. CASE Feed
  <2>1. UNCHANGED <<job, pc, row, actor, heard, cut>>
    BY <1>3 DEF Feed, ReadFrame, ReadEnd, Pump, PumpFrame, PumpStop, PumpGone, PumpDrained,
       tapVars
  <2>2. /\ stopSent' \in {stopSent, "pending", "taken"} /\ pump' \in {pump, "drain", "done"}
        /\ (told' = told \/ told' = TRUE) /\ (published' = published \/ published' = TRUE)
    BY <1>3 DEF Feed, ReadFrame, ReadEnd, Pump, PumpFrame, PumpStop, PumpGone, PumpDrained,
       Publish, tapVars
  <2>3. file' \in Nat /\ chan' \in Nat /\ tap' \in 0 .. TapCap
    BY <1>0, <1>3 DEF Feed, ReadFrame, ReadEnd, Pump, PumpFrame, PumpStop, PumpGone, PumpDrained,
       Publish, tapVars, PlayTypeOK
  <2>4. told' \in BOOLEAN /\ published' \in BOOLEAN
    BY <2>2 DEF PlayTypeOK
  <2>5. /\ stopSent' \in {"no", "pending", "taken"} /\ pump' \in {"none", "pump", "drain", "done"}
    BY <2>2 DEF PlayTypeOK
  <2> QED
    BY <2>1, <2>3, <2>4, <2>5 DEF PlayTypeOK
<1>4. CASE PbLost
  BY <1>4 DEF PbLost, tapVars, PlayTypeOK
<1> QED
  BY <1>1, <1>2, <1>3, <1>4

\* The frames are published before the pump ends, and the worker that has been
\* told waits for that.
LEMMA ListenedStep ==
  ASSUME PlayTypeOK, Listened, Play \/ Feed \/ PbLost
  PROVE  Listened'
<1>0. TapCap \in Nat \ {0} /\ tap \in Nat /\ heard \in BOOLEAN /\ published \in BOOLEAN
  BY PlaybackAssumption DEF PlayTypeOK
<1>1. CASE PbLease \/ PbStart \/ PbSession \/ PbTold
  BY <1>1 DEF PbLease, PbStart, PbSession, PbTold, PlayStep, fileVars, tapVars, Listened
<1>2. CASE PbLoadFails \/ PbOpenFails \/ PbCut
  BY <1>2 DEF PbLoadFails, PbOpenFails, PbCut, PlayStep, fileVars, tapVars, Listened
<1>3. CASE PbOpen \/ PbStop
  BY <1>3 DEF PbOpen, PbStop, PlayStep, tapVars, Listened
<1>4. CASE PbDrained
  BY <1>4 DEF PbDrained, PlayStep, fileVars, tapVars, Listened
<1>5. CASE PbSettle
  BY <1>0, <1>5 DEF PbSettle, PlayStep, fileVars, tapVars, Listened
<1>6. CASE PbCompleted \/ PbFailed
  BY <1>6 DEF PbCompleted, PbFailed, PlayStep, fileVars, tapVars, Listened
<1>7. CASE PbHear
  BY <1>7 DEF PbHear, PlayStep, fileVars, Listened
<1>8. CASE PbLost
  BY <1>8 DEF PbLost, tapVars, Listened
<1>9. CASE ReadFrame \/ ReadEnd
  BY <1>9 DEF ReadFrame, ReadEnd, tapVars, Listened
<1>10. CASE PumpFrame
  <2>1. pump # "done" /\ tap' > 0 /\ UNCHANGED <<job, pc, heard, cut, pump>>
    BY <1>0, <1>10 DEF PumpFrame, Publish
  <2> QED
    BY <2>1 DEF Listened
<1>11. CASE PumpStop
  BY <1>11 DEF PumpStop, Listened
<1>12. CASE PumpGone \/ PumpDrained
  BY <1>12 DEF PumpGone, PumpDrained, tapVars, Listened
<1> QED
  BY <1>1, <1>2, <1>3, <1>4, <1>5, <1>6, <1>7, <1>8, <1>9, <1>10, <1>11, <1>12
     DEF Play, Feed, Pump

LEMMA IInvInit == Init => IInv
<1> SUFFICES ASSUME Init PROVE IInv
  OBVIOUS
<1>1. JobTypeOK /\ JobInv
  BY JobTypeInit, JobInvInit DEF Init
<1>2. PlayTypeOK
  <2>1. file \in Nat /\ chan \in Nat /\ tap \in 0 .. TapCap
    BY PlaybackAssumption DEF Init
  <2> QED
    BY <2>1 DEF Init, PlayTypeOK
<1>3. Listened
  BY DEF Init, Listened
<1> QED
  BY <1>1, <1>2, <1>3 DEF IInv, TypeOK

LEMMA IInvStep == IInv /\ [Next]_vars => IInv'
<1> SUFFICES ASSUME IInv, [Next]_vars PROVE IInv'
  OBVIOUS
<1>0. JobTypeOK /\ PlayTypeOK /\ JobInv /\ Listened /\ Holds
  BY DEF IInv, TypeOK, JobInv
<1>1. CASE JobStep(Enders \ {Playback}) /\ UNCHANGED playVars
  <2>1. PlayTypeOK' /\ Listened'
    BY <1>0, <1>1 DEF playVars, PlayTypeOK, Listened
  <2> QED
    BY <1>0, <1>1, <2>1, JobTypes, JobInvStep DEF IInv, TypeOK
<1>2. CASE Play \/ Feed \/ PbLost
  BY <1>0, <1>2, PlaySees, PlayTypesStep, ListenedStep DEF IInv, TypeOK
<1>3. CASE UNCHANGED vars
  <2>1. JobTypeOK'
    BY <1>0, <1>3 DEF vars, jobVars, JobTypeOK
  <2>2. JobInv'
    BY <1>0, <1>3, JobInvStutter DEF vars, jobVars
  <2>3. PlayTypeOK' /\ Listened'
    BY <1>0, <1>3 DEF vars, playVars, PlayTypeOK, Listened
  <2> QED
    BY <2>1, <2>2, <2>3 DEF IInv, TypeOK
<1> QED
  BY <1>1, <1>2, <1>3 DEF Next

LEMMA Invariant == Spec => []IInv
BY IInvInit, IInvStep, PTL DEF Spec

-----------------------------------------------------------------------------
\* Every row, worker, writer and goroutine stays in the states the handlers of
\* postcall.go and playback.go know, the tap never holds more than it has room
\* for, and no more failures happen than FaultBudget grants.
THEOREM PlaybackTypes == Spec => []TypeOK
BY Invariant, PTL DEF IInv

\* LeaseNextPostcallJob takes Queued rows only and UpdatePostcallJob never
\* requeues one: whatever number of workers and terminal transitions there is,
\* and wherever a worker dies, a job has one worker and makes one CRM call; and
\* unless two enqueues overlapped the session has one open job.
THEOREM JobRunOnce == Spec => []RunOnce
<1>1. IInv => RunOnce
  BY DEF IInv, JobInv, Holds, Unpushed, OneOpen, RunOnce
<1> QED
  BY <1>1, Invariant, PTL

\* The final a Tool or an operator has recorded last stands, for any number of
\* writers and workers, unless a worker that had read another before wrote that
\* back after: also beside a worker whose read was refused, because the upsert
\* keeps the final.  Its source stands with it, unless the worker that wrote had
\* read before or had been refused.
THEOREM FinalStands == Spec => []LastFinalWins
<1>1. IInv => LastFinalWins
  BY DEF IInv, JobInv, WritesNewest
<1> QED
  BY <1>1, Invariant, PTL

\* However long the file is and however small the tap: a playback job that its
\* worker has not cut short fails only when no frame reached the bus, although
\* the end of the file overtakes the last frames in Feeder and in the pump.
THEOREM FramesHeard == Spec => []NoFrameUnheard
<1>1. IInv => NoFrameUnheard
  BY DEF IInv, Listened, NoFrameUnheard
<1> QED
  BY <1>1, Invariant, PTL
=============================================================================
