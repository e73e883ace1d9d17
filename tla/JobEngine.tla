------------------------------ MODULE JobEngine ------------------------------
(***************************************************************************)
(* The server's render-job engine: the jobs table, the scheduler, the      *)
(* heartbeat and result endpoints the Agents call, the job API the users   *)
(* call, the idempotency records and the file-cleanup records.             *)
(*                                                                         *)
(* The server is one Node process over a synchronous SQLite binding, so a  *)
(* handler that does not await runs without interruption: every handler    *)
(* here is one action.  Agents are not modelled in this module: a          *)
(* heartbeat may report any metrics and any set of running jobs, a result  *)
(* may come from any worker for any job.  Farm.tla adds the Agents.        *)
(*                                                                         *)
(* Time is abstracted to two facts the code tests: whether a worker's last *)
(* heartbeat is younger than 20 s (online) and whether a job's last        *)
(* progress is younger than 30 s (its lease).                              *)
(***************************************************************************)
EXTENDS Integers, FiniteSets

CONSTANTS
  Workers,     \* paired workstations, numbered in the order of their names
  Gpus,        \* the GPU indices a worker may report
  NoGpu,       \* gpu_slot = NULL: the single unit of a worker without GPUs
  NoUnit,      \* worker_id = gpu_slot = NULL: a job with no unit
  Kinds,       \* what a job needs of a worker: its type and its software
  Reports,     \* the metrics payloads a heartbeat may carry
  NoReport,    \* nothing in the metrics cache
  Inputs,      \* the validated bodies of POST /api/jobs
  Keys,        \* (user, Idempotency-Key) pairs
  MaxJobs,     \* bound on the ids ever issued
  MaxRetries   \* bound on retry_count

NoJob  == 0
JobIds == 1..MaxJobs
Units  == [worker: Workers, gpu: Gpus \cup {NoGpu}]

InputType ==
  [kind: Kinds, priority: Int, depends_on: JobIds \cup {NoJob}, upload: BOOLEAN]

\* runs: the kinds the worker can take (capabilities and software versions);
\* gpus: the reported GPUs; hot: those at or above GPU_THRESHOLD_PERCENT;
\* loaded: CPU or memory at or above its threshold.
ReportType ==
  [runs: SUBSET Kinds, gpus: SUBSET Gpus, hot: SUBSET Gpus, loaded: BOOLEAN]

ASSUME EngineAssumption ==
  /\ Workers \subseteq Nat
  /\ Gpus \subseteq Nat
  /\ NoGpu \notin Gpus
  /\ NoGpu \in Int
  /\ NoUnit \notin Units
  /\ Reports \subseteq ReportType
  /\ NoReport \notin Reports
  /\ Inputs \subseteq InputType
  /\ MaxJobs \in Nat
  /\ MaxRetries \in Nat

Statuses == {"QUEUED", "ASSIGNED", "RUNNING", "COMPLETED", "FAILED", "CANCELLED"}
TERMINAL_STATUSES == {"COMPLETED", "FAILED", "CANCELLED"}
Busy     == {"ASSIGNED", "RUNNING"}
Settled  == {"COMPLETED", "FAILED"}   \* statuses whose files may be released

JobRow     == [input: Inputs, status: Statuses, unit: Units \cup {NoUnit},
               leased: BOOLEAN, retry_count: 0..MaxRetries]
CleanupRow == [status: Statuses, claimed: BOOLEAN]
RequestRow == [input: Inputs, job: JobIds]

VARIABLES
  jobs,         \* table jobs: live id -> row
  nextId,       \* AUTOINCREMENT: the next id, never reused
  cleanup,      \* table job_file_cleanup: job id -> row
  requests,     \* table job_requests: key -> row, kept after the job is gone
  online,       \* per worker: last_seen is recent
  metrics,      \* per worker: the cached report, lost when the server restarts
  jobs_enabled  \* per worker: the admin's switch

jobVars    == <<jobs, nextId>>
workerVars == <<online, metrics, jobs_enabled>>
vars       == <<jobs, nextId, cleanup, requests, online, metrics, jobs_enabled>>

------------------------------------------------------------------------------
(* The scheduler.                                                          *)

\* The units of a worker with report r: one per GPU, or one without a GPU.
workerUnits(w, r) ==
  {u \in Units : u.worker = w /\ IF r.gpus = {} THEN u.gpu = NoGpu ELSE u.gpu \in r.gpus}

\* The units findAssignment accepts for a job of this kind.
Eligible(kind, on, met, busy) ==
  {u \in Units :
     /\ on[u.worker]
     /\ jobs_enabled[u.worker]
     /\ met[u.worker] # NoReport
     /\ kind \in met[u.worker].runs
     /\ ~met[u.worker].loaded
     /\ u \in workerUnits(u.worker, met[u.worker])
     /\ u \notin busy
     /\ u.gpu \notin met[u.worker].hot}

\* Workers are tried in name order, the units of a worker in GPU order.
NotAfter(u, v) ==
  \/ u.worker < v.worker
  \/ u.worker = v.worker /\ u.gpu <= v.gpu

\* The unit findAssignment returns out of a set of eligible ones.
findAssignment(u, eligible) ==
  \/ eligible = {} /\ u = NoUnit
  \/ u \in eligible /\ \A v \in eligible : NotAfter(u, v)

\* The loop's order: ORDER BY priority DESC, id ASC.
Ahead(tbl, i, j) ==
  \/ tbl[i].input.priority > tbl[j].input.priority
  \/ tbl[i].input.priority = tbl[j].input.priority /\ i < j

isDependencySatisfied(tbl, j) ==
  LET d == tbl[j].input.depends_on
  IN  d = NoJob \/ (d \in DOMAIN tbl /\ tbl[d].status = "COMPLETED")

Ready(tbl) ==
  {j \in DOMAIN tbl : tbl[j].status = "QUEUED" /\ isDependencySatisfied(tbl, j)}

BusyUnits(tbl) == {tbl[j].unit : j \in {k \in DOMAIN tbl : tbl[k].status \in Busy}}

\* Mutant: no lease, only the worker's silence.
StaleWorkerOnly(row, on) ==
  row.status = "RUNNING" /\ row.unit # NoUnit /\ ~on[row.unit.worker]

\* Whether a RUNNING row is one failStaleRunningJobs fails.
Stale(row, on) ==
  /\ row.status = "RUNNING"
  /\ row.unit # NoUnit
  /\ ~on[row.unit.worker] \/ ~row.leased

failStaleRunningJobs(tbl, on) ==
  [j \in DOMAIN tbl |->
     IF Stale(tbl[j], on) THEN [tbl[j] EXCEPT !.status = "FAILED"] ELSE tbl[j]]

\* Mutant: the busy set is not updated inside the loop.
TakenAtStart(tbl, asg, j) == BusyUnits(tbl)

\* The units already gone when the loop reaches job j under assignment asg.
TakenBefore(tbl, asg, j) ==
  BusyUnits(tbl) \cup {asg[i] : i \in {k \in Ready(tbl) : Ahead(tbl, k, j)}}

\* What the loop of runScheduler computes, stated without the loop: every
\* ready job gets its first eligible unit, given the jobs ahead of it.
\* (SchedulerLoop.tla checks this against the loop itself.)
Assignments(tbl, on, met) ==
  {asg \in [Ready(tbl) -> Units \cup {NoUnit}] :
     \A j \in Ready(tbl) :
       findAssignment(asg[j],
                      Eligible(tbl[j].input.kind, on, met, TakenBefore(tbl, asg, j)))}

Assign(tbl, asg) ==
  [j \in DOMAIN tbl |->
     IF j \in Ready(tbl) /\ asg[j] # NoUnit
     THEN [tbl[j] EXCEPT !.status = "ASSIGNED", !.unit = asg[j]]
     ELSE tbl[j]]

\* The tables a run of the scheduler may leave (there is exactly one).
runScheduler(tbl, on, met) ==
  LET swept == failStaleRunningJobs(tbl, on)
  IN  {Assign(swept, asg) : asg \in Assignments(swept, on, met)}

------------------------------------------------------------------------------
(* The job API: users and administrators.                                  *)

NewJob(input) ==
  [input |-> input, status |-> "QUEUED", unit |-> NoUnit,
   leased |-> FALSE, retry_count |-> 0]

\* POST /api/jobs answers 404 when the dependency is unknown.
Accepted(input) == input.depends_on \in DOMAIN jobs \cup {NoJob}

InsertJob(input) ==
  /\ nextId \in JobIds
  /\ nextId' = nextId + 1
  /\ jobs' \in runScheduler([j \in DOMAIN jobs \cup {nextId} |->
                               IF j = nextId THEN NewJob(input) ELSE jobs[j]],
                            online, metrics)

\* POST /api/jobs without an Idempotency-Key.
CreateJob(input) ==
  /\ Accepted(input)
  /\ InsertJob(input)
  /\ UNCHANGED <<cleanup, requests, workerVars>>

\* POST /api/jobs with a key seen for the first time.
CreateJobOnce(key, input) ==
  /\ Accepted(input)
  /\ key \notin DOMAIN requests
  /\ InsertJob(input)
  /\ requests' = [k \in DOMAIN requests \cup {key} |->
                    IF k = key THEN [input |-> input, job |-> nextId] ELSE requests[k]]
  /\ UNCHANGED <<cleanup, workerVars>>

\* The same request again while its job exists: the job is returned and the
\* scheduler runs.  Any other reuse of a key answers 409 and changes nothing.
RepeatCreate(key, input) ==
  /\ Accepted(input)
  /\ key \in DOMAIN requests
  /\ requests[key].input = input
  /\ requests[key].job \in DOMAIN jobs
  /\ jobs' \in runScheduler(jobs, online, metrics)
  /\ UNCHANGED <<nextId, cleanup, requests, workerVars>>

CancelJob(id) ==
  /\ jobs[id].status \notin TERMINAL_STATUSES
  /\ jobs' = [jobs EXCEPT ![id].status = "CANCELLED"]
  /\ UNCHANGED <<nextId, cleanup, requests, workerVars>>

Claimed(id) == id \in DOMAIN cleanup /\ cleanup[id].claimed

Requeued(row) ==
  [row EXCEPT !.status = "QUEUED", !.unit = NoUnit, !.retry_count = @ + 1]

\* Mutant: a retry does not look at the cleanup claim.
RetryUnclaimed(id) ==
  /\ jobs[id].status = "FAILED"
  /\ jobs[id].retry_count < MaxRetries
  /\ jobs' \in runScheduler([jobs EXCEPT ![id] = Requeued(@)], online, metrics)
  /\ UNCHANGED <<nextId, cleanup, requests, workerVars>>

\* POST /api/jobs/:id/retry.  A job found QUEUED passes the route's check and
\* only runs the scheduler.
RetryJob(id) ==
  /\ \/ /\ jobs[id].status = "FAILED"
        /\ ~Claimed(id)
        /\ jobs[id].retry_count < MaxRetries
        /\ jobs' \in runScheduler([jobs EXCEPT ![id] = Requeued(@)], online, metrics)
     \/ /\ jobs[id].status = "QUEUED"
        /\ jobs' \in runScheduler(jobs, online, metrics)
  /\ UNCHANGED <<nextId, cleanup, requests, workerVars>>

\* Upserts the cleanup rows of the upload jobs among ids.
retainCleanup(ids) ==
  LET kept == {j \in ids : jobs[j].input.upload}
  IN  [j \in DOMAIN cleanup \cup kept |->
         IF j \in kept THEN [status  |-> jobs[j].status, claimed |-> Claimed(j)]
                       ELSE cleanup[j]]

RemoveRows(ids) ==
  /\ jobs' = [j \in DOMAIN jobs \ ids |-> jobs[j]]
  /\ cleanup' = retainCleanup(ids)

DependsOn(i, id) == i \in DOMAIN jobs /\ jobs[i].input.depends_on = id

\* Mutant: without AUTOINCREMENT the highest id is issued again.
DeleteJobFreeingId(id) ==
  /\ jobs[id].status \in TERMINAL_STATUSES
  /\ ~\E i \in DOMAIN jobs : DependsOn(i, id)
  /\ RemoveRows({id})
  /\ nextId' = IF id = nextId - 1 THEN id ELSE nextId
  /\ UNCHANGED <<requests, workerVars>>

\* DELETE /api/jobs/:id.  The foreign key on depends_on refuses the DELETE
\* while a row refers to it, and the transaction rolls back.
DeleteJob(id) ==
  /\ jobs[id].status \in TERMINAL_STATUSES
  /\ ~\E i \in DOMAIN jobs : DependsOn(i, id)
  /\ RemoveRows({id})
  /\ UNCHANGED <<nextId, requests, workerVars>>

Terminal == {j \in DOMAIN jobs : jobs[j].status \in TERMINAL_STATUSES}

\* Mutant: the batch deletes from the lowest id up.
LeftAscending(id) == {i \in DOMAIN jobs : i \notin Terminal \/ i > id}

\* DELETE /api/jobs deletes the terminal jobs from the highest id down: when
\* it comes to job id, the rows left are the active ones and the lower ids.
LeftWhenReached(id) == {i \in DOMAIN jobs : i \notin Terminal \/ i < id}

\* Mutant: PRAGMA foreign_keys is off.
NoForeignKeys == TRUE

\* One foreign-key failure rolls the whole batch back.
HistoryDeletable ==
  \A id \in Terminal : ~\E i \in LeftWhenReached(id) : DependsOn(i, id)

ClearHistory ==
  /\ Terminal # {}
  /\ HistoryDeletable
  /\ RemoveRows(Terminal)
  /\ UNCHANGED <<nextId, requests, workerVars>>

\* POST /api/jobs/:id/file-cleanup with claim = true, for the job's own project.
ClaimCleanup(id) ==
  /\ \/ /\ id \in DOMAIN jobs
        /\ jobs[id].input.upload
        /\ jobs[id].status \in Settled
        /\ cleanup' = [retainCleanup({id}) EXCEPT ![id].claimed = TRUE]
     \/ /\ id \in DOMAIN cleanup \ DOMAIN jobs
        /\ cleanup[id].status \in Settled
        /\ cleanup' = [cleanup EXCEPT ![id].claimed = TRUE]
  /\ UNCHANGED <<jobVars, requests, workerVars>>

------------------------------------------------------------------------------
(* The endpoints the Agents call.                                          *)

\* Mutant: the job was once assigned to the worker.
AssignedHere(id, w) ==
  id \in DOMAIN jobs /\ jobs[id].unit # NoUnit /\ jobs[id].unit.worker = w

isJobStillRunning(id, w) ==
  /\ id \in DOMAIN jobs
  /\ jobs[id].status = "RUNNING"
  /\ jobs[id].unit # NoUnit
  /\ jobs[id].unit.worker = w

\* Mutant: only a cancellation is passed on.
cancelledIds(w, running) ==
  {j \in running : j \in DOMAIN jobs /\ jobs[j].status = "CANCELLED"}

\* The jobs the heartbeat's reply tells the Agent to stop.
cancelJobIds(w, running) == {j \in running : ~isJobStillRunning(j, w)}

\* updateJobProgress, for every reported job that is still the worker's.
Progressed(w, running) ==
  [j \in DOMAIN jobs |->
     IF j \in running /\ isJobStillRunning(j, w) THEN [jobs[j] EXCEPT !.leased = TRUE]
                                                 ELSE jobs[j]]

\* Mutant: the reply does not leave out what the Agent reported as running.
allAssigned(tbl, w, running) ==
  {j \in DOMAIN tbl : tbl[j].status = "ASSIGNED" /\ tbl[j].unit.worker = w}

\* The jobs the heartbeat's reply hands out.
newlyAssigned(tbl, w, running) ==
  {j \in DOMAIN tbl : tbl[j].status = "ASSIGNED" /\ tbl[j].unit.worker = w} \ running

startJobs(tbl, ids) ==
  [j \in DOMAIN tbl |->
     IF j \in ids THEN [tbl[j] EXCEPT !.status = "RUNNING", !.leased = TRUE] ELSE tbl[j]]

\* POST /api/agent/heartbeat: last_seen, metrics, progress, the scheduler,
\* then everything assigned to this worker is handed out and marked RUNNING.
Heartbeat(w, report, running) ==
  /\ online' = [online EXCEPT ![w] = TRUE]
  /\ metrics' = [metrics EXCEPT ![w] = report]
  /\ \E tbl \in runScheduler(Progressed(w, running), online', metrics') :
        jobs' = startJobs(tbl, newlyAssigned(tbl, w, running))
  /\ UNCHANGED <<nextId, cleanup, requests, jobs_enabled>>

\* POST /api/agent/job-result: matches a row only while it is RUNNING there.
JobResult(w, id, ok) ==
  /\ isJobStillRunning(id, w)
  /\ jobs' = [jobs EXCEPT ![id].status = IF ok THEN "COMPLETED" ELSE "FAILED"]
  /\ UNCHANGED <<nextId, cleanup, requests, workerVars>>

------------------------------------------------------------------------------
(* The administrator's switch, the clock and the server process.           *)

SetJobsEnabled(w, enabled) ==
  /\ jobs_enabled[w] # enabled
  /\ jobs_enabled' = [jobs_enabled EXCEPT ![w] = enabled]
  /\ UNCHANGED <<jobVars, cleanup, requests, online, metrics>>

\* 20 s without a heartbeat.
GoesQuiet(w) ==
  /\ online[w]
  /\ online' = [online EXCEPT ![w] = FALSE]
  /\ UNCHANGED <<jobVars, cleanup, requests, metrics, jobs_enabled>>

\* 30 s without progress.
LeaseExpires(id) ==
  /\ jobs[id].status = "RUNNING"
  /\ jobs[id].leased
  /\ jobs' = [jobs EXCEPT ![id].leased = FALSE]
  /\ UNCHANGED <<nextId, cleanup, requests, workerVars>>

\* The tables are on disk; the metrics cache is not.
ServerRestart ==
  /\ metrics # [w \in Workers |-> NoReport]
  /\ metrics' = [w \in Workers |-> NoReport]
  /\ UNCHANGED <<jobVars, cleanup, requests, online, jobs_enabled>>

------------------------------------------------------------------------------
EmptyTable == [x \in {} |-> x]

Init ==
  /\ jobs = EmptyTable
  /\ nextId = 1
  /\ cleanup = EmptyTable
  /\ requests = EmptyTable
  /\ online = [w \in Workers |-> FALSE]
  /\ metrics = [w \in Workers |-> NoReport]
  /\ jobs_enabled = [w \in Workers |-> TRUE]

UserStep ==
  \/ \E input \in Inputs : CreateJob(input)
  \/ \E key \in Keys, input \in Inputs : CreateJobOnce(key, input)
  \/ \E key \in Keys, input \in Inputs : RepeatCreate(key, input)
  \/ \E id \in DOMAIN jobs : CancelJob(id)
  \/ \E id \in DOMAIN jobs : RetryJob(id)
  \/ \E id \in DOMAIN jobs : DeleteJob(id)
  \/ ClearHistory
  \/ \E id \in JobIds : ClaimCleanup(id)

AgentStep ==
  \/ \E w \in Workers, report \in Reports, running \in SUBSET (1..(nextId - 1)) :
        Heartbeat(w, report, running)
  \/ \E w \in Workers, id \in DOMAIN jobs, ok \in BOOLEAN : JobResult(w, id, ok)

Environment ==
  \/ \E w \in Workers, enabled \in BOOLEAN : SetJobsEnabled(w, enabled)
  \/ \E w \in Workers : GoesQuiet(w)
  \/ \E id \in DOMAIN jobs : LeaseExpires(id)
  \/ ServerRestart

Next == UserStep \/ AgentStep \/ Environment

Spec == Init /\ [][Next]_vars

------------------------------------------------------------------------------
(* Properties.                                                             *)

\* Every table holds well-formed rows, and only ids already issued.
TypeOK ==
  /\ nextId \in 1..(MaxJobs + 1)
  /\ DOMAIN jobs \subseteq 1..(nextId - 1)
  /\ jobs \in [DOMAIN jobs -> JobRow]
  /\ DOMAIN cleanup \subseteq 1..(nextId - 1)
  /\ cleanup \in [DOMAIN cleanup -> CleanupRow]
  /\ DOMAIN requests \subseteq Keys
  /\ requests \in [DOMAIN requests -> RequestRow]
  /\ online \in [Workers -> BOOLEAN]
  /\ metrics \in [Workers -> Reports \cup {NoReport}]
  /\ jobs_enabled \in [Workers -> BOOLEAN]

\* A job that is waiting to be picked up or being run holds a unit, and no
\* other such job holds the same one: scheduler.ts never double-books a GPU
\* slot, whatever the Agents report and however the GPUs they report change.
SlotExclusive ==
  /\ \A j \in DOMAIN jobs : jobs[j].status \in Busy => jobs[j].unit # NoUnit
  /\ \A i, j \in DOMAIN jobs :
       jobs[i].status \in Busy /\ jobs[j].status \in Busy /\ jobs[i].unit = jobs[j].unit
         => i = j

\* A job's dependency is an older job that still exists, and once the job has
\* been handed to a worker the dependency is COMPLETED and stays so, through
\* retries, restarts and history deletion.
DependencyHonoured ==
  \A j \in DOMAIN jobs :
    LET d == jobs[j].input.depends_on
    IN  d # NoJob =>
          /\ d \in DOMAIN jobs
          /\ d < j
          /\ jobs[j].status \in Busy \cup Settled => jobs[d].status = "COMPLETED"

\* Files released for cleanup belong to a job that ended COMPLETED or FAILED
\* and that nothing can bring back: it is not queued, assigned or running.  A
\* record of a job that still exists is such a release, and the status it
\* archived is the one the job still has.
ReleasedStaysSettled ==
  \A j \in DOMAIN cleanup :
    /\ cleanup[j].claimed => cleanup[j].status \in Settled
    /\ j \in DOMAIN jobs => cleanup[j].claimed /\ jobs[j].status = cleanup[j].status

\* An Idempotency-Key stands for one job for ever: two keys never share a job,
\* and the job a key stands for is the one created from the key's own input.
OneJobPerKey ==
  \A k \in DOMAIN requests :
    /\ requests[k].job < nextId
    /\ \A m \in DOMAIN requests : requests[m].job = requests[k].job => m = k
    /\ requests[k].job \in DOMAIN jobs => jobs[requests[k].job].input = requests[k].input

\* Clearing the history is refused only for the reason the code gives: an
\* active job that depends on a terminal one.  A chain of terminal jobs never
\* trips the foreign key against itself.
HistoryBlockedOnlyByActive ==
  HistoryDeletable \/ \E i \in DOMAIN jobs \ Terminal, id \in Terminal : DependsOn(i, id)

\* What a user sees of a job id, and the jobs whose files were released.
LifecycleState ==
  [j \in JobIds |-> IF j >= nextId THEN "NEW"
                    ELSE IF j \in DOMAIN jobs THEN jobs[j].status ELSE "REMOVED"]
Released == {j \in DOMAIN cleanup : cleanup[j].claimed}

Lifecycle == INSTANCE JobLifecycle WITH state <- LifecycleState, released <- Released

\* Every job follows the documented life cycle: results, cancellations, stale
\* leases and scheduler runs that meet in one step never take it elsewhere, a
\* released job never leaves its terminal status except to be removed, and a
\* removed id never comes back.
LifecycleSpec == Lifecycle!Spec

\* What the portal sees of the job of one of its keys.  The record kept for
\* cleanup answers for a job that was removed.
UploadKeys == {k \in DOMAIN requests : requests[k].input.upload}

JobOfKey(k) ==
  LET j == requests[k].job
      status == IF j \in DOMAIN jobs THEN jobs[j].status ELSE cleanup[j].status
  IN  [id      |-> j,
       status  |-> IF status \in TERMINAL_STATUSES THEN status ELSE "ACTIVE",
       live    |-> j \in DOMAIN jobs,
       claimed |-> j \in Released]

KeyedJob ==
  [k \in Keys |-> IF k \in UploadKeys THEN JobOfKey(k)
                  ELSE [id |-> NoJob, status |-> "none", live |-> FALSE, claimed |-> FALSE]]

Keyed == INSTANCE KeyedJobs WITH job <- KeyedJob

\* A key of an upload stands for one job of its own, created once: repetitions,
\* retries, results, lost leases, scheduler runs and deletions show the key's
\* owner only the moves of KeyedJobs, and what became of the job is known after
\* the job is gone.
KeyedSpec == Keyed!Spec
==============================================================================
