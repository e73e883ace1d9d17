---------------------------- MODULE SchedulerLoop ----------------------------
(***************************************************************************)
(* One call of runScheduler, step by step, as scheduler.ts runs it: fail   *)
(* the stale rows one after the other, then walk the queue, and for every  *)
(* ready job walk the workers and their units.  A list the code walks in   *)
(* its order is the set of what it has still to reach, the first of which  *)
(* comes next.  The tables and the workers are whatever they are when the  *)
(* call starts.  LoopMatches says that the loop computes what              *)
(* JobEngine!runScheduler states without a loop, which is the definition   *)
(* every other module and every proof uses.                                *)
(***************************************************************************)
EXTENDS JobEngine

CONSTANT Tables   \* the jobs tables a call may start from

\* They are the engine's: well formed, and nothing is booked twice (SlotExclusive).
ASSUME LoopAssumption ==
  \A t \in Tables :
    /\ DOMAIN t \subseteq JobIds /\ t \in [DOMAIN t -> JobRow]
    /\ \A i, j \in DOMAIN t :
         t[i].status \in Busy /\ t[j].status \in Busy /\ t[i].unit = t[j].unit => i = j

VARIABLES
  tbl,      \* the jobs table as the call updates it
  running,  \* rows failStaleRunningJobs has still to look at
  queue,    \* queued jobs the loop has still to reach
  workers,  \* workers findAssignment has still to try for the front job
  busy,     \* the slots taken so far
  phase     \* "sweep", "select", "jobs", "workers" or "done"

given == <<jobs, nextId, cleanup, requests, online, metrics, jobs_enabled>>
loop  == <<tbl, running, queue, workers, busy, phase>>

\* failStaleRunningJobs: one row of its SELECT.
Sweep ==
  /\ phase = "sweep"
  /\ \/ \E j \in running :
          /\ running' = running \ {j}
          /\ tbl' = IF Stale(jobs[j], online) THEN [tbl EXCEPT ![j].status = "FAILED"] ELSE tbl
          /\ UNCHANGED phase
     \/ running = {} /\ phase' = "select" /\ UNCHANGED <<running, tbl>>
  /\ UNCHANGED <<queue, workers, busy>>

\* The queue and the busy set are read once, before the loop.
Select ==
  /\ phase = "select"
  /\ queue' = {j \in DOMAIN tbl : tbl[j].status = "QUEUED"}
  /\ busy' = BusyUnits(tbl)
  /\ phase' = "jobs"
  /\ UNCHANGED <<tbl, running, workers>>

\* The first of the queue, by ORDER BY priority DESC, id ASC.
Front(job) == job \in queue /\ \A j \in queue \ {job} : Ahead(tbl, job, j)

\* The next queued job; one whose dependency is not COMPLETED is skipped.
NextJob ==
  /\ phase = "jobs"
  /\ \/ queue = {} /\ phase' = "done" /\ UNCHANGED <<queue, workers>>
     \/ \E job \in queue :
          /\ Front(job)
          /\ IF isDependencySatisfied(tbl, job)
             THEN phase' = "workers" /\ workers' = Workers /\ UNCHANGED queue
             ELSE queue' = queue \ {job} /\ UNCHANGED <<phase, workers>>
  /\ UNCHANGED <<tbl, running, busy>>

\* findAssignment's conditions on a worker.
Usable(w, kind) ==
  /\ online[w]
  /\ jobs_enabled[w]
  /\ metrics[w] # NoReport
  /\ kind \in metrics[w].runs
  /\ ~metrics[w].loaded

\* Mutant: the busy slots are ignored.
CoolUnits(w) == {u \in workerUnits(w, metrics[w]) : u.gpu \notin metrics[w].hot}

\* Its units that are free and not saturated.
FreeUnits(w) ==
  {u \in workerUnits(w, metrics[w]) : u \notin busy /\ u.gpu \notin metrics[w].hot}

\* The front job leaves the queue with a unit, or goes without.
Take(job, unit) ==
  /\ tbl' = [tbl EXCEPT ![job].status = "ASSIGNED", ![job].unit = unit]
  /\ busy' = busy \cup {unit}
  /\ queue' = queue \ {job}
  /\ phase' = "jobs"
  /\ UNCHANGED workers

GoWithout(job) ==
  /\ workers = {}
  /\ queue' = queue \ {job}
  /\ phase' = "jobs"
  /\ UNCHANGED <<tbl, busy, workers>>

\* The next worker for the front job, and the first of its free units.
Try(job, w) ==
  /\ \A v \in workers : w <= v
  /\ IF Usable(w, tbl[job].input.kind) /\ FreeUnits(w) # {}
     THEN \E unit \in FreeUnits(w) :
            /\ \A u \in FreeUnits(w) : NotAfter(unit, u)
            /\ Take(job, unit)
     ELSE workers' = workers \ {w} /\ UNCHANGED <<tbl, busy, queue, phase>>

TryWorker ==
  /\ phase = "workers"
  /\ \E job \in queue :
       /\ Front(job)
       /\ GoWithout(job) \/ \E w \in workers : Try(job, w)
  /\ UNCHANGED running

LoopInit ==
  /\ jobs \in Tables
  /\ nextId = MaxJobs + 1
  /\ cleanup = EmptyTable
  /\ requests = EmptyTable
  /\ online \in [Workers -> BOOLEAN]
  /\ metrics \in [Workers -> Reports \cup {NoReport}]
  /\ jobs_enabled \in [Workers -> BOOLEAN]
  /\ tbl = jobs
  /\ running = {j \in DOMAIN jobs : jobs[j].status = "RUNNING"}
  /\ queue = {}
  /\ workers = {}
  /\ busy = {}
  /\ phase = "sweep"

Return == phase = "done" /\ UNCHANGED loop

LoopNext == (Sweep \/ Select \/ NextJob \/ TryWorker \/ Return) /\ UNCHANGED given

LoopSpec == LoopInit /\ [][LoopNext]_<<given, loop>>

\* The loop ends in the one table that the declarative definition allows:
\* the same job gets the same unit whatever the mix of priorities, ids,
\* dependencies, stale rows and saturated, disabled or silent workers.
LoopMatches == phase = "done" => runScheduler(jobs, online, metrics) = {tbl}

\* At every step of the loop, not only at its end, the units of the jobs that
\* are assigned or running are distinct, and all are in the busy set.
LoopNeverDoubleBooks ==
  phase \in {"jobs", "workers", "done"} =>
    /\ BusyUnits(tbl) \subseteq busy
    /\ \A i, j \in DOMAIN tbl :
         tbl[i].status \in Busy /\ tbl[j].status \in Busy /\ tbl[i].unit = tbl[j].unit
           => i = j

\* The loop is right at its end, and safe to lose at every step before.
LoopSound == LoopMatches /\ LoopNeverDoubleBooks
==============================================================================
