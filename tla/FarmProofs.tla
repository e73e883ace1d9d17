------------------------------ MODULE FarmProofs ------------------------------
(***************************************************************************)
(* Proofs about Farm, for any number of workers, jobs and retries: every   *)
(* step of the farm is a step of the engine, or leaves the engine alone,   *)
(* so what JobEngineProofs proves of the engine holds in the farm.         *)
(*                                                                         *)
(* The engine's next-state relation admits only reports of ids the engine  *)
(* has issued.  The invariant FInv is that an Agent, and the network,      *)
(* never hold any other.                                                   *)
(***************************************************************************)
EXTENDS Farm, JobEngineProofs

Issued == 1..(nextId - 1)

\* A request the server may serve late.
Deliverable(request) ==
  /\ request.at = "sent" => request.running \subseteq Issued
  /\ request.at = "result" => request.ok \in BOOLEAN

KnownTick(state) ==
  /\ state.at = "sent" => state.running \subseteq Issued
  /\ state.at = "replied" => \A r \in state.jobs : r.id \in Issued

Known(w) ==
  /\ DOMAIN exec[w] \subseteq Issued
  /\ KnownTick(tick[w])
  /\ late[w] # Nothing => Deliverable(late[w])

Agents ==
  /\ DOMAIN exec = Workers /\ DOMAIN tick = Workers /\ DOMAIN late = Workers
  /\ \A w \in Workers : Known(w)

FInv == IInv /\ Agents

\* Ids are issued and never taken back.
LEMMA IssuedGrows == IInv /\ [Next]_vars => Issued \subseteq Issued'
<1> SUFFICES ASSUME IInv, [Next]_vars PROVE Issued \subseteq Issued'
  OBVIOUS
<1>1. nextId' = nextId \/ nextId' = nextId + 1
  <2>1. CASE UserStep
    BY <2>1 DEF UserStep, CreateJob, CreateJobOnce, RepeatCreate, InsertJob, CancelJob, RetryJob,
                DeleteJob, RemoveRows, ClearHistory, ClaimCleanup, jobVars
  <2>2. CASE AgentStep
    BY <2>2 DEF AgentStep, Heartbeat, JobResult
  <2>3. CASE Environment
    BY <2>3 DEF Environment, SetJobsEnabled, GoesQuiet, LeaseExpires, ServerRestart, jobVars
  <2>4. CASE UNCHANGED vars
    BY <2>4 DEF vars, jobVars
  <2> QED BY <2>1, <2>2, <2>3, <2>4 DEF Next
<1>2. nextId \in Int
  BY DEF IInv, TypeOK
<1> QED BY <1>1, <1>2 DEF Issued

\* What the server stores comes from a job it has.
LEMMA ResultIsStep ==
  ASSUME NEW w \in Workers, NEW j, NEW ok \in BOOLEAN, completeJob(w, j, ok)
  PROVE  [Next]_vars
BY DEF completeJob, JobResult, isJobStillRunning, Next, AgentStep

LEMMA HeartbeatIsStep ==
  ASSUME NEW w \in Workers, NEW report \in Reports, NEW running \in SUBSET Issued,
         Heartbeat(w, report, running)
  PROVE  [Next]_vars
BY DEF Issued, Next, AgentStep

\* Every step of the farm is a step of the engine or none.
LEMMA FarmStepIsEngineStep == FInv /\ [FarmNext]_farmVars => [Next]_vars
<1> SUFFICES ASSUME FInv, [FarmNext]_farmVars PROVE [Next]_vars
  OBVIOUS
<1>1. CASE (UserStep \/ Environment) /\ UNCHANGED agentVars
  BY <1>1 DEF Next
<1>2. ASSUME NEW w \in Workers, Loop(w) PROVE [Next]_vars
  <2>1. CASE SendHeartbeat(w)
    BY <2>1 DEF SendHeartbeat
  <2>2. ASSUME NEW report \in Reports, ServeHeartbeat(w, report) PROVE [Next]_vars
    <3>1. tick[w].running \in SUBSET Issued
      BY <2>2 DEF ServeHeartbeat, FInv, Agents, Known, KnownTick
    <3> QED BY <2>2, <3>1, HeartbeatIsStep DEF ServeHeartbeat
  <2>3. CASE MissReply(w)
    BY <2>3 DEF MissReply
  <2>4. CASE HandleReply(w)
    BY <2>4 DEF HandleReply
  <2>5. CASE BeginReports(w)
    BY <2>5 DEF BeginReports
  <2>6. ASSUME NEW j \in DOMAIN exec[w], ReportFinished(w, j) PROVE [Next]_vars
    <3>1. Outcome(w, j) \in BOOLEAN
      BY DEF Outcome
    <3> QED BY <2>6, <3>1, ResultIsStep DEF ReportFinished
  <2>7. ASSUME NEW j \in DOMAIN exec[w], ReportUnanswered(w, j) PROVE [Next]_vars
    <3>1. Outcome(w, j) \in BOOLEAN
      BY DEF Outcome
    <3> QED BY <2>7, <3>1, ResultIsStep DEF ReportUnanswered
  <2>8. CASE EndTick(w)
    BY <2>8 DEF EndTick
  <2> QED BY <1>2, <2>1, <2>2, <2>3, <2>4, <2>5, <2>6, <2>7, <2>8 DEF Loop
<1>3. ASSUME NEW w \in Workers, Runners(w) PROVE [Next]_vars
  BY <1>3 DEF Runners, Prepare, Succeed, Fail
<1>4. ASSUME NEW w \in Workers, Faults(w) PROVE [Next]_vars
  <2>1. ASSUME NEW report \in Reports, ServeLateHeartbeat(w, report) PROVE [Next]_vars
    <3>1. late[w].running \in SUBSET Issued
      BY <2>1 DEF ServeLateHeartbeat, FInv, Agents, Known, Deliverable
    <3> QED BY <2>1, <3>1, HeartbeatIsStep DEF ServeLateHeartbeat
  <2>2. CASE ServeLateResult(w)
    <3>1. late[w].ok \in BOOLEAN
      BY <2>2 DEF ServeLateResult, FInv, Agents, Known, Deliverable
    <3> QED BY <2>2, <3>1, ResultIsStep DEF ServeLateResult
  <2>3. CASE AgentRestart(w)
    BY <2>3 DEF AgentRestart
  <2> QED BY <1>4, <2>1, <2>2, <2>3 DEF Faults
<1>5. CASE UNCHANGED farmVars
  BY <1>5 DEF farmVars
<1> QED BY <1>1, <1>2, <1>3, <1>4, <1>5 DEF FarmNext

------------------------------------------------------------------------------
(* The invariant.                                                          *)

LEMMA InitFInv == FarmInit => FInv
<1> SUFFICES ASSUME FarmInit PROVE FInv
  OBVIOUS
<1>1. IInv
  BY InitIInv DEF FarmInit
<1>2. Agents
  BY DEF FarmInit, Agents, Known, KnownTick, EmptyTable, Idle
<1> QED BY <1>1, <1>2 DEF FInv

\* A step that leaves the Agents alone leaves them with issued ids.
LEMMA AgentsUnchanged ==
  ASSUME Agents, Issued \subseteq Issued', UNCHANGED agentVars
  PROVE  Agents'
BY DEF Agents, agentVars, Known, KnownTick, Deliverable

\* A step of one Agent.
OnlyAt(w) ==
  /\ DOMAIN exec' = Workers /\ DOMAIN tick' = Workers /\ DOMAIN late' = Workers
  /\ \A v \in Workers \ {w} : exec'[v] = exec[v] /\ tick'[v] = tick[v] /\ late'[v] = late[v]

LEMMA OneAgentKeeps ==
  ASSUME Agents, Issued \subseteq Issued', NEW w \in Workers, OnlyAt(w), Known(w)'
  PROVE  Agents'
<1>1. ASSUME NEW v \in Workers, v # w PROVE Known(v)'
  BY <1>1 DEF OnlyAt, Agents, Known, KnownTick, Deliverable
<1> QED BY <1>1 DEF OnlyAt, Agents

\* The tick of one Agent.
LEMMA LoopKeeps ==
  ASSUME FInv, IInv', Issued \subseteq Issued', NEW w \in Workers, Loop(w)
  PROVE  Agents'
<1> USE DEF FInv
<1>1. Agents /\ Known(w) /\ DOMAIN exec[w] \subseteq Issued'
  BY DEF Agents, Known
<1>2. CASE SendHeartbeat(w)
  <2>1. OnlyAt(w)
    BY <1>2 DEF SendHeartbeat, At, OnlyAt, Agents
  <2>2. Known(w)'
    BY <1>1, <1>2 DEF SendHeartbeat, At, Sent, In, Agents, Known, KnownTick, Deliverable
  <2> QED BY <2>1, <2>2, OneAgentKeeps
<1>3. ASSUME NEW report \in Reports, ServeHeartbeat(w, report) PROVE Agents'
  <2>1. OnlyAt(w)
    BY <1>3 DEF ServeHeartbeat, At, OnlyAt, Agents
  <2>2. HandedOut \subseteq Issued'
    BY <1>1 DEF HandedOut, Issued, IInv, TypeOK
  <2>3. Known(w)'
    BY <1>1, <1>3, <2>2 DEF ServeHeartbeat, At, Replied, Agents, Known, KnownTick, Deliverable
  <2> QED BY <2>1, <2>3, OneAgentKeeps
<1>4. CASE MissReply(w)
  <2>1. OnlyAt(w)
    BY <1>4 DEF MissReply, LostOrLate, At, OnlyAt, Agents
  <2>2. Known(w)'
    BY <1>1, <1>4 DEF MissReply, LostOrLate, At, Acted, Agents, Known, KnownTick, Deliverable
  <2> QED BY <2>1, <2>2, OneAgentKeeps
<1>5. CASE HandleReply(w)
  <2>1. OnlyAt(w)
    BY <1>5 DEF HandleReply, Track, At, OnlyAt, Agents
  <2>2. {r.id : r \in Startable(w, tick[w].jobs)} \subseteq Issued'
    BY <1>1, <1>5 DEF HandleReply, Startable, Known, KnownTick
  <2>3. Known(w)'
    BY <1>1, <1>5, <2>2 DEF HandleReply, Track, At, Acted, Agents, Known, KnownTick, Deliverable
  <2> QED BY <2>1, <2>3, OneAgentKeeps
<1>6. CASE BeginReports(w)
  <2>1. OnlyAt(w)
    BY <1>6 DEF BeginReports, At, OnlyAt, Agents
  <2>2. Known(w)'
    BY <1>1, <1>6 DEF BeginReports, At, Reporting, Agents, Known, KnownTick, Deliverable
  <2> QED BY <2>1, <2>2, OneAgentKeeps
<1>7. ASSUME NEW j \in DOMAIN exec[w], ReportFinished(w, j) PROVE Agents'
  <2>1. OnlyAt(w)
    BY <1>7 DEF ReportFinished, Forget, Track, At, OnlyAt, Agents
  <2>2. Known(w)'
    BY <1>1, <1>7 DEF ReportFinished, Forget, Track, At, Reporting, Agents, Known, KnownTick,
                      Deliverable
  <2> QED BY <2>1, <2>2, OneAgentKeeps
<1>8. ASSUME NEW j \in DOMAIN exec[w], ReportUnanswered(w, j) PROVE Agents'
  <2>1. OnlyAt(w)
    BY <1>8 DEF ReportUnanswered, LostOrLate, At, OnlyAt, Agents
  <2>2. Outcome(w, j) \in BOOLEAN
    BY DEF Outcome
  <2>3. Known(w)'
    BY <1>1, <1>8, <2>2 DEF ReportUnanswered, LostOrLate, At, Reporting, Agents, Known, KnownTick,
                            Deliverable
  <2> QED BY <2>1, <2>3, OneAgentKeeps
<1>9. CASE EndTick(w)
  <2>1. OnlyAt(w)
    BY <1>9 DEF EndTick, At, OnlyAt, Agents
  <2>2. Known(w)'
    BY <1>1, <1>9 DEF EndTick, At, Idle, Agents, Known, KnownTick, Deliverable
  <2> QED BY <2>1, <2>2, OneAgentKeeps
<1> QED BY <1>2, <1>3, <1>4, <1>5, <1>6, <1>7, <1>8, <1>9 DEF Loop

\* Its runners, its late requests and its restarts.
LEMMA RunnersKeep ==
  ASSUME FInv, Issued \subseteq Issued', NEW w \in Workers, Runners(w)
  PROVE  Agents'
<1>1. PICK j \in DOMAIN exec[w] : Prepare(w, j) \/ Succeed(w, j) \/ Fail(w, j)
  BY DEF Runners
<1>2. UNCHANGED <<tick, late>> /\ \E table : Track(w, table) /\ DOMAIN table \subseteq DOMAIN exec[w]
  <2>1. ASSUME NEW to, Phase(w, j, to)
        PROVE  \E table : Track(w, table) /\ DOMAIN table \subseteq DOMAIN exec[w]
    BY <2>1 DEF Phase
  <2>2. ASSUME Forget(w, j)
        PROVE  \E table : Track(w, table) /\ DOMAIN table \subseteq DOMAIN exec[w]
    BY <2>2 DEF Forget
  <2>3. (\E to : Phase(w, j, to)) \/ Forget(w, j)
    BY <1>1 DEF Prepare, Succeed, Fail
  <2> QED BY <1>1, <2>1, <2>2, <2>3 DEF Prepare, Succeed, Fail
<1>3. OnlyAt(w)
  BY <1>2 DEF Track, OnlyAt, FInv, Agents
<1>4. Known(w)'
  BY <1>2 DEF Track, FInv, Agents, Known, KnownTick, Deliverable
<1> QED BY <1>3, <1>4, OneAgentKeeps DEF FInv

LEMMA FaultsKeep ==
  ASSUME FInv, Issued \subseteq Issued', NEW w \in Workers, Faults(w)
  PROVE  Agents'
<1> USE DEF FInv
<1>1. OnlyAt(w)
  BY DEF Faults, ServeLateHeartbeat, ServeLateResult, AgentRestart, Track, LostOrLate, At, OnlyAt,
         Agents
<1>2. Known(w)'
  <2>1. CASE AgentRestart(w)
    BY <2>1 DEF AgentRestart, Track, LostOrLate, At, Idle, EmptyTable, Agents, Known, KnownTick,
                Deliverable
  <2>2. CASE ~ AgentRestart(w)
    BY <2>2 DEF Faults, ServeLateHeartbeat, ServeLateResult, Agents, Known, KnownTick, Deliverable
  <2> QED BY <2>1, <2>2
<1> QED BY <1>1, <1>2, OneAgentKeeps

LEMMA NextFInv == FInv /\ [FarmNext]_farmVars => FInv'
<1> SUFFICES ASSUME FInv, [FarmNext]_farmVars PROVE FInv'
  OBVIOUS
<1>1. IInv'
  BY FarmStepIsEngineStep, NextIInv DEF FInv
<1>2. Issued \subseteq Issued'
  BY FarmStepIsEngineStep, IssuedGrows DEF FInv
<1>3. Agents'
  BY <1>1, <1>2, AgentsUnchanged, LoopKeeps, RunnersKeep, FaultsKeep
     DEF FInv, FarmNext, farmVars, agentVars
<1> QED BY <1>1, <1>3 DEF FInv

------------------------------------------------------------------------------
(* The theorems.                                                           *)

\* Whatever is lost, delayed or repeated, and however often Agents restart,
\* they drive the server only through steps the engine's specification has.
THEOREM FarmImplementsEngine == FarmSpec => EngineSpec
<1>1. FarmInit => Init
  BY DEF FarmInit
<1> QED BY <1>1, InitFInv, NextFInv, FarmStepIsEngineStep, PTL DEF FarmSpec, EngineSpec, Spec

\* In the farm too, no GPU slot is booked twice.
THEOREM FarmSlotExclusion == FarmSpec => []SlotExclusive
BY FarmImplementsEngine, SlotExclusion, PTL DEF EngineSpec

\* In the farm too, a job whose files were released is never run again.
THEOREM FarmReleasedNeverRuns == FarmSpec => []ReleasedStaysSettled
BY FarmImplementsEngine, ReleasedNeverRuns, PTL DEF EngineSpec

\* In the farm too, over repeated, late and lost reports, jobs and the release
\* of their files follow JobLifecycle, ...
THEOREM FarmLifecycle == FarmSpec => LifecycleSpec
BY FarmImplementsEngine, LifecycleImplemented, PTL DEF EngineSpec

\* ... and what the portal is promised of the job of its key holds.
THEOREM FarmKeyed == FarmSpec => KeyedSpec
BY FarmImplementsEngine, KeyedImplemented, PTL DEF EngineSpec

------------------------------------------------------------------------------
(* Proofs of Farm's own invariants, for any number of workers, jobs and    *)
(* retries: the types, that an Agent is never handed what it still has     *)
(* unfinished, and that a COMPLETED job was really executed.               *)
(*                                                                         *)
(* The first holds because a heartbeat lists what is unfinished, nothing   *)
(* is added to that list before its reply is applied, and the reply leaves *)
(* out what was listed.  The second, because every word that a job         *)
(* succeeded (the execution, the report, the report that comes late) is    *)
(* backed by the history when it is spoken, and the history only grows.    *)

CompletedJobs == {j \in DOMAIN jobs : jobs[j].status = "COMPLETED"}

\* What one Agent holds.
Executes(w) ==
  /\ exec[w] \in [DOMAIN exec[w] -> Execution]
  /\ In(w, {"succeeded"}) \subseteq made

Steps(w) ==
  /\ tick[w].at \in {"idle", "sent", "replied", "acted", "reporting"}
  /\ tick[w].at = "sent" => In(w, Unfinished) \subseteq tick[w].running
  /\ tick[w].at = "replied" =>
       \A r \in tick[w].jobs :
         /\ r.id \notin In(w, Unfinished)
         /\ r.gpu \in Gpus \cup {NoGpu}
         /\ r.kind \in Kinds

Delayed(w) ==
  late[w] # Nothing =>
    /\ late[w].at \in {"sent", "result"}
    /\ late[w].at = "result" /\ late[w].ok => late[w].job \in made

SafeAt(w) == Executes(w) /\ Steps(w) /\ Delayed(w)

Backed == CompletedJobs \subseteq made /\ made \subseteq Issued

SInv == FInv /\ Backed /\ \A w \in Workers : SafeAt(w)

------------------------------------------------------------------------------
(* What the engine's steps complete.                                       *)

\* The scheduler completes nothing.
LEMMA SchedulerCompletesNone ==
  ASSUME NEW tbl, Good(tbl), jobs' \in runScheduler(tbl, online, metrics),
         NEW id, \A j \in DOMAIN tbl : j # id => j \in DOMAIN jobs /\ tbl[j] = jobs[j],
         id \in DOMAIN tbl => tbl[id].status = "QUEUED"
  PROVE  CompletedJobs' \subseteq CompletedJobs
<1>1. /\ DOMAIN jobs' = DOMAIN tbl
      /\ \A j \in DOMAIN tbl :
           \/ jobs'[j].status = tbl[j].status
           \/ tbl[j].status = "QUEUED" /\ jobs'[j].status = "ASSIGNED"
           \/ tbl[j].status = "RUNNING" /\ jobs'[j].status = "FAILED"
  BY SchedulerMoves
<1>2. \A j \in DOMAIN tbl : jobs'[j].status = "COMPLETED" => tbl[j].status = "COMPLETED"
  BY <1>1
<1> QED BY <1>1, <1>2 DEF CompletedJobs

LEMMA RescheduleCompletesNone ==
  ASSUME IInv, jobs' \in runScheduler(jobs, online, metrics)
  PROVE  CompletedJobs' \subseteq CompletedJobs
BY IInvGood, SchedulerMoves DEF CompletedJobs

\* A row that is edited, and does not become COMPLETED, completes nothing.
LEMMA EditCompletes ==
  ASSUME NEW id \in DOMAIN jobs, DOMAIN jobs' = DOMAIN jobs,
         \A j \in DOMAIN jobs : j # id => jobs'[j] = jobs[j]
  PROVE  /\ CompletedJobs' \subseteq CompletedJobs \cup {id}
         /\ jobs'[id].status # "COMPLETED" \/ jobs[id].status = "COMPLETED"
              => CompletedJobs' \subseteq CompletedJobs
BY DEF CompletedJobs

\* Users complete nothing.
LEMMA UsersCompleteNone ==
  ASSUME IInv, UserStep
  PROVE  CompletedJobs' \subseteq CompletedJobs
<1>1. ASSUME NEW input \in Inputs, Accepted(input), InsertJob(input)
      PROVE  CompletedJobs' \subseteq CompletedJobs
  <2> DEFINE base == [j \in DOMAIN jobs \cup {nextId} |->
                        IF j = nextId THEN NewJob(input) ELSE jobs[j]]
  <2>1. nextId \in JobIds /\ nextId \notin DOMAIN jobs
    BY <1>1 DEF InsertJob, IInv, TypeOK
  <2>2. /\ \A j \in DOMAIN base : j # nextId => j \in DOMAIN jobs /\ base[j] = jobs[j]
        /\ base[nextId].status = "QUEUED"
    BY <2>1 DEF NewJob
  <2>3. Good(base)
    BY <1>1, <2>1, NewRowGood
  <2>4. jobs' \in runScheduler(base, online, metrics)
    BY <1>1 DEF InsertJob
  <2> HIDE DEF base
  <2> QED BY <2>2, <2>3, <2>4, SchedulerCompletesNone
<1>2. ASSUME NEW id \in DOMAIN jobs, CancelJob(id) PROVE CompletedJobs' \subseteq CompletedJobs
  <2>1. DOMAIN jobs' = DOMAIN jobs /\ \A j \in DOMAIN jobs : j # id => jobs'[j] = jobs[j]
    BY <1>2 DEF CancelJob
  <2>2. jobs'[id].status = "CANCELLED"
    BY <1>2 DEF CancelJob, IInv, TypeOK, JobRow
  <2> QED BY <2>1, <2>2, EditCompletes
<1>3. ASSUME NEW id \in DOMAIN jobs, RetryJob(id) PROVE CompletedJobs' \subseteq CompletedJobs
  <2>1. CASE jobs' \in runScheduler(jobs, online, metrics)
    BY <2>1, RescheduleCompletesNone
  <2>2. CASE /\ jobs[id].status = "FAILED"
             /\ jobs[id].retry_count < MaxRetries
             /\ jobs' \in runScheduler([jobs EXCEPT ![id] = Requeued(@)], online, metrics)
    <3> DEFINE base == [jobs EXCEPT ![id] = Requeued(@)]
    <3>1. /\ \A j \in DOMAIN base : j # id => j \in DOMAIN jobs /\ base[j] = jobs[j]
          /\ base[id].status = "QUEUED"
      BY DEF Requeued, IInv, TypeOK, JobRow
    <3>2. Good(base)
      BY <2>2, RequeueGood
    <3>3. jobs' \in runScheduler(base, online, metrics)
      BY <2>2
    <3> HIDE DEF base
    <3> QED BY <3>1, <3>2, <3>3, SchedulerCompletesNone
  <2> QED BY <1>3, <2>1, <2>2 DEF RetryJob
<1>4. ASSUME NEW ids, RemoveRows(ids) PROVE CompletedJobs' \subseteq CompletedJobs
  BY <1>4 DEF RemoveRows, CompletedJobs
<1>5. ASSUME NEW id \in JobIds, ClaimCleanup(id) PROVE CompletedJobs' \subseteq CompletedJobs
  BY <1>5 DEF ClaimCleanup, jobVars, CompletedJobs
<1> QED BY <1>1, <1>2, <1>3, <1>4, <1>5, RescheduleCompletesNone
        DEF UserStep, CreateJob, CreateJobOnce, RepeatCreate, DeleteJob, ClearHistory

\* Neither do the clock, the administrator's switch and a restart.
LEMMA EnvironmentCompletesNone ==
  ASSUME IInv, Environment
  PROVE  CompletedJobs' \subseteq CompletedJobs
<1>1. ASSUME NEW id \in DOMAIN jobs, LeaseExpires(id) PROVE CompletedJobs' \subseteq CompletedJobs
  <2>1. DOMAIN jobs' = DOMAIN jobs /\ \A j \in DOMAIN jobs : j # id => jobs'[j] = jobs[j]
    BY <1>1 DEF LeaseExpires
  <2>2. jobs'[id].status = "RUNNING"
    BY <1>1 DEF LeaseExpires, IInv, TypeOK, JobRow
  <2> QED BY <2>1, <2>2, EditCompletes
<1>2. UNCHANGED jobs => CompletedJobs' \subseteq CompletedJobs
  BY DEF CompletedJobs
<1> QED BY <1>1, <1>2 DEF Environment, SetJobsEnabled, GoesQuiet, ServerRestart, jobVars

\* A result completes its own job at most, and only a good one does.
LEMMA ResultCompletesOne ==
  ASSUME IInv, NEW w \in Workers, NEW id, NEW ok \in BOOLEAN, completeJob(w, id, ok)
  PROVE  \A j \in CompletedJobs' : j \in CompletedJobs \/ (ok /\ j = id)
<1>1. CASE UNCHANGED vars
  BY <1>1 DEF vars, CompletedJobs
<1>2. CASE JobResult(w, id, ok)
  <2>1. id \in DOMAIN jobs
    BY <1>2 DEF JobResult, isJobStillRunning
  <2>2. DOMAIN jobs' = DOMAIN jobs /\ \A j \in DOMAIN jobs : j # id => jobs'[j] = jobs[j]
    BY <1>2 DEF JobResult
  <2>3. CASE ok
    BY <2>1, <2>2, <2>3, EditCompletes
  <2>4. CASE ~ok
    <3>1. jobs' = [jobs EXCEPT ![id].status = "FAILED"]
      BY <1>2, <2>4 DEF JobResult
    <3>2. jobs'[id].status = "FAILED"
      BY <2>1, <3>1 DEF IInv, TypeOK, JobRow
    <3> QED BY <2>1, <2>2, <3>2, EditCompletes
  <2> QED BY <2>3, <2>4
<1> QED BY <1>1, <1>2 DEF completeJob

\* A heartbeat completes nothing, and hands out nothing that it listed.
LEMMA HeartbeatHandsOut ==
  ASSUME IInv, NEW w \in Workers, NEW report \in Reports, NEW running,
         Heartbeat(w, report, running)
  PROVE  CompletedJobs' \subseteq CompletedJobs /\ HandedOut \cap running = {}
<1> DEFINE base == Progressed(w, running)
<1>1. PICK tbl \in runScheduler(base, online', metrics') :
        jobs' = startJobs(tbl, newlyAssigned(tbl, w, running))
  BY DEF Heartbeat
<1>2. /\ Good(base)
      /\ DOMAIN base = DOMAIN jobs
      /\ \A j \in DOMAIN jobs : base[j].status = jobs[j].status
  BY IInvGood, ProgressGood DEF Progressed, Good, Table, JobRow
<1>3. Fleet(online', metrics')
  BY DEF Heartbeat, Fleet, IInv, TypeOK
<1> HIDE DEF base
<1>4. Good(tbl)
  BY <1>1, <1>2, <1>3, SchedulerGood
<1>5. /\ DOMAIN tbl = DOMAIN base
      /\ \A j \in DOMAIN base :
           \/ tbl[j].status = base[j].status
           \/ base[j].status = "QUEUED" /\ tbl[j].status = "ASSIGNED"
           \/ base[j].status = "RUNNING" /\ tbl[j].status = "FAILED"
  BY <1>1, <1>2, SchedulerMoves
<1>6. /\ DOMAIN jobs' = DOMAIN tbl
      /\ \A j \in DOMAIN tbl :
           \/ jobs'[j] = tbl[j]
           \/ j \notin running /\ jobs'[j].status = "RUNNING"
  BY <1>1, <1>4 DEF startJobs, newlyAssigned, Good, Table, JobRow
<1>7. CompletedJobs' \subseteq CompletedJobs
  BY <1>2, <1>5, <1>6 DEF CompletedJobs
<1>8. HandedOut \cap running = {}
  BY <1>2, <1>5, <1>6 DEF HandedOut
<1> QED BY <1>7, <1>8

------------------------------------------------------------------------------
(* The invariant.                                                          *)

LEMMA InitSInv == FarmInit => SInv
<1> SUFFICES ASSUME FarmInit PROVE SInv
  OBVIOUS
<1>1. DOMAIN EmptyTable = {}
  BY DEF EmptyTable
<1>2. Backed
  BY <1>1 DEF FarmInit, Init, Backed, CompletedJobs
<1>3. ASSUME NEW w \in Workers PROVE SafeAt(w)
  <2>1. exec[w] = EmptyTable /\ tick[w] = Idle /\ late[w] = Nothing
    BY DEF FarmInit
  <2>2. Executes(w)
    BY <1>1, <2>1 DEF Executes, In, EmptyTable
  <2> QED BY <2>1, <2>2 DEF SafeAt, Steps, Delayed, Idle
<1> QED BY <1>2, <1>3, InitFInv DEF SInv

\* An Agent that does not move is as safe as it was: the history only grows.
LEMMA StillSafe ==
  ASSUME NEW w \in Workers, SafeAt(w), made \subseteq made',
         exec'[w] = exec[w], tick'[w] = tick[w], late'[w] = late[w]
  PROVE  SafeAt(w)'
<1>1. In(w, Unfinished)' = In(w, Unfinished) /\ In(w, {"succeeded"})' = In(w, {"succeeded"})
  BY DEF In
<1> QED BY <1>1 DEF SafeAt, Executes, Steps, Delayed

LEMMA OneAgentSafe ==
  ASSUME SInv, made \subseteq made', NEW w \in Workers, OnlyAt(w), SafeAt(w)'
  PROVE  \A v \in Workers : SafeAt(v)'
<1>1. ASSUME NEW v \in Workers, v # w PROVE SafeAt(v)'
  BY <1>1, StillSafe DEF SInv, OnlyAt
<1> QED BY <1>1

\* An Agent that only moves on in its loop.
LEMMA MovesOn ==
  ASSUME NEW w \in Workers, SafeAt(w), made \subseteq made',
         exec'[w] = exec[w],
         tick'[w].at \in {"idle", "acted", "reporting"},
         Delayed(w)'
  PROVE  SafeAt(w)'
<1>1. In(w, {"succeeded"})' = In(w, {"succeeded"})
  BY DEF In
<1> QED BY <1>1 DEF SafeAt, Executes, Steps

\* An Agent whose executions go on, end or are forgotten.
LEMMA ExecutesOn ==
  ASSUME NEW w \in Workers, SafeAt(w), made \subseteq made',
         exec'[w] \in [DOMAIN exec'[w] -> Execution],
         In(w, {"succeeded"})' \subseteq made',
         In(w, Unfinished)' \subseteq In(w, Unfinished),
         tick'[w] = tick[w] \/ tick'[w].at = "reporting",
         late'[w] = late[w]
  PROVE  SafeAt(w)'
BY DEF SafeAt, Executes, Steps, Delayed

\* What the reply of a heartbeat hands out is typed, and nothing the Agent has
\* unfinished.
LEMMA ServeHeartbeatSafe ==
  ASSUME SInv, IInv', NEW w \in Workers, NEW report \in Reports, ServeHeartbeat(w, report)
  PROVE  SafeAt(w)'
<1>1. SafeAt(w) /\ w \in DOMAIN tick
  BY DEF SInv, FInv, Agents
<1>2. HandedOut \cap tick[w].running = {}
  BY HeartbeatHandsOut DEF ServeHeartbeat, SInv, FInv
<1>3. exec' = exec /\ late' = late /\ made' = made
  BY DEF ServeHeartbeat
<1>4. In(w, Unfinished)' \subseteq tick[w].running
  BY <1>1, <1>3 DEF ServeHeartbeat, SafeAt, Steps, In
<1>5. \A j \in HandedOut :
        jobs'[j].unit.gpu \in Gpus \cup {NoGpu} /\ jobs'[j].input.kind \in Kinds
  <2> SUFFICES ASSUME NEW j \in HandedOut
               PROVE  jobs'[j].unit.gpu \in Gpus \cup {NoGpu} /\ jobs'[j].input.kind \in Kinds
    OBVIOUS
  <2>1. DOMAIN jobs' = DOMAIN jobs
    BY HeartbeatMoves DEF ServeHeartbeat, SInv, FInv
  <2>2. j \in DOMAIN jobs' /\ jobs'[j].status = "RUNNING"
    BY <2>1 DEF HandedOut
  <2>3. jobs'[j] \in JobRow /\ jobs'[j].unit # NoUnit
    BY <2>2 DEF IInv, TypeOK, SlotExclusive, Busy
  <2> QED BY <2>3, EngineAssumption DEF JobRow, Units, InputType
<1>6. tick'[w] = Replied(cancelJobIds(w, tick[w].running),
                         {[id |-> j, gpu |-> jobs'[j].unit.gpu, kind |-> jobs'[j].input.kind] :
                            j \in HandedOut})
  BY <1>1 DEF ServeHeartbeat, At
<1>7. Steps(w)'
  BY <1>2, <1>4, <1>5, <1>6 DEF Steps, Replied
<1>8. In(w, {"succeeded"})' = In(w, {"succeeded"})
  BY <1>3 DEF In
<1> QED BY <1>1, <1>3, <1>7, <1>8 DEF SafeAt, Executes, Delayed

\* A reply starts executions and kills some; it makes none succeed.
LEMMA HandleReplySafe ==
  ASSUME SInv, NEW w \in Workers, HandleReply(w)
  PROVE  SafeAt(w)'
<1> DEFINE runs == Startable(w, tick[w].jobs)
           ids  == {r.id : r \in runs}
           new  == [j \in DOMAIN exec[w] \cup ids |->
                      IF j \in ids THEN Started(CHOOSE r \in runs : r.id = j)
                                   ELSE Cancelled(w, tick[w].cancels)[j]]
<1>1. SafeAt(w) /\ w \in DOMAIN exec /\ w \in DOMAIN tick
  BY DEF SInv, FInv, Agents
<1>2. exec'[w] = new /\ tick'[w] = Acted /\ late' = late /\ made' = made
  BY <1>1 DEF HandleReply, Track, At
<1>3. \A j \in ids : new[j] \in Execution /\ new[j].phase \in {"running", "preparing"}
  <2> SUFFICES ASSUME NEW j \in ids
               PROVE  new[j] \in Execution /\ new[j].phase \in {"running", "preparing"}
    OBVIOUS
  <2>1. PICK r \in runs : r = (CHOOSE s \in runs : s.id = j)
    OBVIOUS
  <2>2. r \in tick[w].jobs /\ new[j] = Started(r)
    BY <2>1 DEF Startable
  <2>3. r.gpu \in Gpus \cup {NoGpu} /\ r.kind \in Kinds
    BY <1>1, <2>2 DEF HandleReply, SafeAt, Steps
  <2> HIDE DEF new, runs, ids
  <2> QED BY <2>2, <2>3 DEF Started, Execution, Unfinished, Finished
<1>4. \A j \in DOMAIN exec[w] \ ids :
        new[j] \in Execution /\ (new[j] = exec[w][j] \/ new[j].phase = "killed")
  <2> SUFFICES ASSUME NEW j \in DOMAIN exec[w] \ ids
               PROVE  new[j] \in Execution /\ (new[j] = exec[w][j] \/ new[j].phase = "killed")
    OBVIOUS
  <2>1. new[j] = exec[w][j] \/ new[j] = [exec[w][j] EXCEPT !.phase = "killed"]
    BY DEF Cancelled
  <2>2. exec[w][j] \in Execution
    BY <1>1 DEF SafeAt, Executes
  <2> HIDE DEF new, ids
  <2> QED BY <2>1, <2>2 DEF Execution, Unfinished, Finished
<1>5. DOMAIN new = DOMAIN exec[w] \cup ids /\ new = [j \in DOMAIN new |-> new[j]]
  OBVIOUS
<1> HIDE DEF new, ids, runs
<1>6. Executes(w)'
  <2>1. new \in [DOMAIN new -> Execution]
    BY <1>3, <1>4, <1>5
  <2>2. \A j \in DOMAIN new : new[j].phase = "succeeded" => j \in In(w, {"succeeded"})
    BY <1>3, <1>4, <1>5 DEF In
  <2> QED BY <1>1, <1>2, <2>1, <2>2 DEF SafeAt, Executes, In
<1> QED BY <1>1, <1>2, <1>6 DEF SafeAt, Steps, Delayed, Acted

\* An answered report is forgotten; an unanswered one may come late, but was
\* true when it was sent.
LEMMA ReportFinishedSafe ==
  ASSUME SInv, NEW w \in Workers, NEW j \in DOMAIN exec[w], ReportFinished(w, j)
  PROVE  SafeAt(w)'
<1>1. SafeAt(w) /\ w \in DOMAIN exec /\ w \in DOMAIN tick
  BY DEF SInv, FInv, Agents
<1>2. /\ exec'[w] = [i \in DOMAIN exec[w] \ {j} |-> exec[w][i]]
      /\ tick'[w].at = "reporting"
      /\ late' = late /\ made' = made
  BY <1>1 DEF ReportFinished, Forget, Track, At, Reporting
<1>3. exec'[w] \in [DOMAIN exec'[w] -> Execution]
  BY <1>1, <1>2 DEF SafeAt, Executes
<1>4. /\ In(w, {"succeeded"})' \subseteq In(w, {"succeeded"})
      /\ In(w, Unfinished)' \subseteq In(w, Unfinished)
  BY <1>2 DEF In
<1> QED BY <1>1, <1>2, <1>3, <1>4, ExecutesOn DEF SafeAt, Executes

LEMMA ReportUnansweredSafe ==
  ASSUME SInv, NEW w \in Workers, NEW j \in DOMAIN exec[w], ReportUnanswered(w, j)
  PROVE  SafeAt(w)'
<1>1. SafeAt(w) /\ w \in DOMAIN late /\ w \in DOMAIN tick
  BY DEF SInv, FInv, Agents
<1>2. exec' = exec /\ made' = made /\ tick'[w].at = "reporting"
  BY <1>1 DEF ReportUnanswered, At, Reporting
<1>3. Outcome(w, j) => j \in made
  BY <1>1 DEF Outcome, SafeAt, Executes, In
<1>4. Delayed(w)'
  BY <1>1, <1>2, <1>3 DEF ReportUnanswered, LostOrLate, SafeAt, Delayed
<1> QED BY <1>1, <1>2, <1>4, MovesOn

\* The tick of one Agent.
LEMMA LoopSafe ==
  ASSUME SInv, IInv', NEW w \in Workers, Loop(w)
  PROVE  OnlyAt(w) /\ SafeAt(w)' /\ made' = made
<1>1. SafeAt(w) /\ DOMAIN exec = Workers /\ DOMAIN tick = Workers /\ DOMAIN late = Workers
  BY DEF SInv, FInv, Agents
<1>2. CASE SendHeartbeat(w)
  <2>1. OnlyAt(w) /\ UNCHANGED <<exec, late, made>> /\ tick'[w] = Sent(In(w, Unfinished))
    BY <1>1, <1>2 DEF SendHeartbeat, At, OnlyAt
  <2>2. In(w, Unfinished)' = In(w, Unfinished) /\ In(w, {"succeeded"})' = In(w, {"succeeded"})
    BY <2>1 DEF In
  <2> QED BY <1>1, <2>1, <2>2 DEF SafeAt, Executes, Steps, Delayed, Sent
<1>3. ASSUME NEW report \in Reports, ServeHeartbeat(w, report)
      PROVE  OnlyAt(w) /\ SafeAt(w)' /\ made' = made
  BY <1>1, <1>3, ServeHeartbeatSafe DEF ServeHeartbeat, At, OnlyAt
<1>4. CASE MissReply(w)
  <2>1. OnlyAt(w) /\ UNCHANGED <<exec, made>> /\ tick'[w] = Acted
    BY <1>1, <1>4 DEF MissReply, LostOrLate, At, OnlyAt
  <2>2. Delayed(w)'
    BY <1>1, <1>4 DEF MissReply, LostOrLate, SafeAt, Delayed
  <2> QED BY <1>1, <2>1, <2>2, MovesOn DEF Acted
<1>5. CASE HandleReply(w)
  BY <1>1, <1>5, HandleReplySafe DEF HandleReply, Track, At, OnlyAt
<1>6. CASE BeginReports(w) \/ EndTick(w)
  <2>1. /\ OnlyAt(w) /\ UNCHANGED <<exec, late, made>>
        /\ tick'[w].at \in {"idle", "reporting"}
    BY <1>1, <1>6 DEF BeginReports, EndTick, At, OnlyAt, Reporting, Idle
  <2>2. Delayed(w)'
    BY <1>1, <2>1 DEF SafeAt, Delayed
  <2> QED BY <1>1, <2>1, <2>2, MovesOn
<1>7. ASSUME NEW j \in DOMAIN exec[w], ReportFinished(w, j)
      PROVE  OnlyAt(w) /\ SafeAt(w)' /\ made' = made
  BY <1>1, <1>7, ReportFinishedSafe DEF ReportFinished, Forget, Track, At, OnlyAt
<1>8. ASSUME NEW j \in DOMAIN exec[w], ReportUnanswered(w, j)
      PROVE  OnlyAt(w) /\ SafeAt(w)' /\ made' = made
  BY <1>1, <1>8, ReportUnansweredSafe DEF ReportUnanswered, LostOrLate, At, OnlyAt
<1> QED BY <1>2, <1>3, <1>4, <1>5, <1>6, <1>7, <1>8 DEF Loop

\* Its runners.
LEMMA RunnersSafe ==
  ASSUME SInv, NEW w \in Workers, Runners(w)
  PROVE  OnlyAt(w) /\ SafeAt(w)' /\ made \subseteq made' /\ made' \subseteq made \cup DOMAIN exec[w]
<1>1. SafeAt(w) /\ DOMAIN exec = Workers /\ DOMAIN tick = Workers /\ DOMAIN late = Workers
  BY DEF SInv, FInv, Agents
<1>2. PICK j \in DOMAIN exec[w] : Prepare(w, j) \/ Succeed(w, j) \/ Fail(w, j)
  BY DEF Runners
<1>3. exec[w][j] \in Execution /\ j \in In(w, Unfinished)
  BY <1>1, <1>2 DEF Prepare, Succeed, Fail, SafeAt, Executes, In, Unfinished
<1>4. ASSUME NEW to \in Unfinished \cup Finished, Phase(w, j, to)
      PROVE  /\ exec'[w] \in [DOMAIN exec'[w] -> Execution]
             /\ \A i \in In(w, {"succeeded"})' :
                  i \in In(w, {"succeeded"}) \/ (i = j /\ to = "succeeded")
             /\ In(w, Unfinished)' \subseteq In(w, Unfinished)
  <2>1. exec'[w] = [exec[w] EXCEPT ![j].phase = to]
    BY <1>1, <1>4 DEF Phase, Track
  <2>2. /\ DOMAIN exec'[w] = DOMAIN exec[w]
        /\ \A i \in DOMAIN exec[w] : i # j => exec'[w][i] = exec[w][i]
        /\ exec'[w][j] = [exec[w][j] EXCEPT !.phase = to]
    BY <2>1
  <2>3. exec'[w][j] \in Execution /\ exec'[w][j].phase = to
    BY <1>3, <2>2 DEF Execution
  <2>4. exec'[w] = [i \in DOMAIN exec'[w] |-> exec'[w][i]]
    BY <2>1
  <2>5. \A i \in DOMAIN exec[w] : exec[w][i] \in Execution
    BY <1>1 DEF SafeAt, Executes
  <2>6. \A i \in DOMAIN exec'[w] : exec'[w][i] \in Execution
    BY <2>2, <2>3, <2>5
  <2>7. exec'[w] \in [DOMAIN exec'[w] -> Execution]
    BY <2>4, <2>6
  <2>8. \A i \in In(w, {"succeeded"})' :
          i \in In(w, {"succeeded"}) \/ (i = j /\ to = "succeeded")
    BY <2>2, <2>3 DEF In
  <2>9. In(w, Unfinished)' \subseteq In(w, Unfinished)
    BY <1>3, <2>2 DEF In
  <2> QED BY <2>7, <2>8, <2>9
<1>5. ASSUME Forget(w, j)
      PROVE  /\ exec'[w] \in [DOMAIN exec'[w] -> Execution]
             /\ In(w, {"succeeded"})' \subseteq In(w, {"succeeded"})
             /\ In(w, Unfinished)' \subseteq In(w, Unfinished)
  <2>1. exec'[w] = [i \in DOMAIN exec[w] \ {j} |-> exec[w][i]]
    BY <1>1, <1>5 DEF Forget, Track
  <2> QED BY <1>1, <2>1 DEF SafeAt, Executes, In
<1>6. OnlyAt(w) /\ tick' = tick /\ late' = late
  BY <1>1, <1>2 DEF Prepare, Succeed, Fail, Phase, Forget, Track, OnlyAt
<1>7. CASE Succeed(w, j)
  <2>1. Phase(w, j, "succeeded") /\ made' = made \cup {j}
    BY <1>7 DEF Succeed
  <2>2. In(w, {"succeeded"})' \subseteq made'
    BY <1>1, <1>4, <2>1 DEF SafeAt, Executes, Finished
  <2> QED BY <1>1, <1>4, <1>6, <2>1, <2>2, ExecutesOn DEF Finished
<1>8. CASE Prepare(w, j) \/ Fail(w, j)
  <2>1. Phase(w, j, "running") \/ Phase(w, j, "failed") \/ Forget(w, j)
    BY <1>8 DEF Prepare, Fail
  <2>2. made' = made
    BY <1>8 DEF Prepare, Fail
  <2>3. /\ exec'[w] \in [DOMAIN exec'[w] -> Execution]
        /\ In(w, {"succeeded"})' \subseteq In(w, {"succeeded"})
        /\ In(w, Unfinished)' \subseteq In(w, Unfinished)
    BY <1>4, <1>5, <2>1 DEF Unfinished, Finished
  <2> QED BY <1>1, <1>6, <2>2, <2>3, ExecutesOn DEF SafeAt, Executes
<1> QED BY <1>2, <1>7, <1>8

\* Its late requests and its restarts.
LEMMA FaultsSafe ==
  ASSUME SInv, NEW w \in Workers, Faults(w)
  PROVE  OnlyAt(w) /\ SafeAt(w)' /\ made' = made
<1>1. SafeAt(w) /\ DOMAIN exec = Workers /\ DOMAIN tick = Workers /\ DOMAIN late = Workers
  BY DEF SInv, FInv, Agents
<1>2. CASE AgentRestart(w)
  <2>1. OnlyAt(w) /\ exec'[w] = EmptyTable /\ tick'[w] = Idle /\ made' = made
    BY <1>1, <1>2 DEF AgentRestart, Track, LostOrLate, At, OnlyAt
  <2>2. Delayed(w)'
    BY <1>1, <1>2 DEF AgentRestart, LostOrLate, SafeAt, Delayed
  <2>3. Executes(w)'
    BY <2>1 DEF Executes, In, EmptyTable
  <2> QED BY <2>1, <2>2, <2>3 DEF SafeAt, Steps, Idle
<1>3. CASE ~AgentRestart(w)
  <2>1. UNCHANGED <<exec, tick, made>> /\ late' = [late EXCEPT ![w] = Nothing]
    BY <1>3 DEF Faults, ServeLateHeartbeat, ServeLateResult
  <2>2. OnlyAt(w) /\ late'[w] = Nothing
    BY <1>1, <2>1 DEF OnlyAt
  <2>3. In(w, Unfinished)' = In(w, Unfinished) /\ In(w, {"succeeded"})' = In(w, {"succeeded"})
    BY <2>1 DEF In
  <2> QED BY <1>1, <2>1, <2>2, <2>3 DEF SafeAt, Executes, Steps, Delayed
<1> QED BY <1>2, <1>3

\* Whatever becomes COMPLETED, an execution had succeeded.
LEMMA CompletionBacked ==
  ASSUME SInv, [FarmNext]_farmVars
  PROVE  CompletedJobs' \subseteq made
<1>1. IInv /\ CompletedJobs \subseteq made /\ DOMAIN exec = Workers
      /\ \A w \in Workers : SafeAt(w)
  BY DEF SInv, FInv, Backed, Agents
<1>2. UNCHANGED vars => CompletedJobs' \subseteq made
  BY <1>1 DEF vars, CompletedJobs
<1>3. CASE UserStep \/ Environment
  BY <1>1, <1>3, UsersCompleteNone, EnvironmentCompletesNone
<1>4. ASSUME NEW w \in Workers, NEW report \in Reports, NEW running, Heartbeat(w, report, running)
      PROVE  CompletedJobs' \subseteq made
  BY <1>1, <1>4, HeartbeatHandsOut
<1>5. ASSUME NEW w \in Workers, NEW j \in DOMAIN exec[w], completeJob(w, j, Outcome(w, j))
      PROVE  CompletedJobs' \subseteq made
  <2>1. Outcome(w, j) \in BOOLEAN /\ (Outcome(w, j) => j \in made)
    BY <1>1 DEF Outcome, SafeAt, Executes, In
  <2> QED BY <1>1, <1>5, <2>1, ResultCompletesOne
<1>6. ASSUME NEW w \in Workers, ServeLateResult(w) PROVE CompletedJobs' \subseteq made
  <2>1. /\ completeJob(w, late[w].job, late[w].ok)
        /\ late[w] # Nothing /\ late[w].at = "result"
    BY <1>6 DEF ServeLateResult
  <2>2. late[w].ok \in BOOLEAN
    BY <2>1 DEF SInv, FInv, Agents, Known, Deliverable
  <2>3. late[w].ok => late[w].job \in made
    BY <1>1, <2>1 DEF SafeAt, Delayed
  <2> QED BY <1>1, <2>1, <2>2, <2>3, ResultCompletesOne
<1>7. ASSUME NEW w \in Workers, Loop(w) PROVE CompletedJobs' \subseteq made
  BY <1>2, <1>4, <1>5, <1>7 DEF Loop, SendHeartbeat, ServeHeartbeat, MissReply, HandleReply,
     BeginReports, ReportFinished, ReportUnanswered, EndTick
<1>8. ASSUME NEW w \in Workers, Runners(w) PROVE UNCHANGED vars
  BY <1>8 DEF Runners, Prepare, Succeed, Fail
<1>9. ASSUME NEW w \in Workers, Faults(w) PROVE CompletedJobs' \subseteq made
  BY <1>2, <1>4, <1>6, <1>9 DEF Faults, ServeLateHeartbeat, AgentRestart
<1> QED BY <1>2, <1>3, <1>7, <1>8, <1>9 DEF FarmNext, farmVars

LEMMA NextSInv == SInv /\ [FarmNext]_farmVars => SInv'
<1> SUFFICES ASSUME SInv, [FarmNext]_farmVars PROVE SInv'
  OBVIOUS
<1>1. FInv /\ FInv' /\ IInv'
  BY NextFInv DEF SInv, FInv
<1>2. Issued \subseteq Issued'
  BY <1>1, FarmStepIsEngineStep, IssuedGrows DEF FInv
<1>3. /\ made \subseteq made'
      /\ made' \subseteq Issued'
      /\ \A w \in Workers : SafeAt(w)'
  <2>1. CASE UNCHANGED agentVars
    BY <1>2, <2>1, StillSafe DEF SInv, Backed, agentVars
  <2>2. ASSUME NEW w \in Workers, Loop(w) \/ Faults(w)
        PROVE  made' = made /\ \A v \in Workers : SafeAt(v)'
    BY <1>1, <2>2, LoopSafe, FaultsSafe, OneAgentSafe
  <2>3. ASSUME NEW w \in Workers, Runners(w)
        PROVE  /\ made \subseteq made' /\ made' \subseteq made \cup DOMAIN exec[w]
               /\ \A v \in Workers : SafeAt(v)'
    BY <2>3, RunnersSafe, OneAgentSafe
  <2>4. \A w \in Workers : DOMAIN exec[w] \subseteq Issued
    BY <1>1 DEF FInv, Agents, Known
  <2> QED BY <1>2, <2>1, <2>2, <2>3, <2>4 DEF FarmNext, farmVars, SInv, Backed
<1>4. CompletedJobs' \subseteq made'
  BY <1>3, CompletionBacked
<1> QED BY <1>1, <1>3, <1>4 DEF SInv, Backed

LEMMA SafetyInductive == FarmSpec => []SInv
BY InitSInv, NextSInv, PTL DEF FarmSpec

------------------------------------------------------------------------------
(* The theorems.                                                           *)

\* The tables of the Agents stay well formed: no message, however late, and no
\* restart makes an Agent track a job the server never issued.
THEOREM FarmTyped == FarmSpec => []FarmTypeOK
<1>1. SInv => FarmTypeOK
  BY DEF SInv, FInv, IInv, Agents, Known, Backed, SafeAt, Executes, Steps, Delayed, FarmTypeOK,
         Issued
<1> QED BY <1>1, SafetyInductive, PTL

\* However many Agents there are, and through stale sweeps, retries and late
\* heartbeats, IJobRunner.Start is never called for an unfinished execution.
THEOREM StartIsSafe == FarmSpec => []StartNeverThrows
<1>1. SInv => StartNeverThrows
  BY DEF SInv, SafeAt, Steps, StartNeverThrows
<1> QED BY <1>1, SafetyInductive, PTL

\* COMPLETED is true of every job that shows it, whichever worker's report,
\* prompt, repeated or late, put it there.
THEOREM CompletionIsReal == FarmSpec => []ResultAuthentic
<1>1. SInv => ResultAuthentic
  BY DEF SInv, Backed, CompletedJobs, ResultAuthentic
<1> QED BY <1>1, SafetyInductive, PTL
==============================================================================
