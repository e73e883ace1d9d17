--------------------------------- MODULE Farm ---------------------------------
(***************************************************************************)
(* The job engine together with the Agents that run its jobs.              *)
(*                                                                         *)
(* An Agent is one loop (Worker.ExecuteAsync) and a runner per job type.   *)
(* A tick of the loop is sequential: list the unfinished executions, send  *)
(* the heartbeat, apply the reply (cancellations, then new jobs), report   *)
(* every finished execution, sleep.  Executions advance meanwhile.  A      *)
(* request or its answer may be lost, a request the Agent gave up on after *)
(* its 10 s timeout may still be served later, and the Agent may restart,  *)
(* which forgets every execution.                                          *)
(*                                                                         *)
(* Left out: the second server of a two-server Agent, and the reply to a   *)
(* job type with no runner, which the scheduler's capability match avoids. *)
(***************************************************************************)
EXTENDS JobEngine

CONSTANTS
  TestKinds,   \* the kinds TestJobRunner runs; the others run a process
  Nothing      \* no delayed request

ASSUME FarmAssumption == TestKinds \subseteq Kinds

VARIABLES
  exec,   \* per worker: the executions its runners track, by job id
  tick,   \* per worker: where its loop is, with what it holds there
  late,   \* per worker: a request given up on that the server may still serve
  made    \* history: the jobs that some execution finished successfully

agentVars == <<exec, tick, late, made>>
farmVars  == <<vars, agentVars>>

\* preparing: tracked, its process not registered yet; killed: told to stop.
Unfinished == {"preparing", "running", "killed"}
Finished   == {"succeeded", "failed"}
Execution  == [phase: Unfinished \cup Finished, gpu: Gpus \cup {NoGpu}, kind: Kinds]

Idle                   == [at |-> "idle"]
Sent(running)          == [at |-> "sent", running |-> running]
Replied(cancels, runs) == [at |-> "replied", cancels |-> cancels, jobs |-> runs]
Acted                  == [at |-> "acted"]
Reporting(pending)     == [at |-> "reporting", pending |-> pending]

In(w, phases) == {j \in DOMAIN exec[w] : exec[w][j].phase \in phases}

Track(w, table)  == exec' = [exec EXCEPT ![w] = table]
Phase(w, j, to)  == Track(w, [exec[w] EXCEPT ![j].phase = to])
Forget(w, j)     == Track(w, [i \in DOMAIN exec[w] \ {j} |-> exec[w][i]])
At(w, state)     == tick' = [tick EXCEPT ![w] = state]

\* A request is lost, or held up and served after its sender gave up.
LostOrLate(w, request) ==
  \/ UNCHANGED late
  \/ late[w] = Nothing /\ late' = [late EXCEPT ![w] = request]

------------------------------------------------------------------------------
(* One tick of Worker.ExecuteAsync.                                        *)

SendHeartbeat(w) ==
  /\ tick[w] = Idle
  /\ At(w, Sent(In(w, Unfinished)))
  /\ UNCHANGED <<vars, exec, late, made>>

\* The jobs this step marks RUNNING: those its heartbeat hands out.
HandedOut == {j \in DOMAIN jobs : jobs[j].status # "RUNNING" /\ jobs'[j].status = "RUNNING"}

ServeHeartbeat(w, report) ==
  /\ tick[w].at = "sent"
  /\ Heartbeat(w, report, tick[w].running)
  /\ At(w, Replied(cancelJobIds(w, tick[w].running),
                   {[id |-> j, gpu |-> jobs'[j].unit.gpu, kind |-> jobs'[j].input.kind] :
                      j \in HandedOut}))
  /\ UNCHANGED <<exec, late, made>>

\* No answer: SendHeartbeatAsync throws and the loop goes on to its reports.
MissReply(w) ==
  /\ \/ tick[w].at = "sent" /\ LostOrLate(w, tick[w])
     \/ tick[w].at = "replied" /\ UNCHANGED late
  /\ At(w, Acted)
  /\ UNCHANGED <<vars, exec, made>>

\* Cancel: a process that is not registered yet is not there to be killed.
Cancelled(w, ids) ==
  [j \in DOMAIN exec[w] |->
     IF j \in ids /\ exec[w][j].phase = "running" THEN [exec[w][j] EXCEPT !.phase = "killed"]
                                                  ELSE exec[w][j]]

\* Start throws on a job that is still unfinished, which ends the loop over
\* the reply's jobs; one that has finished is overwritten.
Startable(w, runs) ==
  {r \in runs : \A s \in runs : s.id <= r.id => s.id \notin In(w, Unfinished)}

Started(run) ==
  [phase |-> IF run.kind \in TestKinds THEN "running" ELSE "preparing",
   gpu |-> run.gpu, kind |-> run.kind]

\* HandleJobDirectivesAsync: every cancellation, then every start.
HandleReply(w) ==
  LET runs == Startable(w, tick[w].jobs)
      ids  == {r.id : r \in runs}
  IN
  /\ tick[w].at = "replied"
  /\ Track(w, [j \in DOMAIN exec[w] \cup ids |->
                 IF j \in ids THEN Started(CHOOSE r \in runs : r.id = j)
                              ELSE Cancelled(w, tick[w].cancels)[j]])
  /\ At(w, Acted)
  /\ UNCHANGED <<vars, late, made>>

\* The finished executions the loop will report in this tick.
BeginReports(w) ==
  /\ tick[w] = Acted
  /\ At(w, Reporting(In(w, Finished)))
  /\ UNCHANGED <<vars, exec, late, made>>

\* Mutant: the UPDATE is not scoped by worker and status.
completeAny(w, j, ok) ==
  /\ j \in DOMAIN jobs
  /\ jobs' = [jobs EXCEPT ![j].status = IF ok THEN "COMPLETED" ELSE "FAILED"]
  /\ UNCHANGED <<nextId, cleanup, requests, workerVars>>

\* completeJob: a result for a job that is not RUNNING there changes nothing.
completeJob(w, j, ok) ==
  \/ JobResult(w, j, ok)
  \/ ~isJobStillRunning(j, w) /\ UNCHANGED vars

\* Mutant: an end is a success.
Ended(w, j) == exec[w][j].phase \in Finished

\* The result of a finished execution.
Outcome(w, j) == exec[w][j].phase = "succeeded"

\* ReportFinishedJobAsync: the execution is forgotten once the server answers.
ReportFinished(w, j) ==
  /\ tick[w].at = "reporting"
  /\ j \in tick[w].pending
  /\ completeJob(w, j, Outcome(w, j))
  /\ Forget(w, j)
  /\ At(w, Reporting(tick[w].pending \ {j}))
  /\ UNCHANGED <<late, made>>

\* The server has the result and the Agent does not know, or the request is
\* lost or late.  Either way the Agent reports again in its next tick.
ReportUnanswered(w, j) ==
  /\ tick[w].at = "reporting"
  /\ j \in tick[w].pending
  /\ \/ completeJob(w, j, Outcome(w, j)) /\ UNCHANGED late
     \/ LostOrLate(w, [at |-> "result", job |-> j, ok |-> Outcome(w, j)]) /\ UNCHANGED vars
  /\ At(w, Reporting(tick[w].pending \ {j}))
  /\ UNCHANGED <<exec, made>>

EndTick(w) ==
  /\ tick[w] = Reporting({})
  /\ At(w, Idle)
  /\ UNCHANGED <<vars, exec, late, made>>

------------------------------------------------------------------------------
(* The runners, late requests and restarts.                                *)

\* RunAsync reaches its process: validation passes and it is registered and
\* started, or the execution fails.
Prepare(w, j) ==
  /\ exec[w][j].phase = "preparing"
  /\ \E to \in {"running", "failed"} : Phase(w, j, to)
  /\ UNCHANGED <<vars, tick, late, made>>

\* An execution ends by itself, or because it was killed; a kill may come too
\* late to matter.  TestJobRunner drops a cancelled execution unreported.
Succeed(w, j) ==
  /\ exec[w][j].phase \in {"running", "killed"}
  /\ Phase(w, j, "succeeded")
  /\ made' = made \cup {j}
  /\ UNCHANGED <<vars, tick, late>>

Fail(w, j) ==
  /\ exec[w][j].phase \in {"running", "killed"}
  /\ IF exec[w][j].phase = "killed" /\ exec[w][j].kind \in TestKinds
     THEN Forget(w, j)
     ELSE Phase(w, j, "failed")
  /\ UNCHANGED <<vars, tick, late, made>>

ServeLateHeartbeat(w, report) ==
  /\ late[w] # Nothing
  /\ late[w].at = "sent"
  /\ Heartbeat(w, report, late[w].running)
  /\ late' = [late EXCEPT ![w] = Nothing]
  /\ UNCHANGED <<exec, tick, made>>

ServeLateResult(w) ==
  /\ late[w] # Nothing
  /\ late[w].at = "result"
  /\ completeJob(w, late[w].job, late[w].ok)
  /\ late' = [late EXCEPT ![w] = Nothing]
  /\ UNCHANGED <<exec, tick, made>>

\* The service or its machine restarts; a request on its way may arrive.
AgentRestart(w) ==
  /\ exec[w] # EmptyTable
  /\ Track(w, EmptyTable)
  /\ IF tick[w].at = "sent" THEN LostOrLate(w, tick[w]) ELSE UNCHANGED late
  /\ At(w, Idle)
  /\ UNCHANGED <<vars, made>>

------------------------------------------------------------------------------
FarmInit ==
  /\ Init
  /\ exec = [w \in Workers |-> EmptyTable]
  /\ tick = [w \in Workers |-> Idle]
  /\ late = [w \in Workers |-> Nothing]
  /\ made = {}

Loop(w) ==
  \/ SendHeartbeat(w)
  \/ \E report \in Reports : ServeHeartbeat(w, report)
  \/ MissReply(w)
  \/ HandleReply(w)
  \/ BeginReports(w)
  \/ \E j \in DOMAIN exec[w] : ReportFinished(w, j)
  \/ \E j \in DOMAIN exec[w] : ReportUnanswered(w, j)
  \/ EndTick(w)

Runners(w) == \E j \in DOMAIN exec[w] : Prepare(w, j) \/ Succeed(w, j) \/ Fail(w, j)

Faults(w) ==
  \/ \E report \in Reports : ServeLateHeartbeat(w, report)
  \/ ServeLateResult(w)
  \/ AgentRestart(w)

FarmNext ==
  \/ (UserStep \/ Environment) /\ UNCHANGED agentVars
  \/ \E w \in Workers : Loop(w) \/ Runners(w) \/ Faults(w)

FarmSpec == FarmInit /\ [][FarmNext]_farmVars

\* A job RUNNING on a worker that is not executing it.
Orphan(j) ==
  /\ j \in DOMAIN jobs
  /\ jobs[j].status = "RUNNING"
  /\ j \notin In(jobs[j].unit.worker, Unfinished)

Tracked(w, j) == j \in DOMAIN exec[w]
Dies(w, j)    == exec[w][j].phase = "killed" /\ (Succeed(w, j) \/ Fail(w, j))

\* The Agent's loop runs on; a request of each kind gets through again and
\* again; preparations end and a killed execution dies, though one left alone
\* may run for ever; the lease of an orphan runs out.

Fairness ==
  /\ \A w \in Workers :
       /\ WF_farmVars(SendHeartbeat(w) \/ BeginReports(w) \/ EndTick(w))
       /\ WF_farmVars(\E j \in DOMAIN exec[w] : ReportUnanswered(w, j))
       /\ WF_farmVars(MissReply(w))
       /\ SF_farmVars(\E report \in Reports : ServeHeartbeat(w, report))
       /\ SF_farmVars(HandleReply(w))
       /\ \A j \in JobIds :
            /\ SF_farmVars(Tracked(w, j) /\ ReportFinished(w, j))
            /\ WF_farmVars(Tracked(w, j) /\ Prepare(w, j))
            /\ WF_farmVars(Tracked(w, j) /\ Dies(w, j))
  /\ \A j \in JobIds : WF_farmVars(Orphan(j) /\ LeaseExpires(j) /\ UNCHANGED agentVars)

FairFarm == FarmSpec /\ Fairness

------------------------------------------------------------------------------
(* Properties.                                                             *)

\* The tables of the Agents are well formed, and name only ids issued.
FarmTypeOK ==
  /\ TypeOK
  /\ \A w \in Workers :
       /\ DOMAIN exec[w] \subseteq 1..(nextId - 1)
       /\ exec[w] \in [DOMAIN exec[w] -> Execution]
       /\ tick[w].at \in {"idle", "sent", "replied", "acted", "reporting"}
       /\ late[w] # Nothing => late[w].at \in {"sent", "result"}
  /\ made \subseteq 1..(nextId - 1)

\* The server never hands an Agent a job that the Agent still tracks as
\* unfinished, so IJobRunner.Start never throws: neither after a retry of a
\* job that went stale while it ran, nor after a lost or late heartbeat.
StartNeverThrows ==
  \A w \in Workers :
    tick[w].at = "replied" => {r.id : r \in tick[w].jobs} \cap In(w, Unfinished) = {}

\* A COMPLETED job was completed by an execution that succeeded, whatever was
\* lost, delayed, repeated, retried or forgotten in between.
ResultAuthentic == \A j \in DOMAIN jobs : jobs[j].status = "COMPLETED" => j \in made

\* The Agents do nothing to the server that JobEngine does not allow, so its
\* theorems hold of the farm.
EngineSpec == Spec

\* An execution the server no longer wants (cancelled, failed as stale, moved
\* or deleted) comes to an end, even when its first cancellation finds no
\* process to kill or never arrives.
Wanted(w, j) == j \in DOMAIN jobs /\ isJobStillRunning(j, w)

UnwantedStops ==
  \A w \in Workers, j \in JobIds :
    (j \in In(w, Unfinished) /\ ~Wanted(w, j)) ~> (j \notin In(w, Unfinished) \/ Wanted(w, j))

\* No job sits RUNNING for ever with nobody executing it: a lost reply, a
\* restarted Agent or an unreported end is found by a result or by its lease,
\* even while its worker stays online.
OrphansEnd == \A j \in JobIds : Orphan(j) ~> ~Orphan(j)

\* Worker.cs: "The server is the sole authority on not double-booking a GPU
\* slot (job/scheduler.ts's per-slot busy tracking already covers that)": no
\* two processes that nobody told to stop run on one GPU of a worker.
OneProcessPerGpu ==
  \A w \in Workers : \A i, j \in In(w, {"running"}) :
    exec[w][i].gpu = exec[w][j].gpu => i = j
==============================================================================
