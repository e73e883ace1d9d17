------------------------------ MODULE DualServer ------------------------------
(***************************************************************************)
(* An Agent that reports to several servers, of which one may give it      *)
(* jobs.  Each server numbers its jobs from 1, and the Agent tracks        *)
(* executions by number alone, so two servers' jobs can have one number.   *)
(*                                                                         *)
(* One tick of Worker.ExecuteAsync: list the unfinished executions, send   *)
(* that list to every server in turn and act on its reply, then report     *)
(* what finished to the owner.  Ownership is a flag of each server in      *)
(* agent.json and in the service's memory.  An operator may change the     *)
(* file at any time; where `dashboard' holds, the servers may also move it *)
(* with claim-jobs and release-jobs.                                       *)
(*                                                                         *)
(* Each server is as small as the Agent sees it; JobEngine has the whole,  *)
(* and Farm the delayed requests and the preparation of an execution.      *)
(***************************************************************************)
EXTENDS Naturals, FiniteSets

CONSTANTS
  ServerCount,   \* servers in agent.json, numbered in its order
  Ids            \* bound: the job numbers each server issues

ASSUME DualAssumption == ServerCount \in Nat \ {0} /\ Ids \subseteq Nat

VARIABLES
  dashboard,  \* whether the servers send claim-jobs and release-jobs; never changes
  job,      \* per server: the status of each of its jobs, on this worker
  file,     \* the servers agent.json marks as owner
  owners,   \* the servers the running service has marked as owner
  exec,     \* the executions the runners track, by job number
  tick,     \* where the loop is, with what it holds there
  done      \* history: <<server, number>> of the jobs executed successfully

vars == <<dashboard, job, file, owners, exec, tick, done>>

Servers   == 1..ServerCount
Statuses  == {"NEW", "ASSIGNED", "RUNNING", "COMPLETED", "FAILED", "CANCELLED"}
Running   == {"running", "killed"}
\* The server an execution came from is history: the code does not keep it.
Execution == [phase: Running \cup {"finished"}, ok: BOOLEAN, from: Servers]
Commands  == {"none"} \cup IF dashboard THEN {"claim", "release"} ELSE {}

Idle                     == [at |-> "idle"]
Asking(s, running)       == [at |-> "asking", server |-> s, running |-> running]
Reporting(pending)       == [at |-> "reporting", pending |-> pending]
Reply(s, running, stops, starts, command) ==
  [at |-> "reply", server |-> s, running |-> running,
   stops |-> stops, starts |-> starts, command |-> command]

Unfinished == {i \in DOMAIN exec : exec[i].phase \in Running}
Finished   == DOMAIN exec \ Unfinished

\* AgentConfig.JobOwner: the first server marked.
JobOwner(flags) == {s \in flags : \A t \in flags : s <= t}

------------------------------------------------------------------------------
(* The servers: what users, the scheduler and the clock do to a job.       *)

Turns ==
  { <<"NEW", "ASSIGNED">>,          \* created and scheduled here
    <<"ASSIGNED", "CANCELLED">>, <<"RUNNING", "CANCELLED">>,
    <<"RUNNING", "FAILED">>,        \* stale
    <<"FAILED", "ASSIGNED">> }      \* retried and scheduled here

ServerMoves(s, i) ==
  /\ \E turn \in Turns :
       /\ job[s][i] = turn[1]
       /\ job' = [job EXCEPT ![s][i] = turn[2]]
  /\ UNCHANGED <<dashboard, file, owners, exec, tick, done>>

\* completeJob for any of the numbers: only RUNNING ones of that server change.
Completed(s, ids, status) ==
  [job EXCEPT ![s] = [i \in Ids |->
     IF i \in ids /\ job[s][i] = "RUNNING" THEN status ELSE job[s][i]]]

Outcome(i) == IF exec[i].ok THEN "COMPLETED" ELSE "FAILED"

------------------------------------------------------------------------------
(* One tick of the Agent.                                                  *)

Begin ==
  /\ tick = Idle
  /\ tick' = Asking(1, Unfinished)
  /\ UNCHANGED <<dashboard, job, file, owners, exec, done>>

NewlyAssigned(s) == {i \in Ids \ tick.running : job[s][i] = "ASSIGNED"}

\* The heartbeat handler: stop what is not RUNNING here, start what is ASSIGNED.
ServeHeartbeat ==
  LET s      == tick.server
      stops  == {i \in tick.running : job[s][i] # "RUNNING"}
      starts == NewlyAssigned(s)
  IN
  /\ tick.at = "asking"
  /\ \E command \in Commands : tick' = Reply(s, tick.running, stops, starts, command)
  /\ job' = [job EXCEPT ![s] = [i \in Ids |-> IF i \in starts THEN "RUNNING" ELSE job[s][i]]]
  /\ UNCHANGED <<dashboard, file, owners, exec, done>>

\* The same list goes to the next server; after the last come the reports,
\* which wait for a tick with an owner.
AfterServer(s) ==
  IF s < ServerCount THEN Asking(s + 1, tick.running)
  ELSE Reporting(IF owners' = {} THEN {} ELSE {i \in DOMAIN exec' : exec'[i].phase = "finished"})

\* No answer: the exception is caught per server.
MissReply ==
  /\ tick.at \in {"asking", "reply"}
  /\ UNCHANGED <<dashboard, job, file, owners, exec, done>>
  /\ tick' = AfterServer(tick.server)

\* Where a command puts the ownership: the asking server, the one other, or
\* nowhere.
Target(s, command) ==
  {t \in Servers :
     \/ command = "claim"   /\ t = s
     \/ command = "release" /\ t # s /\ ServerCount = 2
     \/ command = "none"    /\ t \in JobOwner(owners)}

\* ApplyJobOwnershipAsync: memory first; saving the file may fail.
ApplyCommand ==
  LET target == Target(tick.server, tick.command)
  IN  IF target = JobOwner(owners) THEN UNCHANGED <<owners, file>>
      ELSE owners' = target /\ file' \in {target, file}

\* Mutant: directives are obeyed whoever sent them.
ObeysAny(s) == TRUE

Obeys(s) == s \in owners'

\* IJobRunner.Start throws on an unfinished number, which abandons the rest;
\* a finished one is overwritten.
Startable == {i \in tick.starts : \A j \in tick.starts : j <= i => j \notin Unfinished}

Launched(s) == [phase |-> "running", ok |-> FALSE, from |-> s]

\* HandleJobDirectivesAsync from the owner: cancellations, then starts.
Obey(s) ==
  /\ Obeys(s)
  /\ exec' = [i \in DOMAIN exec \cup Startable |->
                IF i \in Startable THEN Launched(s)
                ELSE IF i \in tick.stops \cap Unfinished THEN [exec[i] EXCEPT !.phase = "killed"]
                ELSE exec[i]]
  /\ UNCHANGED job

\* From another server: every assignment is failed back, if that gets through.
Reject(s) ==
  /\ ~ Obeys(s)
  /\ \E heard \in SUBSET tick.starts : job' = Completed(s, heard, "FAILED")
  /\ UNCHANGED exec

HandleReply ==
  /\ tick.at = "reply"
  /\ ApplyCommand
  /\ Obey(tick.server) \/ Reject(tick.server)
  /\ tick' = AfterServer(tick.server)
  /\ UNCHANGED <<dashboard, done>>

Recipient == JobOwner(owners)

\* ReportFinishedJobAsync: the execution is forgotten once it is answered.
Report(i) ==
  /\ tick.at = "reporting"
  /\ i \in tick.pending
  /\ \E s \in Recipient :
       \/ /\ job' = Completed(s, {i}, Outcome(i))
          /\ exec' = [j \in DOMAIN exec \ {i} |-> exec[j]]
       \/ /\ job' \in {job, Completed(s, {i}, Outcome(i))}
          /\ UNCHANGED exec
  /\ tick' = Reporting(tick.pending \ {i})
  /\ UNCHANGED <<dashboard, file, owners, done>>

EndTick ==
  /\ tick = Reporting({})
  /\ tick' = Idle
  /\ UNCHANGED <<dashboard, job, file, owners, exec, done>>

------------------------------------------------------------------------------
(* The runners, the operator and the service.                              *)

Finish(i) ==
  /\ i \in Unfinished
  /\ \E ok \in BOOLEAN :
       /\ exec' = [exec EXCEPT ![i].phase = "finished", ![i].ok = ok]
       /\ done' = IF ok THEN done \cup {<<exec[i].from, i>>} ELSE done
  /\ UNCHANGED <<dashboard, job, file, owners, tick>>

\* TestJobRunner drops what was cancelled.
Drop(i) ==
  /\ i \in DOMAIN exec
  /\ exec[i].phase = "killed"
  /\ exec' = [j \in DOMAIN exec \ {i} |-> exec[j]]
  /\ UNCHANGED <<dashboard, job, file, owners, tick, done>>

\* The file is edited by hand: any of its entries may be marked.
EditFile ==
  /\ \E flags \in SUBSET Servers : flags # file /\ file' = flags
  /\ UNCHANGED <<dashboard, job, owners, exec, tick, done>>

\* NormalizeServers: at most one mark survives.
\* Mutant: the file is trusted.
AsWritten(flags) == flags

NormalizeServers(flags) == JobOwner(flags)

\* DreamersAgent.exe register --owner, a process beside the service.
RegisterOwner(s) ==
  /\ s \notin NormalizeServers(file)
  /\ file' = {s}
  /\ UNCHANGED <<dashboard, job, owners, exec, tick, done>>

\* The service starts again, from the file and without executions.
RestartService ==
  /\ file' = NormalizeServers(file)
  /\ owners' = file'
  /\ exec' = [i \in {} |-> i]
  /\ tick' = Idle
  /\ UNCHANGED <<dashboard, job, done>>

------------------------------------------------------------------------------
Init ==
  /\ dashboard \in BOOLEAN
  /\ job = [s \in Servers |-> [i \in Ids |-> "NEW"]]
  /\ file \in {{s} : s \in Servers} \cup {{}}
  /\ owners = file
  /\ exec = [i \in {} |-> i]
  /\ tick = Idle
  /\ done = {}

Tick    == Begin \/ ServeHeartbeat \/ MissReply \/ HandleReply \/ (\E i \in Ids : Report(i)) \/ EndTick
Runners == \E i \in Ids : Finish(i) \/ Drop(i)
Others  ==
  \/ \E s \in Servers, i \in Ids : ServerMoves(s, i)
  \/ EditFile
  \/ \E s \in Servers : RegisterOwner(s)
  \/ RestartService

Next == Tick \/ Runners \/ Others
Spec == Init /\ [][Next]_vars

------------------------------------------------------------------------------
(* Properties.                                                             *)

\* Tables, flags and the loop's locals are well formed.
TypeOK ==
  /\ dashboard \in BOOLEAN
  /\ job \in [Servers -> [Ids -> Statuses]]
  /\ file \subseteq Servers /\ owners \subseteq Servers
  /\ DOMAIN exec \subseteq Ids /\ exec \in [DOMAIN exec -> Execution]
  /\ tick.at \in {"idle", "asking", "reply", "reporting"}
  /\ tick.at \in {"asking", "reply"} => tick.server \in Servers /\ tick.running \subseteq Ids
  /\ tick.at = "reply" =>
       /\ tick.stops \subseteq tick.running /\ tick.starts \subseteq Ids \ tick.running
       /\ tick.command \in Commands
  /\ tick.at = "reporting" => tick.pending \subseteq Ids
  /\ done \subseteq Servers \X Ids

\* AgentConfig: "Exactly one may own jobs": the running service never obeys
\* two servers, whatever the file says when it starts and whoever moves the
\* ownership.
AtMostOneOwner == Cardinality(owners) <= 1

\* Worker.cs: "Results go only to the server that assigned the work": no server
\* holds a job COMPLETED that nobody executed for it, although another server's
\* job of that number finished on the same machine.
ResultsGoHome ==
  \A s \in Servers, i \in Ids : job[s][i] = "COMPLETED" => <<s, i>> \in done

\* It holds as long as the ownership moves only by the file and a restart,
\* however often it does.
ResultsGoHomeIfLocal == ~ dashboard => ResultsGoHome

\* An execution is only ever stopped by the server that assigned it, although
\* every server is sent its number and answers that no such job runs.
StopsComeHomeIfLocal ==
  [][ ~ dashboard =>
        \A i \in DOMAIN exec \cap DOMAIN exec' :
          exec[i].phase = "running" /\ exec'[i].phase = "killed" => exec[i].from = tick.server
    ]_vars

\* As long as the ownership moves only by the file and a restart, nothing of an
\* execution goes to another server than the one that assigned it, or comes
\* from another.
ExecutionsStayHome == []ResultsGoHomeIfLocal /\ StopsComeHomeIfLocal
==============================================================================
