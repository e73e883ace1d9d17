---------------------------- MODULE ClientProofs -----------------------------
(*****************************************************************************)
(* Proofs about the clients of the servers: an Agent that serves two of them *)
(* (DualServer), and the pages of the web application, which are the         *)
(* dashboard, the job queue, the audit log and the thumbnails of the remote  *)
(* page.  Each part is about one module, for any value of its constants.     *)
(*****************************************************************************)
EXTENDS DualServer, Dashboard, QueuePage, AuditPage, RemotePreview, FiniteSetTheorems, TLAPS

------------------------------------------------------------------------------
(* An Agent that serves two servers, for any number of servers and job     *)
(* numbers.                                                                *)
(*                                                                         *)
(* The code keeps no record of where an execution came from.  While the    *)
(* ownership moves only by the file, it need not: the running service's    *)
(* owner changes at a restart alone, which forgets the executions, so all  *)
(* of them are the owner's (OwnersOnly).                                   *)

\* The service has marked one server at most.
Single == \A s, t \in owners : s = t

\* Every execution is the owner's, as long as only the file moves ownership.
OwnersOnly == ~ dashboard => \A i \in DOMAIN exec : exec[i].from \in owners

\* An execution that ended well is in the history.
EndedWell ==
  \A i \in DOMAIN exec :
    exec[i].phase = "finished" /\ exec[i].ok => <<exec[i].from, i>> \in done

\* What the loop is about to report has ended and is still tracked.
Due ==
  tick.at = "reporting" =>
    \A i \in tick.pending : i \in DOMAIN exec /\ exec[i].phase = "finished"

DInv ==
  /\ TypeOK
  /\ Single
  /\ OwnersOnly
  /\ EndedWell
  /\ Due
  /\ ResultsGoHomeIfLocal

------------------------------------------------------------------------------
\* AgentConfig.JobOwner picks at most one of the servers marked.
LEMMA FirstIsSingle ==
  ASSUME NEW flags, flags \subseteq Servers
  PROVE  /\ JobOwner(flags) \subseteq flags
         /\ \A s, t \in JobOwner(flags) : s = t
         /\ (\A s, t \in flags : s = t) => JobOwner(flags) = flags
<1>1. \A s \in flags : s \in Int
  BY DualAssumption DEF Servers
<1> QED
  BY <1>1 DEF JobOwner

\* Without dashboards a reply leaves the ownership where it is.
LEMMA OwnersStay ==
  ASSUME TypeOK, Single, ~ dashboard, tick.at = "reply", ApplyCommand
  PROVE  owners' = owners /\ file' = file
<1>1. tick.command = "none"
  BY DEF TypeOK, Commands
<1>2. JobOwner(owners) \subseteq Servers
  BY FirstIsSingle DEF TypeOK
<1>3. Target(tick.server, tick.command) = JobOwner(owners)
  BY <1>1, <1>2 DEF Target
<1> QED
  BY <1>3 DEF ApplyCommand

\* Whatever a reply commands, one owner at most remains.
LEMMA CommandKeepsSingle ==
  ASSUME TypeOK, Single, tick.at = "reply", ApplyCommand
  PROVE  /\ owners' \subseteq Servers /\ file' \subseteq Servers
         /\ \A s, t \in owners' : s = t
<1>1. tick.server \in Servers /\ owners \subseteq Servers /\ file \subseteq Servers
  BY DEF TypeOK
<1>2. /\ Target(tick.server, tick.command) \subseteq Servers
      /\ \A s, t \in Target(tick.server, tick.command) : s = t
  <2>1. /\ JobOwner(owners) \subseteq Servers
        /\ \A s, t \in JobOwner(owners) : s = t
    BY <1>1, FirstIsSingle
  <2>2. ServerCount = 2 => \A s, t \in Servers \ {tick.server} : s = t
    BY <1>1 DEF Servers
  <2> QED
    BY <2>1, <2>2 DEF Target
<1> QED
  BY <1>1, <1>2 DEF ApplyCommand, Single

\* A result of one server's job changes that server's rows of those numbers
\* only, and makes COMPLETED only what was RUNNING.
LEMMA CompletedRow ==
  ASSUME NEW s \in Servers, NEW ids, NEW status \in Statuses, TypeOK
  PROVE  /\ Completed(s, ids, status) \in [Servers -> [Ids -> Statuses]]
         /\ \A r \in Servers, i \in Ids :
              \/ Completed(s, ids, status)[r][i] = job[r][i]
              \/ r = s /\ i \in ids /\ Completed(s, ids, status)[r][i] = status
BY DEF TypeOK, Completed

------------------------------------------------------------------------------
LEMMA InitDInv == Init => DInv
BY FirstIsSingle DEF Init, DInv, TypeOK, Single, OwnersOnly, EndedWell, Due,
   ResultsGoHomeIfLocal, ResultsGoHome, Statuses, Execution, Idle, Servers

\* One step per kind of action; what a step leaves alone is read off it.
LEMMA JobsKept ==
  ASSUME DInv, UNCHANGED <<job, dashboard>>, done \subseteq done'
  PROVE  ResultsGoHomeIfLocal'
BY DEF DInv, ResultsGoHomeIfLocal, ResultsGoHome

\* Where the loop goes after a server's reply is well formed.
LEMMA AfterServerOK ==
  ASSUME TypeOK, tick.at \in {"asking", "reply"}, DOMAIN exec' \subseteq Ids,
         tick' = AfterServer(tick.server)
  PROVE  /\ tick'.at \in {"asking", "reporting"}
         /\ tick'.at = "asking" => tick'.server \in Servers /\ tick'.running \subseteq Ids
         /\ tick'.at = "reporting" => tick'.pending \subseteq Ids
         /\ Due'
<1>1. tick.server \in Servers /\ tick.running \subseteq Ids
  BY DEF TypeOK
<1>2. CASE tick.server < ServerCount
  <2>1. tick' = Asking(tick.server + 1, tick.running)
    BY <1>2 DEF AfterServer
  <2>2. tick.server + 1 \in Servers
    BY <1>1, <1>2, DualAssumption DEF Servers
  <2> QED
    BY <1>1, <2>1, <2>2 DEF Asking, Due
<1>3. CASE ~ (tick.server < ServerCount)
  <2>1. PICK pending \in SUBSET {i \in DOMAIN exec' : exec'[i].phase = "finished"} :
          tick' = Reporting(pending)
    BY <1>3 DEF AfterServer
  <2> QED
    BY <2>1 DEF Reporting, Due
<1> QED
  BY <1>2, <1>3

LEMMA BeginStep ==
  ASSUME DInv, Begin, UNCHANGED dashboard
  PROVE  DInv'
<1>1. Unfinished \subseteq Ids /\ 1 \in Servers
  BY DualAssumption DEF DInv, TypeOK, Unfinished, Servers
<1>2. TypeOK'
  BY <1>1 DEF DInv, TypeOK, Begin, Asking, Commands
<1> QED
  BY <1>2, JobsKept DEF DInv, Begin, Asking, Single, OwnersOnly, EndedWell, Due

LEMMA ServeStep ==
  ASSUME DInv, ServeHeartbeat, UNCHANGED dashboard
  PROVE  DInv'
<1> DEFINE starts == NewlyAssigned(tick.server)
<1> DEFINE stops  == {i \in tick.running : job[tick.server][i] # "RUNNING"}
<1>1. /\ tick.server \in Servers /\ tick.running \subseteq Ids
      /\ starts \subseteq Ids \ tick.running /\ stops \subseteq tick.running
  BY DEF DInv, TypeOK, ServeHeartbeat, NewlyAssigned
<1>2. PICK command \in Commands : tick' = Reply(tick.server, tick.running, stops, starts, command)
  BY DEF ServeHeartbeat
<1>3. job' = [job EXCEPT ![tick.server] = [i \in Ids |-> IF i \in starts THEN "RUNNING" ELSE job[tick.server][i]]]
  BY DEF ServeHeartbeat
<1>4. /\ job' \in [Servers -> [Ids -> Statuses]]
      /\ \A s \in Servers, i \in Ids : job'[s][i] = "COMPLETED" => job[s][i] = "COMPLETED"
  BY <1>1, <1>3 DEF DInv, TypeOK, Statuses
<1>5. TypeOK'
  BY <1>1, <1>2, <1>4 DEF DInv, TypeOK, ServeHeartbeat, Reply, Commands
<1> QED
  BY <1>4, <1>5 DEF DInv, ServeHeartbeat, Reply, Single, OwnersOnly, EndedWell, Due,
     ResultsGoHomeIfLocal, ResultsGoHome

LEMMA MissStep ==
  ASSUME DInv, MissReply, UNCHANGED dashboard
  PROVE  DInv'
<1>1. TypeOK' /\ Due'
  BY AfterServerOK DEF DInv, TypeOK, MissReply, Commands
<1> QED
  BY <1>1, JobsKept DEF DInv, MissReply, Single, OwnersOnly, EndedWell

\* The heart: what the owner starts is the owner's, and what another server
\* assigned is only failed.
LEMMA HandleStep ==
  ASSUME DInv, HandleReply, UNCHANGED dashboard
  PROVE  DInv'
<1>1. /\ tick.server \in Servers /\ tick.starts \subseteq Ids
      /\ tick.at = "reply" /\ ApplyCommand /\ done' = done
  BY DEF DInv, TypeOK, HandleReply
<1>2. owners' \subseteq Servers /\ file' \subseteq Servers /\ Single'
  BY <1>1, CommandKeepsSingle DEF DInv, Single
<1>3. ~ dashboard => owners' = owners
  BY <1>1, OwnersStay DEF DInv
<1>4. CASE Obey(tick.server)
  <2>1. Startable \subseteq Ids /\ DOMAIN exec \subseteq Ids
    BY <1>1 DEF Startable, DInv, TypeOK
  <2>2. /\ DOMAIN exec' = DOMAIN exec \cup Startable
        /\ \A i \in DOMAIN exec' :
             \/ exec'[i] = Launched(tick.server)
             \/ i \in DOMAIN exec /\ exec'[i] = [exec[i] EXCEPT !.phase = "killed"]
             \/ i \in DOMAIN exec /\ exec'[i] = exec[i]
        /\ exec' = [i \in DOMAIN exec' |-> exec'[i]]
    BY <1>4 DEF Obey
  <2>3. Launched(tick.server) \in Execution
    BY <1>1 DEF Launched, Execution, Running
  <2>4. \A i \in DOMAIN exec :
          /\ exec[i] \in Execution
          /\ [exec[i] EXCEPT !.phase = "killed"] \in Execution
          /\ [exec[i] EXCEPT !.phase = "killed"].from = exec[i].from
          /\ [exec[i] EXCEPT !.phase = "killed"].phase = "killed"
    BY DEF DInv, TypeOK, Execution, Running
  <2>5. exec' \in [DOMAIN exec' -> Execution] /\ DOMAIN exec' \subseteq Ids
    BY <2>1, <2>2, <2>3, <2>4
  <2>6. TypeOK' /\ Due'
    <3>1. job' = job
      BY <1>4 DEF Obey
    <3>2. tick' = AfterServer(tick.server)
      BY DEF HandleReply
    <3> QED
      BY <1>1, <1>2, <2>5, <3>1, <3>2, AfterServerOK DEF DInv, TypeOK, Commands
  <2>7. OwnersOnly'
    BY <1>3, <1>4, <2>2, <2>4 DEF DInv, OwnersOnly, Obey, Obeys, Launched
  <2>8. EndedWell'
    <3> SUFFICES ASSUME NEW i \in DOMAIN exec', exec'[i].phase = "finished", exec'[i].ok
                 PROVE  <<exec'[i].from, i>> \in done
      BY <1>1 DEF EndedWell
    <3>1. exec'[i] # Launched(tick.server)
      BY DEF Launched
    <3>2. i \in DOMAIN exec /\ exec'[i] = exec[i]
      BY <2>2, <2>4, <3>1
    <3> QED
      BY <3>2 DEF DInv, EndedWell
  <2> QED
    BY <1>1, <1>2, <1>4, <2>6, <2>7, <2>8, JobsKept DEF DInv, Obey
<1>5. CASE Reject(tick.server)
  <2>1. PICK heard \in SUBSET tick.starts : job' = Completed(tick.server, heard, "FAILED")
    BY <1>5 DEF Reject
  <2>2. /\ job' \in [Servers -> [Ids -> Statuses]]
        /\ \A s \in Servers, i \in Ids : job'[s][i] = job[s][i] \/ job'[s][i] = "FAILED"
    BY <1>1, <2>1, CompletedRow DEF DInv, Statuses
  <2>3. exec' = exec
    BY <1>5 DEF Reject
  <2>4. TypeOK' /\ Due'
    <3>1. tick' = AfterServer(tick.server)
      BY DEF HandleReply
    <3> QED
      BY <1>1, <1>2, <2>2, <2>3, <3>1, AfterServerOK DEF DInv, TypeOK, Commands
  <2>5. OwnersOnly' /\ EndedWell'
    BY <1>1, <1>3, <2>3 DEF DInv, OwnersOnly, EndedWell
  <2>6. ResultsGoHomeIfLocal'
    BY <1>1, <2>2 DEF DInv, ResultsGoHomeIfLocal, ResultsGoHome
  <2> QED
    BY <1>2, <2>4, <2>5, <2>6 DEF DInv
<1> QED
  BY <1>4, <1>5 DEF HandleReply

\* A result goes to the owner, whose execution it is.
LEMMA ReportStep ==
  ASSUME DInv, NEW i \in Ids, Report(i), UNCHANGED dashboard
  PROVE  DInv'
<1>1. tick.at = "reporting" /\ i \in tick.pending /\ tick.pending \subseteq Ids
  BY DEF Report, DInv, TypeOK
<1>2. UNCHANGED <<file, owners, done>> /\ tick' = Reporting(tick.pending \ {i})
  BY DEF Report
<1>3. PICK s \in Recipient :
        \/ /\ job' = Completed(s, {i}, Outcome(i))
           /\ exec' = [j \in DOMAIN exec \ {i} |-> exec[j]]
        \/ /\ job' \in {job, Completed(s, {i}, Outcome(i))}
           /\ UNCHANGED exec
  BY DEF Report
<1>4. s \in Servers /\ s \in owners
  BY FirstIsSingle DEF Recipient, DInv, TypeOK
<1>5. Outcome(i) \in Statuses
  BY DEF Outcome, Statuses
<1>6. /\ job' \in [Servers -> [Ids -> Statuses]]
      /\ \A r \in Servers, j \in Ids :
           job'[r][j] = job[r][j] \/ (r = s /\ j = i /\ job'[r][j] = Outcome(i))
  <2>1. TypeOK /\ job \in [Servers -> [Ids -> Statuses]]
    BY DEF DInv, TypeOK
  <2>2. CASE job' = Completed(s, {i}, Outcome(i))
    BY <1>4, <1>5, <2>1, <2>2, CompletedRow
  <2>3. CASE job' = job
    BY <2>1, <2>3
  <2> QED
    BY <1>3, <2>2, <2>3
<1>7. /\ DOMAIN exec' \subseteq DOMAIN exec
      /\ \A j \in DOMAIN exec' : exec'[j] = exec[j]
      /\ exec' \in [DOMAIN exec' -> Execution]
  BY <1>3 DEF DInv, TypeOK
<1>8. TypeOK'
  BY <1>1, <1>2, <1>6, <1>7 DEF DInv, TypeOK, Reporting, Commands
<1>9. Single' /\ OwnersOnly' /\ EndedWell'
  BY <1>2, <1>7 DEF DInv, Single, OwnersOnly, EndedWell
<1>10. Due'
  <2>1. \A j \in tick.pending \ {i} : j \in DOMAIN exec'
    BY <1>1, <1>3 DEF DInv, Due
  <2> QED
    BY <1>1, <1>2, <1>7, <2>1 DEF DInv, Due, Reporting
<1>11. ResultsGoHomeIfLocal'
  <2> SUFFICES ASSUME ~ dashboard, NEW r \in Servers, NEW j \in Ids, job'[r][j] = "COMPLETED"
               PROVE  <<r, j>> \in done
    BY <1>2 DEF ResultsGoHomeIfLocal, ResultsGoHome
  <2>1. CASE job'[r][j] = job[r][j]
    BY <2>1 DEF DInv, ResultsGoHomeIfLocal, ResultsGoHome
  <2>2. CASE r = s /\ j = i /\ job'[r][j] = Outcome(i)
    <3>1. i \in DOMAIN exec /\ exec[i].phase = "finished" /\ exec[i].ok
      BY <1>1, <2>2 DEF DInv, Due, Outcome
    <3>2. exec[i].from = s
      BY <1>4, <3>1 DEF DInv, Single, OwnersOnly
    <3> QED
      BY <2>2, <3>1, <3>2 DEF DInv, EndedWell
  <2> QED
    BY <1>6, <2>1, <2>2
<1> QED
  BY <1>8, <1>9, <1>10, <1>11 DEF DInv

LEMMA EndStep ==
  ASSUME DInv, EndTick, UNCHANGED dashboard
  PROVE  DInv'
<1>1. TypeOK' /\ Due'
  BY DEF DInv, TypeOK, EndTick, Idle, Due, Commands
<1> QED
  BY <1>1, JobsKept DEF DInv, EndTick, Single, OwnersOnly, EndedWell

\* What a runner ends well enters the history.
LEMMA FinishStep ==
  ASSUME DInv, NEW i \in Ids, Finish(i), UNCHANGED dashboard
  PROVE  DInv'
<1>1. i \in DOMAIN exec /\ exec[i] \in Execution /\ exec[i].phase \in Running
  BY DEF Finish, Unfinished, DInv, TypeOK
<1>2. PICK ok \in BOOLEAN :
        /\ exec' = [exec EXCEPT ![i].phase = "finished", ![i].ok = ok]
        /\ done' = IF ok THEN done \cup {<<exec[i].from, i>>} ELSE done
  BY DEF Finish
<1>3. UNCHANGED <<job, file, owners, tick>>
  BY DEF Finish
<1>4. /\ DOMAIN exec' = DOMAIN exec
      /\ exec'[i].phase = "finished" /\ exec'[i].ok = ok /\ exec'[i].from = exec[i].from
      /\ exec'[i] \in Execution
      /\ \A j \in DOMAIN exec \ {i} : exec'[j] = exec[j]
      /\ exec' \in [DOMAIN exec -> Execution]
  BY <1>1, <1>2 DEF DInv, TypeOK, Execution, Running
<1>5. done' \subseteq Servers \X Ids /\ done \subseteq done'
  BY <1>1, <1>2 DEF DInv, TypeOK, Execution
<1>6. TypeOK'
  BY <1>3, <1>4, <1>5 DEF DInv, TypeOK, Commands
<1>7. Single' /\ OwnersOnly' /\ Due'
  BY <1>3, <1>4 DEF DInv, Single, OwnersOnly, Due
<1>8. EndedWell'
  <2> SUFFICES ASSUME NEW j \in DOMAIN exec', exec'[j].phase = "finished", exec'[j].ok
               PROVE  <<exec'[j].from, j>> \in done'
    BY DEF EndedWell
  <2>1. CASE j = i
    BY <1>2, <1>4, <2>1
  <2>2. CASE j # i
    BY <1>4, <1>5, <2>2 DEF DInv, EndedWell
  <2> QED
    BY <2>1, <2>2
<1> QED
  BY <1>3, <1>5, <1>6, <1>7, <1>8, JobsKept DEF DInv

LEMMA DropStep ==
  ASSUME DInv, NEW i \in Ids, Drop(i), UNCHANGED dashboard
  PROVE  DInv'
<1>1. /\ DOMAIN exec' = DOMAIN exec \ {i} /\ exec[i].phase = "killed"
      /\ \A j \in DOMAIN exec' : exec'[j] = exec[j]
      /\ exec' \in [DOMAIN exec' -> Execution]
  BY DEF Drop, DInv, TypeOK
<1>2. UNCHANGED <<job, file, owners, tick, done>>
  BY DEF Drop
<1>3. TypeOK'
  BY <1>1, <1>2 DEF DInv, TypeOK, Commands
<1>4. Single' /\ OwnersOnly' /\ EndedWell' /\ Due'
  BY <1>1, <1>2 DEF DInv, Single, OwnersOnly, EndedWell, Due
<1> QED
  BY <1>2, <1>3, <1>4, JobsKept DEF DInv

LEMMA MovesStep ==
  ASSUME DInv, NEW s \in Servers, NEW i \in Ids, ServerMoves(s, i), UNCHANGED dashboard
  PROVE  DInv'
<1>1. PICK turn \in Turns : job' = [job EXCEPT ![s][i] = turn[2]]
  BY DEF ServerMoves
<1>2. turn[2] \in Statuses /\ turn[2] # "COMPLETED"
  BY DEF Turns, Statuses
<1>3. /\ job' \in [Servers -> [Ids -> Statuses]]
      /\ \A r \in Servers, j \in Ids : job'[r][j] = "COMPLETED" => job[r][j] = "COMPLETED"
  BY <1>1, <1>2 DEF DInv, TypeOK
<1>4. UNCHANGED <<file, owners, exec, tick, done>>
  BY DEF ServerMoves
<1>5. TypeOK'
  BY <1>3, <1>4 DEF DInv, TypeOK, Commands
<1> QED
  BY <1>3, <1>4, <1>5 DEF DInv, Single, OwnersOnly, EndedWell, Due, ResultsGoHomeIfLocal, ResultsGoHome

\* The file alone changes nothing in the running service.
LEMMA FileStep ==
  ASSUME DInv, file' \subseteq Servers, UNCHANGED <<dashboard, job, owners, exec, tick, done>>
  PROVE  DInv'
<1>1. TypeOK'
  BY DEF DInv, TypeOK, Commands
<1> QED
  BY <1>1, JobsKept DEF DInv, Single, OwnersOnly, EndedWell, Due

\* A restart takes the owner of the file and forgets the executions.
LEMMA RestartStep ==
  ASSUME DInv, RestartService, UNCHANGED dashboard
  PROVE  DInv'
<1>1. /\ file' \subseteq Servers /\ owners' = file'
      /\ \A s, t \in owners' : s = t
  BY FirstIsSingle DEF RestartService, NormalizeServers, DInv, TypeOK
<1>2. DOMAIN exec' = {} /\ exec' \in [{} -> Execution] /\ tick'.at = "idle"
  BY DEF RestartService, Idle
<1>3. TypeOK'
  BY <1>1, <1>2 DEF DInv, TypeOK, RestartService, Commands
<1>4. Single' /\ OwnersOnly' /\ EndedWell' /\ Due'
  BY <1>1, <1>2 DEF Single, OwnersOnly, EndedWell, Due
<1> QED
  BY <1>3, <1>4, JobsKept DEF DInv, RestartService

LEMMA NextDInv == DInv /\ [Next]_vars => DInv'
<1> SUFFICES ASSUME DInv, [Next]_vars PROVE DInv'
  OBVIOUS
<1>1. CASE UNCHANGED vars
  <2>1. file' \subseteq Servers
    BY <1>1 DEF vars, DInv, TypeOK
  <2> QED
    BY <1>1, <2>1, FileStep DEF vars
<1>2. CASE Next
  <2>1. UNCHANGED dashboard
    <3>1. CASE Tick
      BY <3>1 DEF Tick, Begin, ServeHeartbeat, MissReply, HandleReply, Report, EndTick
    <3>2. CASE Runners
      BY <3>2 DEF Runners, Finish, Drop
    <3>3. CASE Others
      BY <3>3 DEF Others, ServerMoves, EditFile, RegisterOwner, RestartService
    <3> QED
      BY <1>2, <3>1, <3>2, <3>3 DEF Next
  <2>2. CASE Tick
    BY <2>1, <2>2, BeginStep, ServeStep, MissStep, HandleStep, ReportStep, EndStep DEF Tick
  <2>3. CASE Runners
    BY <2>1, <2>3, FinishStep, DropStep DEF Runners
  <2>4. CASE \E s \in Servers, i \in Ids : ServerMoves(s, i)
    BY <2>1, <2>4, MovesStep
  <2>5. CASE EditFile
    BY <2>1, <2>5, FileStep DEF EditFile
  <2>6. CASE \E s \in Servers : RegisterOwner(s)
    BY <2>1, <2>6, FileStep DEF RegisterOwner
  <2>7. CASE RestartService
    BY <2>1, <2>7, RestartStep
  <2> QED
    BY <1>2, <2>2, <2>3, <2>4, <2>5, <2>6, <2>7 DEF Next, Others
<1> QED
  BY <1>1, <1>2

------------------------------------------------------------------------------
\* The invariant of which the others are parts or consequences, for every
\* number of servers and jobs.
THEOREM DualInductive == Spec => []DInv
BY InitDInv, NextDInv, PTL DEF Spec

\* AgentConfig: "Exactly one may own jobs": the service never obeys two
\* servers, whatever the file says and whoever moves the ownership.
THEOREM OneOwner == Spec => []AtMostOneOwner
<1>1. DInv => AtMostOneOwner
  <2> SUFFICES ASSUME DInv PROVE Cardinality(owners) <= 1
    BY DEF AtMostOneOwner
  <2>1. CASE owners = {}
    <3>1. Cardinality(owners) = 0
      BY <2>1, FS_EmptySet
    <3> QED
      BY <3>1
  <2>2. CASE owners # {}
    <3>1. PICK s \in owners : owners = {s}
      BY <2>2 DEF DInv, Single
    <3>2. Cardinality(owners) = 1
      BY <3>1, FS_Singleton
    <3> QED
      BY <3>2
  <2> QED
    BY <2>1, <2>2
<1> QED
  BY <1>1, DualInductive, PTL

\* Worker.cs: "Results go only to the server that assigned the work", as long
\* as the ownership moves only by the file and a restart.
THEOREM ResultsComeHome == Spec => []ResultsGoHomeIfLocal
<1>1. DInv => ResultsGoHomeIfLocal
  BY DEF DInv
<1> QED
  BY <1>1, DualInductive, PTL

\* Under the same condition only the server that assigned an execution ever
\* stops it.
THEOREM StopsComeHome == Spec => StopsComeHomeIfLocal
<1> DEFINE Home == ~ dashboard =>
             \A i \in DOMAIN exec \cap DOMAIN exec' :
               exec[i].phase = "running" /\ exec'[i].phase = "killed" => exec[i].from = tick.server
<1>1. ASSUME DInv, Next PROVE Home
  <2> SUFFICES ASSUME ~ dashboard, NEW i \in DOMAIN exec \cap DOMAIN exec',
                      exec[i].phase = "running", exec'[i].phase = "killed"
               PROVE  exec[i].from = tick.server
    OBVIOUS
  <2>1. HandleReply
    <3>1. exec[i].phase # exec'[i].phase
      OBVIOUS
    <3>2. ~ Begin /\ ~ ServeHeartbeat /\ ~ MissReply /\ ~ EndTick
      BY <3>1 DEF Begin, ServeHeartbeat, MissReply, EndTick
    <3>3. \A j \in Ids : ~ Report(j) /\ ~ Drop(j)
      BY <3>1 DEF Report, Drop
    <3>4. ASSUME NEW j \in Ids, Finish(j) PROVE FALSE
      <4>1. exec[j] \in Execution
        BY <1>1, <3>4 DEF Finish, Unfinished, Running, DInv, TypeOK
      <4>2. PICK ok \in BOOLEAN : exec' = [exec EXCEPT ![j].phase = "finished", ![j].ok = ok]
        BY <3>4 DEF Finish
      <4>3. i = j => exec'[i].phase = "finished"
        BY <4>1, <4>2 DEF Execution, Running
      <4>4. i # j => exec'[i] = exec[i]
        BY <4>2
      <4> QED
        BY <3>1, <4>3, <4>4
    <3>5. ~ Others
      BY <3>1 DEF Others, ServerMoves, EditFile, RegisterOwner, RestartService
    <3> QED
      BY <1>1, <3>2, <3>3, <3>4, <3>5 DEF Next, Tick, Runners
  <2>2. owners' = owners
    BY <1>1, <2>1, OwnersStay DEF HandleReply, DInv
  <2>3. tick.server \in owners
    BY <2>1, <2>2 DEF HandleReply, Obey, Obeys, Reject
  <2> QED
    BY <1>1, <2>3 DEF DInv, Single, OwnersOnly
<1>2. DInv /\ [Next]_vars => [Home]_vars
  BY <1>1
<1> QED
  BY <1>2, DualInductive, PTL DEF Spec, StopsComeHomeIfLocal

\* Both: as long as the ownership moves only by the file and a restart, an
\* execution has to do with the server that assigned it and with no other.
THEOREM ExecutionsAtHome == Spec => ExecutionsStayHome
BY ResultsComeHome, StopsComeHome DEF ExecutionsStayHome

------------------------------------------------------------------------------
(* The dashboard.  The one refresh under way was begun after what is shown *)
(* had arrived, so none of its answers is older.                           *)

Counts == {"statuses", "jobs"}

FlightOK(f) ==
  /\ f = [l \in Lists |-> f[l]]
  /\ f["machines"] \in [Machines -> Pools] \cup {Pending, Failed}
  /\ \A l \in Counts :
       /\ f[l] \in 0..news \cup {Pending, Failed}
       /\ f[l] \notin {Pending, Failed} /\ shown[l] # None => f[l] >= shown[l]

DashboardInv ==
  /\ DashboardTypeOK /\ shown = [l \in Lists |-> shown[l]]
  /\ \A f, g \in flights : f = g
  /\ \A f \in flights : FlightOK(f)

LEMMA OneFlight ==
  ASSUME NEW S, \A f, g \in S : f = g
  PROVE  Cardinality(S) <= 1
<1>1. CASE S = {}
  BY <1>1, FS_EmptySet
<1>2. ASSUME NEW f \in S PROVE Cardinality(S) <= 1
  <2>1. S = {f}
    OBVIOUS
  <2>2. Cardinality({f}) = 1
    BY FS_Singleton
  <2> QED BY <2>1, <2>2
<1> QED BY <1>1, <1>2

\* A new refresh has no answer yet.
LEMMA RefreshKeeps ==
  ASSUME DashboardInv, refresh, UNCHANGED news,
         \A l \in Counts : shown'[l] = shown[l]
  PROVE  /\ Cardinality(flights') <= 1
         /\ \A f, g \in flights' : f = g
         /\ \A f \in flights' : FlightOK(f)'
<1>1. \A f, g \in flights' : f = g
  BY DEF DashboardInv, refresh, inFlight
<1>2. \A l \in Lists : [m \in Lists |-> Pending][l] = Pending
  OBVIOUS
<1>3. FlightOK([l \in Lists |-> Pending])'
  BY <1>2 DEF FlightOK, Lists, Counts
<1>4. ASSUME NEW f \in flights PROVE FlightOK(f)'
  BY DEF FlightOK, DashboardInv
<1> QED BY <1>1, <1>3, <1>4, OneFlight DEF refresh, inFlight

\* The flight that is answered is the only one.
LEMMA FlightKeeps ==
  ASSUME DashboardInv, NEW f \in flights, NEW g, flights' = (flights \ {f}) \cup {g}, FlightOK(g),
         UNCHANGED <<registry, news, shown, errors, toggle, adding>>
  PROVE  DashboardInv'
<1>1. flights' = {g}
  BY DEF DashboardInv
<1>2. FlightOK(g)'
  BY DEF FlightOK
<1>3. Cardinality(flights') <= 1
  BY <1>1, OneFlight
<1> QED BY <1>1, <1>2, <1>3 DEF DashboardInv, DashboardTypeOK

LEMMA AnswerKeeps ==
  ASSUME DashboardInv, NEW f \in flights, NEW l \in Lists, Answer(f, l) \/ Fail(f, l)
  PROVE  DashboardInv'
<1>1. PICK v : /\ v = Current(l) \/ v = Failed
               /\ flights' = (flights \ {f}) \cup {[f EXCEPT ![l] = v]}
               /\ UNCHANGED <<registry, news, shown, errors, toggle, adding>>
  BY DEF Answer, Fail
<1> DEFINE g == [f EXCEPT ![l] = v]
<1>2. /\ FlightOK(f) /\ DOMAIN f = Lists
      /\ registry \in [Machines -> Pools] /\ news \in Nat
      /\ \A k \in Counts : shown[k] \in 0..news \cup {None}
  BY DashboardAssumption DEF DashboardInv, FlightOK, DashboardTypeOK, Counts
<1>3. /\ g = [k \in Lists |-> g[k]] /\ g[l] = v
      /\ \A k \in Lists \ {l} : g[k] = f[k]
  BY <1>2
<1>4. g["machines"] \in [Machines -> Pools] \cup {Pending, Failed}
  BY <1>1, <1>2, <1>3 DEF FlightOK, Current, Lists
<1>5. ASSUME NEW k \in Counts
      PROVE  /\ g[k] \in 0..news \cup {Pending, Failed}
             /\ g[k] \notin {Pending, Failed} /\ shown[k] # None => g[k] >= shown[k]
  <2>1. CASE k # l
    BY <1>2, <1>3, <2>1 DEF FlightOK, Counts, Lists
  <2>2. CASE k = l
    BY <1>1, <1>2, <1>3, <2>2 DEF Current, Counts
  <2> QED BY <2>1, <2>2
<1>6. FlightOK(g)
  BY <1>3, <1>4, <1>5 DEF FlightOK
<1> QED BY <1>1, <1>6, FlightKeeps

\* What the refresh that has arrived puts on the page.
LEMMA Arriving ==
  ASSUME DashboardInv, NEW f \in flights, Settle(f)
  PROVE  /\ DashboardInv'
         /\ \A l \in Counts : shown[l] # None => shown'[l] # None /\ shown'[l] >= shown[l]
<1>1. /\ shown' = [l \in Lists |-> IF f[l] = Failed THEN shown[l] ELSE f[l]]
      /\ \A l \in Lists : f[l] # Pending
      /\ errors' \subseteq Lists /\ flights' = {}
      /\ UNCHANGED <<registry, news, toggle, adding>>
  BY DEF Settle, Landed, DashboardInv
<1>2. /\ FlightOK(f) /\ news \in Nat
      /\ \A k \in Counts : shown[k] \in 0..news \cup {None}
  BY DashboardAssumption DEF DashboardInv, DashboardTypeOK, Counts
<1>3. shown'["machines"] \in [Machines -> Pools] \cup {None}
  BY <1>1, <1>2 DEF FlightOK, DashboardInv, DashboardTypeOK, Lists
<1>4. ASSUME NEW l \in Counts
      PROVE  /\ shown'[l] \in 0..news \cup {None}
             /\ shown[l] # None => shown'[l] # None /\ shown'[l] >= shown[l]
  <2>1. shown'[l] = IF f[l] = Failed THEN shown[l] ELSE f[l]
    BY <1>1 DEF Lists, Counts
  <2>2. f[l] # Pending
    BY <1>1 DEF Lists, Counts
  <2> QED BY <1>2, <2>1, <2>2, WebAppAssumption DEF FlightOK
<1>5. Cardinality(flights') <= 1
  BY <1>1, OneFlight
<1> QED BY <1>1, <1>3, <1>4, <1>5 DEF DashboardInv, DashboardTypeOK, Counts

\* Adding a machine, and every step that leaves the refreshes alone, keeps the counts.
LEMMA ServerKeeps ==
  ASSUME DashboardInv, UNCHANGED <<shown, errors, flights>>,
         registry' \in [Machines -> Pools], news' \in 0..MaxNews, news' >= news,
         toggle' \in [Machines -> {None, "in", "out", "done"}], adding' \in Machines \cup {None}
  PROVE  DashboardInv'
<1>1. 0..news \subseteq 0..news' /\ news \in Nat
  BY DashboardAssumption DEF DashboardInv, DashboardTypeOK
<1>2. ASSUME NEW f \in flights PROVE FlightOK(f)'
  BY <1>1 DEF DashboardInv, FlightOK
<1>3. shown'["statuses"] \in 0..news' \cup {None} /\ shown'["jobs"] \in 0..news' \cup {None}
  BY <1>1 DEF DashboardInv, DashboardTypeOK
<1> QED BY <1>2, <1>3 DEF DashboardInv, DashboardTypeOK

LEMMA AddedKeeps ==
  ASSUME DashboardInv, Added
  PROVE  DashboardInv' /\ \A l \in Counts : shown'[l] = shown[l]
<1>1. /\ shown' = [shown EXCEPT !["machines"] =
           [m \in Machines |-> IF m = adding THEN "in" ELSE IF @ = None THEN "absent" ELSE @[m]]]
      /\ adding' = None /\ refresh
      /\ UNCHANGED <<registry, news, errors, toggle>>
  BY DEF Added
<1>2. shown = [l \in Lists |-> shown[l]] /\ shown["machines"] \in [Machines -> Pools] \cup {None}
  BY DEF DashboardInv, DashboardTypeOK
<1>3. DOMAIN shown = Lists
  BY <1>2
<1>4. /\ shown' = [l \in Lists |-> shown'[l]]
      /\ \A l \in Counts : shown'[l] = shown[l]
      /\ shown'["machines"] = [m \in Machines |-> IF m = adding THEN "in"
                                 ELSE IF shown["machines"] = None THEN "absent" ELSE shown["machines"][m]]
  BY <1>1, <1>3 DEF Lists, Counts
<1>5. shown'["machines"] \in [Machines -> Pools]
  <2>1. ASSUME NEW m \in Machines, m # adding, shown["machines"] # None
        PROVE  shown["machines"][m] \in Pools
    BY <1>2, <2>1
  <2>2. ASSUME NEW m \in Machines PROVE shown'["machines"][m] \in Pools
    BY <1>4, <2>1 DEF Pools
  <2> QED BY <1>4, <2>2
<1>6. /\ Cardinality(flights') <= 1
      /\ \A f, g \in flights' : f = g
      /\ \A f \in flights' : FlightOK(f)'
  BY <1>1, <1>4, RefreshKeeps
<1> QED BY <1>1, <1>4, <1>5, <1>6 DEF DashboardInv, DashboardTypeOK, Counts

LEMMA MachineKeeps ==
  ASSUME DashboardInv, NEW m \in Machines,
         ClickToggle(m) \/ ServeToggle(m) \/ Toggled(m) \/ ServeAdd(m)
         \/ \E pool \in Pools : OtherChanges(m, pool)
  PROVE  DashboardInv' /\ UNCHANGED shown
<1> USE DashboardAssumption DEF DashboardInv, DashboardTypeOK
<1>1. CASE ClickToggle(m)
  BY <1>1, ServerKeeps DEF ClickToggle
<1>2. CASE ServeToggle(m)
  <2>1. registry' \in [Machines -> Pools]
    BY <1>2 DEF ServeToggle, Pools
  <2>2. toggle' \in [Machines -> {None, "in", "out", "done"}]
    BY <1>2 DEF ServeToggle
  <2> QED BY <1>2, <2>1, <2>2, ServerKeeps DEF ServeToggle
<1>3. CASE Toggled(m)
  <2>1. /\ Cardinality(flights') <= 1
        /\ \A f, g \in flights' : f = g
        /\ \A f \in flights' : FlightOK(f)'
    BY <1>3, RefreshKeeps DEF Toggled
  <2> QED BY <1>3, <2>1 DEF Toggled
<1>4. CASE ServeAdd(m)
  <2>1. registry' \in [Machines -> Pools]
    BY <1>4 DEF ServeAdd, Pools
  <2> QED BY <1>4, <2>1, ServerKeeps DEF ServeAdd
<1>5. ASSUME NEW pool \in Pools, OtherChanges(m, pool) PROVE DashboardInv' /\ UNCHANGED shown
  BY <1>5, ServerKeeps DEF OtherChanges
<1> QED BY <1>1, <1>2, <1>3, <1>4, <1>5

LEMMA DashboardStep ==
  ASSUME DashboardInv, [DashboardNext]_dashboardVars
  PROVE  /\ DashboardInv'
         /\ \A l \in Counts : shown[l] # None => shown'[l] # None /\ shown'[l] >= shown[l]
<1>1. ASSUME \A l \in Counts : shown'[l] = shown[l]
      PROVE  \A l \in Counts : shown[l] # None => shown'[l] # None /\ shown'[l] >= shown[l]
  <2>1. \A l \in Counts : shown[l] # None => shown[l] \in Nat
    BY DashboardAssumption DEF DashboardInv, DashboardTypeOK, Counts
  <2> QED BY <1>1, <2>1
<1>2. CASE UNCHANGED dashboardVars
  <2>1. DashboardInv'
    BY <1>2 DEF dashboardVars, DashboardInv, DashboardTypeOK, FlightOK
  <2> QED BY <1>1, <1>2, <2>1 DEF dashboardVars
<1>3. CASE PollDashboard
  <2>1. /\ Cardinality(flights') <= 1
        /\ \A f, g \in flights' : f = g
        /\ \A f \in flights' : FlightOK(f)'
    BY <1>3, RefreshKeeps DEF PollDashboard
  <2>2. DashboardInv'
    BY <1>3, <2>1 DEF PollDashboard, DashboardInv, DashboardTypeOK
  <2> QED BY <1>1, <1>3, <2>2 DEF PollDashboard
<1>4. CASE Added
  BY <1>1, <1>4, AddedKeeps
<1>5. CASE News
  <2>1. news' \in 0..MaxNews /\ news' >= news
    BY <1>5, DashboardAssumption DEF News, DashboardInv, DashboardTypeOK
  <2>2. DashboardInv'
    BY <1>5, <2>1, ServerKeeps DEF News, DashboardInv, DashboardTypeOK
  <2> QED BY <1>1, <1>5, <2>2 DEF News
<1>6. ASSUME NEW f \in flights, NEW l \in Lists, Answer(f, l) \/ Fail(f, l)
      PROVE  DashboardInv' /\ UNCHANGED shown
  BY <1>6, AnswerKeeps DEF Answer, Fail
<1> QED BY <1>1, <1>2, <1>3, <1>4, <1>5, <1>6, Arriving, MachineKeeps DEF DashboardNext

LEMMA DashboardStart == DashboardInit => DashboardInv
<1> SUFFICES ASSUME DashboardInit PROVE DashboardInv
  OBVIOUS
<1>1. \A l \in Lists : shown[l] = None
  BY DEF DashboardInit
<1> QED BY <1>1, OneFlight, DashboardAssumption
        DEF DashboardInit, DashboardInv, DashboardTypeOK, Lists

(* The dashboard is well formed, for any machines and any bounds: at most    *)
(* one refresh is under way, whatever the timer, the buttons and the dialogs *)
(* ask for.                                                                  *)
THEOREM DashboardTyped == DashboardSpec => []DashboardTypeOK
<1>1. DashboardInv /\ [DashboardNext /\ UNCHANGED page]_<<page, dashboardVars>> => DashboardInv'
  BY DashboardStep
<1> QED BY <1>1, DashboardStart, PTL DEF DashboardSpec, DashboardInv

(* Statuses and jobs on the dashboard only go forward, although the requests *)
(* of a refresh overtake one another and some fail.                          *)
THEOREM NeverBack == DashboardSpec => ForwardOnly
<1>1. DashboardInv /\ [DashboardNext /\ UNCHANGED page]_<<page, dashboardVars>> => DashboardInv'
  BY DashboardStep
<1>2. DashboardInv /\ [DashboardNext /\ UNCHANGED page]_<<page, dashboardVars>> =>
        [\A l \in {"statuses", "jobs"} :
           shown[l] # None => shown'[l] # None /\ shown'[l] >= shown[l]]_dashboardVars
  BY DashboardStep DEF Counts
<1> QED BY <1>1, <1>2, DashboardStart, PTL DEF DashboardSpec, ForwardOnly

------------------------------------------------------------------------------
(* The job queue page.  What is held is held by a handler under way, so    *)
(* that it is free when none is.                                           *)

Acts == {NoAct, [at |-> "listing"]} \cup [at : {"sent"}, retry : BOOLEAN]
          \cup [at : {"listed"}, list : JobLists]

Submissions ==
  {NoSubmit} \cup [at : {"login"}, about : Jobs \cup {History}, right : BOOLEAN]
    \cup [at : {"sent", "listing"}, about : Jobs \cup {History}, right : {TRUE}]
    \cup [at : {"listed"}, list : JobLists]

ServerOK == queue \in [Jobs -> States] /\ elsewhere \in 0..MaxElsewhere
ListOK ==
  /\ jobs \in JobLists \cup {None} /\ error \in BOOLEAN
  /\ polls \in [Polls -> JobLists \cup {None, Pending, Failed}]
ButtonsOK == act \in [Jobs -> Acts] /\ busy \in Jobs \cup {None}
FormOK ==
  /\ dialog \in Jobs \cup {None, History} /\ submit \in Submissions
  /\ {confirming, clearing} \subseteq BOOLEAN
  /\ confirming <=> submit # NoSubmit

Deleting == submit.at \in {"sent", "listing", "listed"}
Held ==
  /\ busy # None => Deleting \/ \E j \in Jobs : act[j] # NoAct
  /\ clearing => Deleting

QueueInv ==
  ServerOK /\ ListOK /\ ButtonsOK /\ FormOK /\ creating \in Jobs \cup {None} /\ Held

LEMMA ActSteps ==
  /\ NoAct.at = "idle" /\ NoSubmit.at = "idle"
  /\ \A a \in Acts : /\ a.at \in {"idle", "sent", "listing", "listed"}
                     /\ a.at = "listed" => a.list \in JobLists
BY DEF NoAct, NoSubmit, Acts

LEMMA SubmitSteps ==
  ASSUME NEW s \in Submissions
  PROVE  /\ s.at \in {"idle", "login", "sent", "listing", "listed"}
         /\ s.at = "idle" <=> s = NoSubmit
         /\ s.at \in {"login", "sent", "listing"} =>
              /\ s = [at |-> s.at, about |-> s.about, right |-> s.right]
              /\ s.about \in Jobs \cup {History} /\ s.right \in BOOLEAN
         /\ s.at \in {"sent", "listing"} => s.right = TRUE
         /\ s.at = "listed" => s.list \in JobLists
<1>1. CASE s = NoSubmit
  BY <1>1 DEF NoSubmit
<1>2. CASE s \in [at : {"login"}, about : Jobs \cup {History}, right : BOOLEAN]
  BY <1>2, ActSteps
<1>3. CASE s \in [at : {"sent", "listing"}, about : Jobs \cup {History}, right : {TRUE}]
  BY <1>3, ActSteps
<1>4. CASE s \in [at : {"listed"}, list : JobLists]
  BY <1>4, ActSteps
<1> QED BY <1>1, <1>2, <1>3, <1>4 DEF Submissions

LEMMA QueueFollows == QueueInv => QueueTypeOK /\ ButtonsFree
<1> SUFFICES ASSUME QueueInv PROVE QueueTypeOK /\ ButtonsFree
  OBVIOUS
<1>1. \A j \in Jobs : act[j].at \in {"idle", "sent", "listing", "listed"}
  BY ActSteps, SubmitSteps DEF QueueInv, ButtonsOK
<1>2. QueueTypeOK
  BY <1>1, ActSteps, SubmitSteps DEF QueueInv, ServerOK, ListOK, ButtonsOK, FormOK, QueueTypeOK
<1>3. submit = NoSubmit => ~ Deleting
  BY ActSteps, SubmitSteps DEF Deleting
<1> QED BY <1>2, <1>3 DEF QueueInv, Held, ButtonsFree

LEMMA ListedOK == ServerOK => Listed \in JobLists
<1> SUFFICES ASSUME ServerOK PROVE \A j \in Jobs : Listed[j] \in States \ {"new"}
  BY DEF Listed, JobLists
<1> QED BY DEF ServerOK, Listed, States

------------------------------------------------------------------------------
LEMMA PollKeeps ==
  ASSUME QueueInv, NEW p \in Polls, PollQueue(p) \/ AnswerPoll(p) \/ Polled(p)
  PROVE  QueueInv' /\ UNCHANGED queue
<1>1. UNCHANGED <<server, buttons, form, creating>>
  BY DEF PollQueue, AnswerPoll, Polled
<1>2. ServerOK' /\ ButtonsOK' /\ FormOK' /\ Held' /\ creating' \in Jobs \cup {None} /\ UNCHANGED queue
  BY <1>1 DEF QueueInv, server, buttons, form, ServerOK, ButtonsOK, FormOK, Held, Deleting
<1>3. Listed \in JobLists
  BY ListedOK DEF QueueInv
<1>4. ListOK'
  <2>1. CASE PollQueue(p)
    BY <2>1 DEF PollQueue, QueueInv, ListOK
  <2>2. CASE AnswerPoll(p)
    BY <1>3, <2>2 DEF AnswerPoll, QueueInv, ListOK
  <2>3. CASE Polled(p)
    BY <2>3 DEF Polled, QueueInv, ListOK
  <2> QED BY <2>1, <2>2, <2>3
<1> QED BY <1>2, <1>4 DEF QueueInv

\* A job of a list is not new, and one that is gone stays so.
LEMMA HandlerKeeps ==
  ASSUME QueueInv, NEW j \in Jobs,
         handleAction(j) \/ ServeAct(j) \/ ListAfterAct(j) \/ Acted(j) \/ ActFails(j)
  PROVE  QueueInv' /\ \A k \in Jobs : queue'[k] = "gone" => queue[k] = "gone"
<1>1. UNCHANGED <<elsewhere, error, polls, form, creating>>
  BY DEF handleAction, ServeAct, ListAfterAct, Acted, ActFails, list, server
<1>2. FormOK' /\ creating' \in Jobs \cup {None} /\ (Deleting' <=> Deleting)
  BY <1>1 DEF QueueInv, form, FormOK, Deleting
<1>3. ASSUME ServerOK', ListOK', ButtonsOK', busy' # None => \E k \in Jobs : act'[k] # NoAct
      PROVE  QueueInv'
  BY <1>1, <1>2, <1>3 DEF QueueInv, Held, form
<1>4. ASSUME EndAct(j) PROVE ButtonsOK' /\ busy' = None
  BY <1>4 DEF EndAct, QueueInv, ButtonsOK, Acts
<1>5. ASSUME UNCHANGED queue PROVE ServerOK'
  BY <1>1, <1>5 DEF QueueInv, ServerOK
<1>6. ASSUME UNCHANGED jobs PROVE ListOK'
  BY <1>1, <1>6 DEF QueueInv, ListOK
<1>7. CASE handleAction(j)
  <2>1. PICK r \in BOOLEAN : act' = [act EXCEPT ![j] = [at |-> "sent", retry |-> r]]
    BY <1>7 DEF handleAction
  <2>2. act' \in [Jobs -> Acts] /\ act'[j] = [at |-> "sent", retry |-> r]
    BY <2>1 DEF QueueInv, ButtonsOK, Acts
  <2>3. act'[j] # NoAct
    BY <2>2, ActSteps, SubmitSteps
  <2> QED BY <1>3, <1>5, <1>6, <1>7, <2>2, <2>3 DEF handleAction, ButtonsOK, server, list
<1>8. CASE ServeAct(j)
  <2>1. UNCHANGED list
    BY <1>8 DEF ServeAct
  <2>2. CASE EndAct(j) /\ UNCHANGED queue
    BY <1>3, <1>4, <1>5, <1>6, <2>1, <2>2 DEF list
  <2>3. CASE act' = [act EXCEPT ![j] = [at |-> "listing"]] /\ UNCHANGED busy
             /\ \E s \in {"active", "final", queue[j]} : queue' = [queue EXCEPT ![j] = s]
    <3>1. ButtonsOK' /\ act'[j] = [at |-> "listing"]
      BY <2>3 DEF QueueInv, ButtonsOK, Acts
    <3>2. act'[j] # NoAct
      BY <3>1, ActSteps, SubmitSteps
    <3>3. ServerOK' /\ \A k \in Jobs : queue'[k] = "gone" => queue[k] = "gone"
      BY <1>1, <2>3 DEF QueueInv, ServerOK, States
    <3> QED BY <1>3, <1>6, <2>1, <3>1, <3>2, <3>3 DEF list
  <2>4. (EndAct(j) /\ UNCHANGED queue)
        \/ (/\ act' = [act EXCEPT ![j] = [at |-> "listing"]] /\ UNCHANGED busy
            /\ \E s \in {"active", "final", queue[j]} : queue' = [queue EXCEPT ![j] = s])
    BY <1>8 DEF ServeAct, QueueInv, ServerOK
  <2> QED BY <2>2, <2>3, <2>4
<1>9. CASE ListAfterAct(j)
  <2>1. act' = [act EXCEPT ![j] = [at |-> "listed", list |-> Listed]] /\ Listed \in JobLists
    BY <1>9, ListedOK DEF ListAfterAct, QueueInv
  <2>2. act' \in [Jobs -> Acts] /\ act'[j] = [at |-> "listed", list |-> Listed]
    BY <2>1 DEF QueueInv, ButtonsOK, Acts
  <2>3. act'[j] # NoAct
    BY <2>2, ActSteps, SubmitSteps
  <2> QED BY <1>3, <1>5, <1>6, <1>9, <2>2, <2>3 DEF ListAfterAct, QueueInv, ButtonsOK, server, list
<1>10. CASE Acted(j)
  <2>1. ListOK'
    BY <1>1, <1>10, ActSteps, SubmitSteps DEF Acted, QueueInv, ListOK, ButtonsOK
  <2> QED BY <1>3, <1>4, <1>5, <1>10, <2>1 DEF Acted, server
<1>11. CASE ActFails(j)
  BY <1>3, <1>4, <1>5, <1>6, <1>11 DEF ActFails, server, list
<1> QED BY <1>7, <1>8, <1>9, <1>10, <1>11

\* A dialog is opened, given up, or refused; the password is accepted.
LEMMA DialogKeeps ==
  ASSUME QueueInv,
         \/ \E j \in Jobs : handleDelete(j)
         \/ handleClearAll \/ CancelDialog \/ submitPasswordConfirm \/ LoggedIn \/ LoginRefused
  PROVE  QueueInv' /\ UNCHANGED queue
<1>1. UNCHANGED <<server, list, act, creating>>
  BY DEF handleDelete, handleClearAll, CancelDialog, submitPasswordConfirm, LoggedIn, LoginRefused,
         buttons
<1>2. ServerOK' /\ ListOK' /\ act' \in [Jobs -> Acts] /\ creating' \in Jobs \cup {None}
      /\ UNCHANGED queue
  BY <1>1 DEF QueueInv, server, list, ServerOK, ListOK, ButtonsOK
<1>3. CASE (\E j \in Jobs : handleDelete(j)) \/ handleClearAll \/ CancelDialog
  <2>1. dialog' \in Jobs \cup {None, History} /\ UNCHANGED <<busy, submit, confirming, clearing>>
    BY <1>3 DEF handleDelete, handleClearAll, CancelDialog, buttons
  <2> QED BY <1>1, <1>2, <2>1 DEF QueueInv, ButtonsOK, FormOK, Held, Deleting
<1>4. CASE submitPasswordConfirm
  <2>1. PICK right \in BOOLEAN : submit' = [at |-> "login", about |-> dialog, right |-> right]
    BY <1>4 DEF submitPasswordConfirm
  <2>2. /\ confirming' = TRUE /\ UNCHANGED <<busy, dialog, clearing>> /\ ~ confirming
        /\ dialog \in Jobs \cup {History}
    BY <1>4 DEF submitPasswordConfirm, buttons, QueueInv, FormOK
  <2>3. submit' \in Submissions /\ submit'.at = "login"
    BY <2>1, <2>2 DEF Submissions
  <2>4. submit' # NoSubmit /\ ~ Deleting
    BY <2>2, <2>3, ActSteps, SubmitSteps DEF QueueInv, FormOK, Deleting
  <2> QED BY <1>1, <1>2, <2>2, <2>3, <2>4 DEF QueueInv, ButtonsOK, FormOK, Held
<1>5. CASE LoggedIn
  <2>1. /\ submit.at = "login" /\ submit.right /\ submit' = [submit EXCEPT !.at = "sent"]
        /\ UNCHANGED <<dialog, confirming>>
        /\ busy' \in Jobs \cup {None} /\ clearing' \in BOOLEAN
    BY <1>5, ActSteps, SubmitSteps DEF LoggedIn, QueueInv, ButtonsOK, FormOK
  <2>2. submit = [at |-> submit.at, about |-> submit.about, right |-> submit.right]
        /\ submit.about \in Jobs \cup {History} /\ submit.right \in BOOLEAN
    BY <2>1, ActSteps, SubmitSteps DEF QueueInv, FormOK
  <2>3. submit' = [at |-> "sent", about |-> submit.about, right |-> TRUE]
    BY <2>1, <2>2
  <2>4. submit' \in Submissions /\ submit'.at = "sent"
    BY <2>2, <2>3 DEF Submissions
  <2>5. submit' # NoSubmit /\ submit # NoSubmit
    BY <2>1, <2>4, ActSteps, SubmitSteps
  <2> QED BY <1>2, <2>1, <2>4, <2>5 DEF QueueInv, ButtonsOK, FormOK, Held, Deleting
<1>6. CASE LoginRefused
  <2>1. submit.at = "login" /\ submit' = NoSubmit /\ confirming' = FALSE
        /\ UNCHANGED <<busy, dialog, clearing>>
    BY <1>6 DEF LoginRefused, Refused, buttons
  <2>2. ~ Deleting
    BY <2>1 DEF Deleting
  <2>3. submit' \in Submissions
    BY <2>1 DEF Submissions
  <2> QED BY <1>1, <1>2, <2>1, <2>2, <2>3 DEF QueueInv, ButtonsOK, FormOK, Held
<1> QED BY <1>3, <1>4, <1>5, <1>6

\* The finally block of a submission gives back what it holds.
LEMMA EndSubmitKeeps ==
  ASSUME QueueInv, EndSubmit, ServerOK', ListOK', UNCHANGED <<act, creating>>,
         dialog' \in Jobs \cup {None, History}
  PROVE  QueueInv'
<1>1. submit' \in Submissions
  BY DEF EndSubmit, Submissions
<1> QED BY <1>1 DEF QueueInv, EndSubmit, ButtonsOK, FormOK, Held

LEMMA DeletionKeeps ==
  ASSUME QueueInv, ServeDeletion \/ ListAfterDeletion \/ Deleted \/ DeletionFails
  PROVE  /\ QueueInv'
         /\ \A j \in Jobs : queue[j] # "gone" /\ queue'[j] = "gone"
              => submit.right /\ submit.about \in {j, History}
<1>1. UNCHANGED <<elsewhere, act, creating>>
  BY DEF ServeDeletion, ListAfterDeletion, Deleted, DeletionFails, server, buttons
<1>2. ASSUME UNCHANGED queue PROVE ServerOK'
  BY <1>1, <1>2 DEF QueueInv, ServerOK
<1>3. ASSUME UNCHANGED list PROVE ListOK'
  BY <1>3 DEF QueueInv, ListOK, list
<1>4. CASE ServeDeletion
  <2>1. submit.at = "sent" /\ UNCHANGED <<list, dialog>>
    BY <1>4 DEF ServeDeletion
  <2>2. submit = [at |-> submit.at, about |-> submit.about, right |-> submit.right]
        /\ submit.about \in Jobs \cup {History} /\ submit.right = TRUE
    BY <2>1, ActSteps, SubmitSteps DEF QueueInv, FormOK
  <2>3. dialog' \in Jobs \cup {None, History}
    BY <2>1 DEF QueueInv, FormOK
  <2>4. CASE EndSubmit /\ UNCHANGED queue
    BY <1>1, <1>2, <1>3, <2>1, <2>3, <2>4, EndSubmitKeeps
  <2>5. CASE \E gone : /\ Removed(gone) /\ submit' = [submit EXCEPT !.at = "listing"]
                       /\ (submit.about = History \/ gone \subseteq {submit.about})
                       /\ UNCHANGED <<busy, clearing, confirming>>
    <3>1. PICK gone : /\ Removed(gone) /\ submit' = [submit EXCEPT !.at = "listing"]
                       /\ (submit.about = History \/ gone \subseteq {submit.about})
                       /\ UNCHANGED <<busy, clearing, confirming>>
      BY <2>5
    <3>2. submit' = [at |-> "listing", about |-> submit.about, right |-> TRUE]
      BY <2>2, <3>1
    <3>3. submit' \in Submissions /\ submit'.at = "listing"
      BY <2>2, <3>2 DEF Submissions
    <3>4. submit' # NoSubmit /\ submit # NoSubmit
      BY <2>1, <3>3, ActSteps, SubmitSteps
    <3>5. ServerOK' /\ \A j \in Jobs : queue'[j] = "gone" => j \in gone \/ queue[j] = "gone"
      BY <1>1, <3>1 DEF Removed, QueueInv, ServerOK, States
    <3>6. QueueInv'
      BY <1>1, <1>3, <2>1, <2>3, <3>1, <3>3, <3>4, <3>5 DEF QueueInv, ButtonsOK, FormOK, Held, Deleting
    <3> QED BY <2>2, <3>1, <3>5, <3>6
  <2>6. \/ EndSubmit /\ UNCHANGED queue
        \/ \E gone : /\ Removed(gone) /\ submit' = [submit EXCEPT !.at = "listing"]
                     /\ (submit.about = History \/ gone \subseteq {submit.about})
                     /\ UNCHANGED <<busy, clearing, confirming>>
    BY <1>4 DEF ServeDeletion, About
  <2> QED BY <2>4, <2>5, <2>6
<1>5. CASE ListAfterDeletion
  <2>1. /\ submit.at = "listing" /\ submit' = [at |-> "listed", list |-> Listed]
        /\ UNCHANGED <<queue, list, busy, dialog, confirming, clearing>>
    BY <1>5 DEF ListAfterDeletion, server, buttons
  <2>2. submit' \in Submissions /\ submit'.at = "listed"
    BY <2>1, ListedOK DEF QueueInv, Submissions
  <2>3. submit' # NoSubmit /\ submit # NoSubmit
    BY <2>1, <2>2, ActSteps, SubmitSteps
  <2> QED BY <1>1, <1>2, <1>3, <2>1, <2>2, <2>3 DEF QueueInv, ButtonsOK, FormOK, Held, Deleting
<1>6. CASE Deleted
  <2>1. submit.at = "listed" /\ jobs' = submit.list /\ EndSubmit /\ dialog' = None
        /\ UNCHANGED <<queue, error, polls>>
    BY <1>6 DEF Deleted, server
  <2>2. ListOK'
    BY <2>1, ActSteps, SubmitSteps DEF QueueInv, FormOK, ListOK
  <2> QED BY <1>1, <1>2, <2>1, <2>2, EndSubmitKeeps
<1>7. CASE DeletionFails
  <2>1. EndSubmit /\ UNCHANGED <<queue, list, dialog>>
    BY <1>7 DEF DeletionFails, server
  <2> QED BY <1>1, <1>2, <1>3, <2>1, EndSubmitKeeps DEF QueueInv, FormOK
<1> QED BY <1>4, <1>5, <1>6, <1>7

\* What others do, and the demo buttons.
LEMMA OthersKeep ==
  ASSUME QueueInv,
         ServeCreate \/ Created \/ \E j \in Jobs : handleCreate(j) \/ Elsewhere(j)
  PROVE  QueueInv' /\ \A k \in Jobs : queue'[k] = "gone" => queue[k] = "gone"
<1>1. UNCHANGED <<list, buttons, form>>
  BY DEF ServeCreate, Created, handleCreate, Elsewhere
<1>2. ListOK' /\ ButtonsOK' /\ FormOK' /\ Held'
  BY <1>1 DEF QueueInv, list, buttons, form, ListOK, ButtonsOK, FormOK, Held, Deleting
<1>3. creating' \in Jobs \cup {None}
  BY DEF ServeCreate, Created, handleCreate, Elsewhere, QueueInv
<1>4. elsewhere' \in 0..MaxElsewhere
  BY QueuePageAssumption DEF ServeCreate, Created, handleCreate, Elsewhere, QueueInv, ServerOK, server
<1>5. queue' = queue \/ \E k \in Jobs, s \in {"active", "FAILED", "final"} :
                          queue' = [queue EXCEPT ![k] = s]
  BY DEF ServeCreate, Created, handleCreate, Elsewhere, QueueInv, server
<1>6. ServerOK' /\ \A k \in Jobs : queue'[k] = "gone" => queue[k] = "gone"
  BY <1>4, <1>5 DEF QueueInv, ServerOK, States
<1> QED BY <1>2, <1>3, <1>6 DEF QueueInv

LEMMA QueueStep ==
  ASSUME QueueInv, [QueueNext]_queueVars
  PROVE  /\ QueueInv'
         /\ \A j \in Jobs : queue[j] # "gone" /\ queue'[j] = "gone"
              => submit.right /\ submit.about \in {j, History}
<1>1. CASE UNCHANGED queueVars
  BY <1>1 DEF queueVars, server, list, buttons, form, QueueInv, ServerOK, ListOK, ButtonsOK, FormOK,
              Held, Deleting
<1>2. CASE \E p \in Polls : PollQueue(p) \/ AnswerPoll(p) \/ Polled(p)
  BY <1>2, PollKeeps
<1>3. ASSUME NEW j \in Jobs,
             handleAction(j) \/ ServeAct(j) \/ ListAfterAct(j) \/ Acted(j) \/ ActFails(j)
      PROVE  QueueInv' /\ \A k \in Jobs : queue'[k] = "gone" => queue[k] = "gone"
  BY <1>3, HandlerKeeps
<1>4. ASSUME NEW j \in Jobs, handleDelete(j) PROVE QueueInv' /\ UNCHANGED queue
  BY <1>4, DialogKeeps
<1>5. ASSUME NEW j \in Jobs, handleCreate(j) \/ Elsewhere(j)
      PROVE  QueueInv' /\ \A k \in Jobs : queue'[k] = "gone" => queue[k] = "gone"
  BY <1>5, OthersKeep
<1> QED BY <1>1, <1>2, <1>3, <1>4, <1>5, DialogKeeps, DeletionKeeps, OthersKeep DEF QueueNext

LEMMA QueueStart == WebAppInit /\ QueueInit => QueueInv
<1> SUFFICES ASSUME QueueInit PROVE QueueInv
  OBVIOUS
<1>1. NoSubmit \in Submissions /\ NoAct \in Acts
  BY DEF Submissions, Acts
<1> QED BY <1>1, QueuePageAssumption
        DEF QueueInit, QueueInv, ServerOK, ListOK, ButtonsOK, FormOK, Held, Polls

(* The row buttons and the password form are held exactly while a handler is *)
(* under way, for any jobs and any bounds on what goes on at once: every     *)
(* branch of every handler gives back what it took.                          *)
THEOREM FormsFreed == QueueSpec => [](QueueTypeOK /\ ButtonsFree)
<1>1. QueueInv /\ [QueueNext /\ UNCHANGED page]_<<page, queueVars>> => QueueInv'
  BY QueueStep
<1> QED BY <1>1, QueueStart, QueueFollows, PTL DEF QueueSpec

(* What this page removes is what the user typed the password for, whatever  *)
(* is opened, polled and answered meanwhile.                                 *)
THEOREM RemovalsConfirmed == QueueSpec => RemovesWhatWasConfirmed
<1>1. QueueInv /\ [QueueNext /\ UNCHANGED page]_<<page, queueVars>> => QueueInv'
  BY QueueStep
<1>2. QueueInv /\ [QueueNext /\ UNCHANGED page]_<<page, queueVars>> =>
        [\A j \in Jobs : queue[j] # "gone" /\ queue'[j] = "gone"
           => submit.right /\ submit.about \in {j, History}]_queueVars
  BY QueueStep
<1> QED BY <1>1, <1>2, QueueStart, PTL DEF QueueSpec, RemovesWhatWasConfirmed

------------------------------------------------------------------------------
(* The thumbnails in the browser.  How many there are is counted without   *)
(* assuming that there are finitely many machines.                         *)

PreviewIInv == PreviewInv /\ IsFiniteSet(Kept)

LEMMA SaveKeepsPreviews ==
  ASSUME PreviewIInv, NEW t \in Tabs, NEW k \in Keys, NEW frame \in Frames,
         saveRemotePreview(t, k, frame)
  PROVE  PreviewIInv'
<1>1. PICK gone \in Victims(k), fits \in Outcomes :
        /\ stored' = [x \in Keys |-> CASE x \in gone     -> Blank
                                       [] x = k /\ fits -> frame
                                       [] OTHER         -> stored[x]]
        /\ notified' = notified \cup IF fits THEN Hears(t) ELSE {u \in Hears(t) \ {t} : gone # {}}
  BY DEF saveRemotePreview
<1>2. /\ tab[t].page = "remote" /\ tab' = tab
      /\ stored \in [Keys -> Frames \cup {Blank}] /\ fits \in BOOLEAN
  BY PreviewAssumption DEF saveRemotePreview, PreviewIInv, PreviewInv, PreviewTypeOK
<1>3. \/ gone = {} /\ (k \in Kept \/ ~ Cardinality(Kept) >= MaxPreviews)
      \/ k \notin Kept /\ \E v \in Kept : gone = {v}
  BY <1>1 DEF Victims
<1>4. /\ \A x \in Keys : x \in gone => stored'[x] = Blank
      /\ \A x \in Keys : x \notin gone /\ ~ (x = k /\ fits) => stored'[x] = stored[x]
      /\ \A x \in Keys : stored'[x] \in Frames \cup {Blank}
      /\ DOMAIN stored' = Keys
  <2>1. DOMAIN stored' = Keys
    BY <1>1
  <2> SUFFICES ASSUME NEW x \in Keys
               PROVE  /\ x \in gone => stored'[x] = Blank
                      /\ x \notin gone /\ ~ (x = k /\ fits) => stored'[x] = stored[x]
                      /\ x \notin gone /\ x = k /\ fits => stored'[x] = frame
                      /\ stored[x] \in Frames \cup {Blank}
    BY <2>1
  <2>2. stored'[x] = CASE x \in gone -> Blank [] x = k /\ fits -> frame [] OTHER -> stored[x]
    BY <1>1
  <2>3. CASE x \in gone
    BY <1>2, <1>3, <2>2, <2>3
  <2>4. CASE x \notin gone /\ x = k /\ fits
    BY <1>2, <2>2, <2>4
  <2>5. CASE x \notin gone /\ ~ (x = k /\ fits)
    BY <1>2, <2>2, <2>5
  <2> QED BY <2>3, <2>4, <2>5
<1>5. stored' \in [Keys -> Frames \cup {Blank}]
  BY <1>1, <1>4
<1>6. Kept' \subseteq (Kept \ gone) \cup {k}
  BY <1>4 DEF Kept
<1>7. /\ IsFiniteSet(Kept) /\ Cardinality(Kept) \in Nat /\ Cardinality(Kept) <= MaxPreviews
      /\ MaxPreviews \in Nat
  BY FS_CardinalityType, PreviewAssumption DEF PreviewIInv, PreviewInv, PreviewTypeOK
<1>8. IsFiniteSet(Kept') /\ Cardinality(Kept') <= MaxPreviews
  <2>1. CASE gone = {} /\ k \in Kept
    <3>1. Kept' \in SUBSET Kept
      BY <1>6, <2>1
    <3>2. IsFiniteSet(Kept') /\ Cardinality(Kept') <= Cardinality(Kept)
      BY <1>7, <3>1, FS_Subset
    <3> QED BY <1>7, <3>2, FS_CardinalityType
  <2>2. CASE gone = {} /\ k \notin Kept /\ ~ Cardinality(Kept) >= MaxPreviews
    <3>1. Kept' \in SUBSET (Kept \cup {k})
      BY <1>6, <2>2
    <3>2. IsFiniteSet(Kept \cup {k}) /\ Cardinality(Kept \cup {k}) = Cardinality(Kept) + 1
      BY <1>7, <2>2, FS_AddElement
    <3>3. IsFiniteSet(Kept') /\ Cardinality(Kept') <= Cardinality(Kept \cup {k})
      BY <3>1, <3>2, FS_Subset
    <3> QED BY <1>7, <2>2, <3>2, <3>3, FS_CardinalityType
  <2>3. ASSUME NEW v \in Kept, gone = {v}, k \notin Kept
        PROVE  IsFiniteSet(Kept') /\ Cardinality(Kept') <= MaxPreviews
    <3>1. IsFiniteSet(Kept \ {v}) /\ Cardinality(Kept \ {v}) = Cardinality(Kept) - 1
      BY <1>7, FS_RemoveElement
    <3>2. /\ IsFiniteSet((Kept \ {v}) \cup {k})
          /\ Cardinality((Kept \ {v}) \cup {k}) = Cardinality(Kept) - 1 + 1
      BY <2>3, <3>1, FS_AddElement
    <3>3. Kept' \in SUBSET ((Kept \ {v}) \cup {k})
      BY <1>6, <2>3
    <3>4. IsFiniteSet(Kept') /\ Cardinality(Kept') <= Cardinality((Kept \ {v}) \cup {k})
      BY <3>2, <3>3, FS_Subset
    <3> QED BY <1>7, <3>2, <3>4, FS_CardinalityType
  <2> QED BY <1>3, <2>1, <2>2, <2>3
<1>9. notified' \subseteq Tabs
  BY <1>1 DEF Hears, PreviewIInv, PreviewInv, PreviewTypeOK
<1>10. CardsFresh'
  <2>1. CASE fits
    BY <1>1, <2>1 DEF Hears, CardsFresh
  <2>2. CASE ~ fits /\ gone = {}
    <3>1. stored' = stored
      BY <1>2, <1>4, <1>5, <2>2
    <3> QED BY <1>1, <1>2, <2>2, <3>1 DEF CardsFresh, PreviewIInv, PreviewInv
  <2>3. CASE ~ fits /\ gone # {}
    BY <1>1, <1>2, <2>3 DEF Hears, CardsFresh
  <2> QED BY <2>1, <2>2, <2>3
<1> QED BY <1>2, <1>5, <1>8, <1>9, <1>10 DEF PreviewIInv, PreviewInv, PreviewTypeOK

\* A step that leaves the store alone.
LEMMA ReadingKeepsPreviews ==
  ASSUME PreviewIInv, stored' = stored, NEW t \in Tabs,
         ReadAgain(t) \/ OpenRemote(t) \/ OpenCards(t)
  PROVE  PreviewIInv'
<1> DEFINE Shown == [page: {"cards", "remote"}, shown: [Keys -> Frames \cup {Blank}]]
<1>1. /\ stored \in [Keys -> Frames \cup {Blank}] /\ tab \in [Tabs -> Shown]
      /\ notified \subseteq Tabs /\ CardsFresh
  BY DEF PreviewIInv, PreviewInv, PreviewTypeOK
<1>2. Kept' = Kept
  BY DEF Kept
<1>3. tab' \in [Tabs -> Shown] /\ notified' \subseteq Tabs
  BY <1>1 DEF ReadAgain, OpenRemote, OpenCards
<1>4. CardsFresh'
  <2>1. CASE ReadAgain(t)
    BY <1>1, <2>1 DEF ReadAgain, CardsFresh
  <2>2. CASE OpenRemote(t)
    BY <1>1, <2>2 DEF OpenRemote, CardsFresh
  <2>3. CASE OpenCards(t)
    BY <1>1, <2>3 DEF OpenCards, CardsFresh
  <2> QED BY <2>1, <2>2, <2>3
<1> QED BY <1>1, <1>2, <1>3, <1>4 DEF PreviewIInv, PreviewInv, PreviewTypeOK

\* The browser never keeps more than MaxPreviews thumbnails, and the cards of a
\* tab that has handled its events show what is stored, whichever tab saved it,
\* made room for it or failed to (remotePreview.ts:15-54).
THEOREM PreviewsRight == PreviewSpec => []PreviewInv
<1>1. PreviewInit => PreviewIInv
  <2> SUFFICES ASSUME PreviewInit PROVE PreviewIInv
    OBVIOUS
  <2>1. /\ stored \in [Keys -> Frames \cup {Blank}] /\ notified = {} /\ CardsFresh
        /\ tab \in [Tabs -> [page: {"cards", "remote"}, shown: [Keys -> Frames \cup {Blank}]]]
    BY DEF PreviewInit, CardsFresh
  <2>2. Kept = {}
    BY DEF PreviewInit, Kept
  <2> QED BY <2>1, <2>2, FS_EmptySet, PreviewAssumption DEF PreviewIInv, PreviewInv, PreviewTypeOK
<1>2. PreviewIInv /\ [PreviewNext]_previewVars => PreviewIInv'
  <2> SUFFICES ASSUME PreviewIInv, [PreviewNext]_previewVars PROVE PreviewIInv'
    OBVIOUS
  <2>1. ASSUME NEW t \in Tabs, ReadAgain(t) \/ OpenRemote(t) \/ OpenCards(t) PROVE PreviewIInv'
    <3>1. stored' = stored
      BY <2>1 DEF ReadAgain, OpenRemote, OpenCards
    <3> QED BY <2>1, <3>1, ReadingKeepsPreviews
  <2>2. CASE UNCHANGED previewVars
    BY <2>2 DEF previewVars, PreviewIInv, PreviewInv, PreviewTypeOK, CardsFresh, Kept
  <2> QED BY <2>1, <2>2, SaveKeepsPreviews DEF PreviewNext
<1>3. PreviewIInv => PreviewInv
  BY DEF PreviewIInv
<1> QED BY <1>1, <1>2, <1>3, PTL DEF PreviewSpec

------------------------------------------------------------------------------
(* The audit log and its pages, for any number of rows, actions and requests *)
(* and any size of a page.                                                  *)

Row == [id : 1..MaxRows, action : Actions]

\* What the server answers, and that it counts no more rows than were written.
Answers == {a \in [entries : SUBSET Row, total : 0..MaxRows] : Cardinality(a.entries) <= PAGE_SIZE}
Known(a) == a # None /\ a \in Answers => a.total <= written

LogOK ==
  /\ log \in Seq(Row) /\ written \in 0..MaxRows
  /\ \A i, j \in DOMAIN log : log[i].id <= written /\ (i # j => log[i].id # log[j].id)

ScreenOK ==
  /\ selection \in Selections /\ selection.page <= lastPage(written)
  /\ auditShown \in Answers \cup {None} /\ Known(auditShown)
  /\ auditError \in BOOLEAN /\ loading \in BOOLEAN

RequestsOK ==
  /\ requests \in [Requests -> [asks : Selections, answer : Answers \cup {None, Failed}] \cup {None}]
  /\ \A r \in Requests : requests[r] # None /\ requests[r].answer # Failed => Known(requests[r].answer)

AuditInv == LogOK /\ ScreenOK /\ RequestsOK

\* An injection from S makes S no larger than what it goes to.
LEMMA NoLarger ==
  ASSUME NEW S, NEW T, IsFiniteSet(T), NEW g \in [S -> T], \A x, y \in S : g[x] = g[y] => x = y
  PROVE  IsFiniteSet(S) /\ Cardinality(S) <= Cardinality(T)
<1>1. g \in Injection(S, T)
  BY DEF Injection, IsInjective
<1> QED BY <1>1, FS_Injection

\* The matching rows are numbered from 1, in the order of the log.
LEMMA Placed ==
  ASSUME NEW X, NEW rows \in Seq(X), NEW f
  PROVE  /\ IsFiniteSet(Matching(rows, f)) /\ Matching(rows, f) \subseteq 1..Len(rows)
         /\ Cardinality(Matching(rows, f)) \in 0..Len(rows)
         /\ \A i \in Matching(rows, f) : Place(rows, f, i) \in 1..Cardinality(Matching(rows, f))
         /\ \A i, j \in Matching(rows, f) : i < j => Place(rows, f, i) < Place(rows, f, j)
<1> DEFINE M == Matching(rows, f)
           Upto(i) == {j \in M : j <= i}
<1>1. M \subseteq 1..Len(rows) /\ Len(rows) \in Nat
  BY DEF Matching
<1>2. IsFiniteSet(1..Len(rows)) /\ Cardinality(1..Len(rows)) = Len(rows)
  <2> DEFINE L == Len(rows)
  <2>1. L \in Int /\ 1 \in Int /\ L >= 0
    BY <1>1
  <2> HIDE DEF L
  <2>2. IsFiniteSet(1..L) /\ Cardinality(1..L) = IF 1 > L THEN 0 ELSE L - 1 + 1
    BY <2>1, FS_Interval
  <2> QED BY <2>1, <2>2 DEF L
<1>3. IsFiniteSet(M) /\ Cardinality(M) \in 0..Len(rows)
  <2> HIDE DEF M
  <2>1. IsFiniteSet(M) /\ Cardinality(M) <= Cardinality(1..Len(rows))
    BY <1>1, <1>2, FS_Subset
  <2>2. Cardinality(M) \in Nat
    BY <2>1, FS_CardinalityType
  <2> QED BY <1>1, <1>2, <2>1, <2>2
<1>4. ASSUME NEW i \in M PROVE Cardinality(Upto(i)) \in 1..Cardinality(M) /\ IsFiniteSet(Upto(i))
  <2>1. Upto(i) \subseteq M /\ i \in Upto(i)
    BY <1>1
  <2> HIDE DEF Upto, M
  <2> QED BY <1>3, <2>1, FS_Subset, FS_CardinalityType, FS_EmptySet
<1>5. ASSUME NEW i \in M, NEW j \in M, i < j PROVE Cardinality(Upto(i)) < Cardinality(Upto(j))
  <2>1. Upto(i) \subseteq Upto(j) /\ j \notin Upto(i) /\ j \in Upto(j)
    BY <1>1, <1>5
  <2>2. Upto(i) # Upto(j)
    BY <2>1
  <2>3. Cardinality(Upto(i)) \in Nat /\ Cardinality(Upto(j)) \in Nat /\ IsFiniteSet(Upto(j))
    BY <1>3, <1>4
  <2> HIDE DEF Upto, M
  <2> QED BY <2>1, <2>2, <2>3, FS_Subset
<1> QED BY <1>1, <1>3, <1>4, <1>5 DEF Place

\* A page holds no more rows than its size.
LEMMA PageSized ==
  ASSUME NEW X, NEW rows \in Seq(X), NEW f, NEW low \in Nat, NEW n \in Nat
  PROVE  Cardinality(Between(rows, f, low, low + n)) <= n
<1> DEFINE B == Between(rows, f, low, low + n)
           At(x) == CHOOSE i \in Matching(rows, f) :
                      rows[i] = x /\ Place(rows, f, i) \in low + 1 .. low + n
           g == [x \in B |-> Place(rows, f, At(x))]
<1>1. ASSUME NEW x \in B
      PROVE  /\ At(x) \in Matching(rows, f) /\ rows[At(x)] = x
             /\ Place(rows, f, At(x)) \in low + 1 .. low + n
  BY DEF Between
<1>2. g \in [B -> low + 1 .. low + n]
  BY <1>1
<1>3. ASSUME NEW x \in B, NEW y \in B, g[x] = g[y] PROVE x = y
  <2>1. Place(rows, f, At(x)) = Place(rows, f, At(y))
    BY <1>3
  <2>2. At(x) = At(y)
    <3> HIDE DEF At, B
    <3>1. At(x) \in Int /\ At(y) \in Int
      BY <1>1, Placed
    <3>2. Place(rows, f, At(x)) \in Int /\ Place(rows, f, At(y)) \in Int
      BY <1>1
    <3>3. ~ (At(x) < At(y)) /\ ~ (At(y) < At(x))
      BY <1>1, <2>1, <3>2, Placed
    <3> QED BY <3>1, <3>3
  <2> QED BY <1>1, <2>2
<1>4. IsFiniteSet(low + 1 .. low + n) /\ Cardinality(low + 1 .. low + n) = n
  BY FS_Interval
<1> HIDE DEF B, g
<1>5. IsFiniteSet(B) /\ Cardinality(B) <= Cardinality(low + 1 .. low + n)
  BY <1>2, <1>3, <1>4, NoLarger
<1> QED BY <1>4, <1>5 DEF B

\* Every place is on a page, and the last page is no later than the last row.
LEMMA PageOf ==
  ASSUME NEW n \in Nat, NEW t \in Nat, 0 < n, n <= t
  PROVE  \E p \in 0..lastPage(t) : n \in p * PAGE_SIZE + 1 .. (p + 1) * PAGE_SIZE
<1> DEFINE S == PAGE_SIZE
           p == (n - 1) \div S
           q == (t + S - 1) \div S
<1>1. S \in Nat \ {0}
  BY AuditPageAssumption
<1> HIDE DEF S
<1>2. p \in Nat /\ p * S <= n - 1 /\ n - 1 < (p + 1) * S
  BY <1>1
<1>3. q \in Nat /\ q * S <= t + S - 1 /\ t + S - 1 < (q + 1) * S
  BY <1>1
<1> HIDE DEF p, q
<1>4. p * S < q * S
  <2>1. (q + 1) * S = q * S + S
    BY <1>1, <1>3
  <2>2. p * S \in Nat /\ q * S \in Nat
    BY <1>1, <1>2, <1>3
  <2> QED BY <1>1, <1>2, <1>3, <2>1, <2>2
<1>5. p < q
  <2>1. q <= p => q * S <= p * S
    BY <1>1, <1>2, <1>3
  <2> QED BY <1>1, <1>2, <1>3, <1>4, <2>1
<1>6. p \in 0..q - 1
  BY <1>2, <1>3, <1>5
<1>7. lastPage(t) = q - 1
  BY <1>3, <1>6 DEF lastPage, Larger, q, S
<1>8. n \in p * S + 1 .. (p + 1) * S
  BY <1>1, <1>2
<1> QED BY <1>6, <1>7, <1>8 DEF S

\* The last page is no later for fewer rows.
LEMMA LastPages ==
  ASSUME NEW t \in Nat, NEW u \in Nat, t <= u
  PROVE  lastPage(t) \in Nat /\ lastPage(t) <= t /\ lastPage(t) <= lastPage(u)
<1> DEFINE S == PAGE_SIZE
           q == (t + S - 1) \div S
           r == (u + S - 1) \div S
<1>1. S \in Nat \ {0}
  BY AuditPageAssumption
<1> HIDE DEF S
<1>2. q \in Nat /\ q * S <= t + S - 1 /\ t + S - 1 < (q + 1) * S
  BY <1>1
<1>3. r \in Nat /\ r * S <= u + S - 1 /\ u + S - 1 < (r + 1) * S
  BY <1>1
<1> HIDE DEF q, r
<1>4. q <= r
  <2>1. q * S < (r + 1) * S
    BY <1>1, <1>2, <1>3
  <2>2. r + 1 <= q => (r + 1) * S <= q * S
    BY <1>1, <1>2, <1>3
  <2> QED BY <1>1, <1>2, <1>3, <2>1, <2>2
<1>5. q - 1 <= t
  <2>1. t + 1 < q => (t + 2) * S <= q * S
    BY <1>1, <1>2
  <2>2. (t + 2) * S = t * S + 2 * S /\ t * S >= t
    BY <1>1
  <2> QED BY <1>1, <1>2, <2>1, <2>2
<1>6. lastPage(t) = Larger(0, q - 1) /\ lastPage(u) = Larger(0, r - 1)
  BY DEF lastPage, q, r, S
<1> QED BY <1>2, <1>3, <1>4, <1>5, <1>6 DEF Larger

\* A row is on the page that its place says.
LEMMA OnItsPage ==
  ASSUME LogOK, NEW f \in Filters
  PROVE  {log[i] : i \in Matching(log, f)} =
           UNION {listAudit([action |-> f, page |-> p]).entries
                    : p \in 0..lastPage(Cardinality(Matching(log, f)))}
<1> DEFINE M == Matching(log, f)
           Page(p) == Between(log, f, p * PAGE_SIZE, (p + 1) * PAGE_SIZE)
           last == lastPage(Cardinality(M))
<1>1. log \in Seq(Row)
  BY DEF LogOK
<1>2. \A i \in M : Place(log, f, i) \in 1..Cardinality(M)
  BY <1>1, Placed
<1>3. Cardinality(M) \in Nat
  BY <1>1, Placed
<1>4. \A p : listAudit([action |-> f, page |-> p]).entries = Page(p)
  BY DEF listAudit
<1>5. ASSUME NEW i \in M PROVE \E p \in 0..last : log[i] \in Page(p)
  <2> DEFINE n == Place(log, f, i)
  <2>1. n \in Nat /\ 0 < n /\ n <= Cardinality(M)
    BY <1>2, <1>3
  <2>2. PICK p \in 0..last : n \in p * PAGE_SIZE + 1 .. (p + 1) * PAGE_SIZE
    <3> HIDE DEF n, M
    <3> QED BY <1>3, <2>1, PageOf DEF last
  <2> QED BY <2>2 DEF Between
<1>6. \A p : Page(p) \subseteq {log[i] : i \in M}
  BY DEF Between
<1> HIDE DEF M, Page, last
<1>7. {log[i] : i \in M} = UNION {Page(p) : p \in 0..last}
  BY <1>5, <1>6
<1> QED BY <1>4, <1>7 DEF M, last

\* A row keeps its place or moves back when others come before it.
LEMMA PlacesKept ==
  ASSUME NEW X, NEW rows \in Seq(X), NEW new \in Seq(X), NEW f,
         NEW h \in [DOMAIN rows -> DOMAIN new],
         \A i \in DOMAIN rows : new[h[i]] = rows[i],
         \A i, j \in DOMAIN rows : i < j => h[i] < h[j]
  PROVE  \A i \in Matching(rows, f) :
           h[i] \in Matching(new, f) /\ Place(rows, f, i) <= Place(new, f, h[i])
<1> SUFFICES ASSUME NEW i \in Matching(rows, f)
             PROVE  h[i] \in Matching(new, f) /\ Place(rows, f, i) <= Place(new, f, h[i])
  OBVIOUS
<1> DEFINE A == {j \in Matching(rows, f) : j <= i}
           B == {j \in Matching(new, f) : j <= h[i]}
           g == [j \in A |-> h[j]]
<1>1. DOMAIN rows \subseteq Int /\ DOMAIN new \subseteq Int
  OBVIOUS
<1>2. \A j \in Matching(rows, f) : j \in DOMAIN rows /\ h[j] \in Matching(new, f)
  BY DEF Matching
<1>3. ASSUME NEW j \in A PROVE h[j] \in B
  <2>1. j \in DOMAIN rows /\ i \in DOMAIN rows /\ (j = i \/ j < i)
    BY <1>1, <1>2
  <2>2. h[j] <= h[i]
    BY <1>1, <2>1
  <2> QED BY <1>2, <2>2
<1>4. g \in [A -> B]
  BY <1>3
<1>5. ASSUME NEW x \in A, NEW y \in A, g[x] = g[y] PROVE x = y
  <2>1. x \in DOMAIN rows /\ y \in DOMAIN rows /\ h[x] = h[y]
    BY <1>2, <1>5
  <2>2. h[x] \in Int /\ h[y] \in Int /\ ~ (h[x] < h[y]) /\ ~ (h[y] < h[x])
    BY <1>1, <2>1
  <2> QED BY <1>1, <2>1, <2>2
<1>6. IsFiniteSet(B)
  <2>1. IsFiniteSet(Matching(new, f)) /\ B \subseteq Matching(new, f)
    BY Placed
  <2> HIDE DEF B
  <2> QED BY <2>1, FS_Subset
<1> HIDE DEF A, B, g
<1>7. Cardinality(A) <= Cardinality(B)
  BY <1>4, <1>5, <1>6, NoLarger
<1> QED BY <1>2, <1>7 DEF Place, A, B

\* A sequence with one element more, after the k-th.
With(s, k, e) == SubSeq(s, 1, k) \o <<e>> \o SubSeq(s, k + 1, Len(s))

LEMMA Inserted ==
  ASSUME NEW X, NEW s \in Seq(X), NEW e \in X, NEW k \in 0..Len(s)
  PROVE  /\ With(s, k, e) \in Seq(X) /\ Len(With(s, k, e)) = Len(s) + 1
         /\ With(s, k, e)[k + 1] = e
         /\ \A i \in 1..Len(s) : With(s, k, e)[IF i <= k THEN i ELSE i + 1] = s[i]
<1> DEFINE a == SubSeq(s, 1, k)
           b == SubSeq(s, k + 1, Len(s))
           t == (a \o <<e>>) \o b
<1>1. a \in Seq(X) /\ Len(a) = k /\ \A i \in 1..k : a[i] = s[i]
  OBVIOUS
<1>2. b \in Seq(X) /\ Len(b) = Len(s) - k /\ \A i \in 1..Len(s) - k : b[i] = s[k + i]
  OBVIOUS
<1> HIDE DEF a, b
<1> DEFINE c == a \o <<e>>
<1>3. /\ t \in Seq(X) /\ Len(t) = Len(s) + 1 /\ t[k + 1] = e
      /\ \A i \in 1..k : t[i] = a[i]
      /\ \A i \in 1..Len(s) - k : t[k + 1 + i] = b[i]
  <2>1. /\ c \in Seq(X) /\ Len(c) = k + 1 /\ c[k + 1] = e
        /\ \A i \in 1..k : c[i] = a[i]
    BY <1>1
  <2> HIDE DEF c
  <2>2. /\ c \o b \in Seq(X) /\ Len(c \o b) = Len(s) + 1
        /\ \A i \in 1..k + 1 : (c \o b)[i] = c[i]
        /\ \A i \in 1..Len(s) - k : (c \o b)[k + 1 + i] = b[i]
    <3>1. /\ c \o b \in Seq(X) /\ Len(c \o b) = Len(c) + Len(b)
          /\ \A i \in 1..Len(c) + Len(b) : (c \o b)[i] = IF i <= Len(c) THEN c[i] ELSE b[i - Len(c)]
      <4>1. c \in Seq(X) /\ b \in Seq(X)
        BY <1>2, <2>1
      <4>2. c \o b \in Seq(X) /\ Len(c \o b) = Len(c) + Len(b)
        BY <4>1
      <4>3. \A i \in 1..Len(c) + Len(b) : (c \o b)[i] = IF i <= Len(c) THEN c[i] ELSE b[i - Len(c)]
        BY <4>1
      <4> QED BY <4>2, <4>3
    <3>2. Len(c) + Len(b) = Len(s) + 1
      BY <1>2, <2>1
    <3>3. ASSUME NEW i \in 1..Len(s) - k PROVE (c \o b)[k + 1 + i] = b[i]
      <4>1. k + 1 + i \in 1..Len(c) + Len(b) /\ ~ (k + 1 + i <= Len(c)) /\ k + 1 + i - Len(c) = i
        BY <2>1, <3>2
      <4> QED BY <3>1, <4>1
    <3> QED BY <2>1, <3>1, <3>2, <3>3
  <2> QED BY <2>1, <2>2 DEF c
<1> HIDE DEF t
<1>4. ASSUME NEW i \in 1..Len(s) PROVE t[IF i <= k THEN i ELSE i + 1] = s[i]
  <2>1. CASE i <= k
    BY <1>1, <1>3, <2>1
  <2>2. CASE ~ (i <= k)
    <3>1. i - k \in 1..Len(s) - k /\ k + 1 + (i - k) = i + 1 /\ k + (i - k) = i
      BY <2>2
    <3>2. t[i + 1] = b[i - k] /\ b[i - k] = s[i]
      BY <1>2, <1>3, <3>1
    <3> QED BY <2>2, <3>2
  <2> QED BY <2>1, <2>2
<1> QED BY <1>3, <1>4 DEF t, a, b, With

\* A row that is written, wherever its time puts it, pushes none forward.
LEMMA RecordKeepsPages ==
  ASSUME AuditInv, NEW a \in Actions, recordAudit(a), NEW f, NEW p \in Nat
  PROVE  Beyond(log, f, p) \subseteq Beyond(log', f, p)
<1>1. log \in Seq(Row) /\ written + 1 \in 1..MaxRows
  BY AuditPageAssumption DEF AuditInv, LogOK, recordAudit
<1>2. PICK k \in 0..Len(log) :
        log' = SubSeq(log, 1, k) \o <<[id |-> written', action |-> a]>> \o SubSeq(log, k + 1, Len(log))
  BY DEF recordAudit
<1> DEFINE r == [id |-> written', action |-> a]
           h == [i \in DOMAIN log |-> IF i <= k THEN i ELSE i + 1]
<1>3. r \in Row /\ written' = written + 1
  BY <1>1 DEF recordAudit, Row
<1> HIDE DEF r
<1>4. /\ log' \in Seq(Row) /\ Len(log') = Len(log) + 1
      /\ \A i \in 1..Len(log) : log'[IF i <= k THEN i ELSE i + 1] = log[i]
  <2>1. log' = With(log, k, r)
    BY <1>2 DEF r, With
  <2>2. \A e \in Row : /\ With(log, k, e) \in Seq(Row) /\ Len(With(log, k, e)) = Len(log) + 1
                       /\ \A i \in 1..Len(log) : With(log, k, e)[IF i <= k THEN i ELSE i + 1] = log[i]
    BY <1>1, Inserted
  <2> QED BY <1>3, <2>1, <2>2
<1>5. /\ h \in [DOMAIN log -> DOMAIN (log')]
      /\ \A i \in DOMAIN log : log'[h[i]] = log[i]
      /\ \A i, j \in DOMAIN log : i < j => h[i] < h[j]
  <2>1. Len(log) \in Nat /\ DOMAIN log = 1..Len(log) /\ DOMAIN (log') = 1..Len(log) + 1
    BY <1>1, <1>4
  <2>2. \A i \in DOMAIN log : h[i] = IF i <= k THEN i ELSE i + 1
    OBVIOUS
  <2>3. \A i \in DOMAIN log : log'[h[i]] = log[i]
    BY <1>4, <2>1, <2>2
  <2>4. \A i \in 1..Len(log) : (IF i <= k THEN i ELSE i + 1) \in 1..Len(log) + 1
    BY <2>1
  <2>5. h \in [DOMAIN log -> DOMAIN (log')]
    BY <2>1, <2>4
  <2>6. k \in Nat
    BY <2>1
  <2> HIDE DEF h
  <2>7. \A i, j \in DOMAIN log : i < j => h[i] < h[j]
    BY <2>1, <2>2, <2>6
  <2> QED BY <2>3, <2>5, <2>7
<1> HIDE DEF h
<1>6. SUFFICES ASSUME NEW x \in Beyond(log, f, p) PROVE x \in Between(log', f, p * PAGE_SIZE, Len(log'))
  BY DEF Beyond
<1> DEFINE low == p * PAGE_SIZE
<1>7. low \in Nat
  BY AuditPageAssumption
<1>8. PICK i \in Matching(log, f) : log[i] = x /\ Place(log, f, i) \in low + 1 .. Len(log)
  BY <1>6 DEF Beyond, Between
<1> HIDE DEF low
<1>9. /\ h[i] \in Matching(log', f) /\ Place(log, f, i) <= Place(log', f, h[i])
      /\ log'[h[i]] = x
  BY <1>1, <1>4, <1>5, <1>8, PlacesKept DEF Matching
<1>10. Place(log', f, h[i]) \in low + 1 .. Len(log')
  <2>1. Place(log', f, h[i]) \in 1..Cardinality(Matching(log', f)) /\ Cardinality(Matching(log', f)) \in 0..Len(log')
    BY <1>4, <1>9, Placed
  <2>2. Len(log') \in Nat /\ Len(log) \in Nat
    BY <1>1, <1>4
  <2> QED BY <1>7, <1>8, <1>9, <2>1, <2>2
<1> QED BY <1>9, <1>10 DEF Between, low

\* Trimming takes rows from the end: the others keep their places.
LEMMA TrimKeepsPages ==
  ASSUME AuditInv, deleteAuditBefore, NEW f, NEW p \in Nat
  PROVE  Beyond(log, f, p) \cap Rows(log') \subseteq Beyond(log', f, p)
<1>1. log \in Seq(Row) /\ Len(log) \in Nat
  BY DEF AuditInv, LogOK
<1>2. PICK k \in 0..Len(log) - 1 : log' = SubSeq(log, 1, k)
  BY DEF deleteAuditBefore, Before
<1>3. log' \in Seq(Row) /\ Len(log') = k /\ \A i \in 1..k : log'[i] = log[i]
  BY <1>1, <1>2
<1> DEFINE low == p * PAGE_SIZE
<1>4. low \in Nat
  BY AuditPageAssumption
<1> SUFFICES ASSUME NEW x \in Beyond(log, f, p), x \in Rows(log')
             PROVE  x \in Between(log', f, low, Len(log'))
  BY DEF Beyond
<1>5. PICK i \in Matching(log, f) : log[i] = x /\ Place(log, f, i) \in low + 1 .. Len(log)
  BY DEF Beyond, Between
<1>6. PICK j \in 1..k : log'[j] = x
  BY <1>3 DEF Rows
<1>7. i = j
  <2>1. i \in DOMAIN log /\ j \in DOMAIN log /\ log[i] = log[j]
    BY <1>1, <1>3, <1>5, <1>6 DEF Matching
  <2> QED BY <2>1 DEF AuditInv, LogOK
<1>8. i \in Matching(log', f)
  BY <1>3, <1>5, <1>6, <1>7 DEF Matching
<1>9. Place(log', f, i) = Place(log, f, i)
  <2>1. ASSUME NEW n PROVE n \in Matching(log, f) /\ n <= i <=> n \in Matching(log', f) /\ n <= i
    BY <1>1, <1>3, <1>6, <1>7 DEF Matching
  <2>2. {n \in Matching(log, f) : n <= i} = {n \in Matching(log', f) : n <= i}
    BY <2>1
  <2> QED BY <2>2 DEF Place
<1> HIDE DEF low
<1>10. Place(log', f, i) \in low + 1 .. Len(log')
  <2>1. Place(log', f, i) \in 1..Cardinality(Matching(log', f)) /\ Cardinality(Matching(log', f)) \in 0..Len(log')
    BY <1>3, <1>8, Placed
  <2> QED BY <1>3, <1>4, <1>5, <1>9, <2>1
<1>11. log'[i] = x
  BY <1>6, <1>7
<1> QED BY <1>8, <1>10, <1>11 DEF Between

\* There are no more rows than were written, and no answer counts more.
LEMMA LogBounded == LogOK => Len(log) <= written
<1> SUFFICES ASSUME LogOK PROVE Len(log) <= written
  OBVIOUS
<1> DEFINE g == [i \in 1..Len(log) |-> log[i].id]
           n == Len(log)
<1>1. n \in Nat /\ written \in Nat
  BY AuditPageAssumption DEF LogOK
<1>2. g \in [1..n -> 1..written]
  <2>1. ASSUME NEW i \in 1..n PROVE log[i].id \in 1..written
    <3>1. log[i] \in Row /\ i \in DOMAIN log
      BY DEF LogOK
    <3>2. log[i].id \in 1..MaxRows /\ log[i].id <= written
      BY <3>1 DEF LogOK, Row
    <3> QED BY <1>1, <3>2
  <2> QED BY <2>1
<1>3. \A x, y \in 1..n : g[x] = g[y] => x = y
  BY DEF LogOK
<1> HIDE DEF g, n
<1>4. /\ IsFiniteSet(1..written) /\ Cardinality(1..written) = IF 1 > written THEN 0 ELSE written - 1 + 1
      /\ Cardinality(1..n) = IF 1 > n THEN 0 ELSE n - 1 + 1
  BY <1>1, FS_Interval
<1>5. Cardinality(1..n) <= Cardinality(1..written)
  BY <1>2, <1>3, <1>4, NoLarger
<1> QED BY <1>1, <1>4, <1>5 DEF n

\* (the server counts and cuts what is there)
LEMMA AnswerOK ==
  ASSUME LogOK, NEW s \in Selections
  PROVE  listAudit(s) \in Answers /\ Known(listAudit(s))
<1>1. log \in Seq(Row) /\ Len(log) <= written /\ written \in 0..MaxRows /\ MaxRows \in Nat
  BY LogBounded, AuditPageAssumption DEF LogOK
<1>2. s.page \in Nat /\ s.page * PAGE_SIZE \in Nat /\ PAGE_SIZE \in Nat
      /\ (s.page + 1) * PAGE_SIZE = s.page * PAGE_SIZE + PAGE_SIZE
  BY AuditPageAssumption DEF Selections
<1>3. Cardinality(Matching(log, s.action)) \in 0..Len(log)
  BY <1>1, Placed
<1>4. Cardinality(listAudit(s).entries) <= PAGE_SIZE
  BY <1>1, <1>2, PageSized DEF listAudit
<1>5. listAudit(s).entries \subseteq Row
  BY <1>1 DEF listAudit, Between, Matching
<1>6. listAudit(s).total \in 0..written /\ listAudit(s).total \in 0..MaxRows
  BY <1>1, <1>3 DEF listAudit
<1>7. listAudit(s) \in [entries : SUBSET Row, total : 0..MaxRows]
  BY <1>5, <1>6 DEF listAudit
<1> QED BY <1>4, <1>6, <1>7 DEF Answers, Known

\* A new row keeps the log well formed: its id is the next.
LEMMA RecordKeeps ==
  ASSUME AuditInv, NEW a \in Actions, recordAudit(a)
  PROVE  AuditInv'
<1>1. log \in Seq(Row) /\ written \in 0..MaxRows /\ written' = written + 1 /\ written' \in 1..MaxRows
  BY AuditPageAssumption DEF AuditInv, LogOK, recordAudit
<1> DEFINE r == [id |-> written', action |-> a]
<1>2. r \in Row /\ r.id = written'
  BY <1>1 DEF Row
<1>3. PICK k \in 0..Len(log) : log' = With(log, k, r)
  BY DEF recordAudit, With
<1> HIDE DEF r
<1>4. /\ log' \in Seq(Row) /\ Len(log') = Len(log) + 1 /\ log'[k + 1] = r
      /\ \A i \in 1..Len(log) : log'[IF i <= k THEN i ELSE i + 1] = log[i]
  <2>1. \A e \in Row : /\ With(log, k, e) \in Seq(Row) /\ Len(With(log, k, e)) = Len(log) + 1
                       /\ With(log, k, e)[k + 1] = e
                       /\ \A i \in 1..Len(log) : With(log, k, e)[IF i <= k THEN i ELSE i + 1] = log[i]
    BY <1>1, Inserted
  <2> QED BY <1>2, <1>3, <2>1
<1>5. \A i \in 1..Len(log') : \/ i = k + 1
                              \/ \E j \in 1..Len(log) : i = IF j <= k THEN j ELSE j + 1
  <2> SUFFICES ASSUME NEW i \in 1..Len(log'), i # k + 1
               PROVE  \E j \in 1..Len(log) : i = IF j <= k THEN j ELSE j + 1
    OBVIOUS
  <2>1. Len(log) \in Nat /\ Len(log') = Len(log) + 1
    BY <1>1, <1>4
  <2>2. CASE i <= k
    BY <2>1, <2>2
  <2>3. CASE i > k
    <3>1. i - 1 \in 1..Len(log) /\ ~ (i - 1 <= k) /\ i = i - 1 + 1
      BY <2>1, <2>3
    <3> QED BY <3>1
  <2> QED BY <2>2, <2>3
<1>6. \A i, j \in 1..Len(log) : log[i].id <= written /\ (i # j => log[i].id # log[j].id) /\ log[i].id \in Nat
  <2>1. \A i \in 1..Len(log) : log[i] \in Row
    BY <1>1
  <2> QED BY <1>1, <2>1 DEF AuditInv, LogOK, Row
<1>7. ASSUME NEW i \in 1..Len(log'), NEW j \in 1..Len(log')
      PROVE  log'[i].id <= written' /\ (i # j => log'[i].id # log'[j].id)
  <2>1. \A m \in 1..Len(log') : \/ m = k + 1 /\ log'[m].id = written'
                                \/ \E n \in 1..Len(log) : m = (IF n <= k THEN n ELSE n + 1) /\ log'[m].id = log[n].id
    BY <1>2, <1>4, <1>5
  <2>2. log'[i].id <= written'
    BY <1>1, <1>6, <2>1
  <2>3. ASSUME i # j PROVE log'[i].id # log'[j].id
    <3>1. CASE i = k + 1
      <4>1. PICK n \in 1..Len(log) : log'[j].id = log[n].id
        BY <2>1, <2>3, <3>1
      <4>2. log[n].id <= written /\ log[n].id \in Nat /\ log'[i].id = written + 1
        BY <1>1, <1>6, <2>1, <3>1
      <4> QED BY <1>1, <4>1, <4>2
    <3>2. CASE j = k + 1
      <4>1. PICK n \in 1..Len(log) : log'[i].id = log[n].id
        BY <2>1, <2>3, <3>2
      <4>2. log[n].id <= written /\ log[n].id \in Nat /\ log'[j].id = written + 1
        BY <1>1, <1>6, <2>1, <3>2
      <4> QED BY <1>1, <4>1, <4>2
    <3>3. CASE i # k + 1 /\ j # k + 1
      <4>1. PICK m \in 1..Len(log) : i = (IF m <= k THEN m ELSE m + 1) /\ log'[i].id = log[m].id
        BY <2>1, <3>3
      <4>2. PICK n \in 1..Len(log) : j = (IF n <= k THEN n ELSE n + 1) /\ log'[j].id = log[n].id
        BY <2>1, <3>3
      <4>3. m # n
        BY <2>3, <4>1, <4>2
      <4> QED BY <1>6, <4>1, <4>2, <4>3
    <3> QED BY <3>1, <3>2, <3>3
  <2> QED BY <2>2, <2>3
<1>8. LogOK'
  BY <1>1, <1>4, <1>7 DEF LogOK
<1>9. UNCHANGED <<selection, auditShown, auditError, loading, requests>>
  BY DEF recordAudit
<1>10. \A x : Known(x) => Known(x)'
  <2>1. \A x \in Answers : x.total \in Int
    BY DEF Answers
  <2> QED BY <1>1, <2>1 DEF Known
<1>11. ScreenOK'
  <2>1. lastPage(written) \in Nat /\ lastPage(written') \in Nat /\ lastPage(written) <= lastPage(written')
    BY <1>1, LastPages
  <2>2. selection.page \in Int
    BY DEF AuditInv, ScreenOK, Selections
  <2>3. selection'.page <= lastPage(written')
    BY <1>9, <2>1, <2>2 DEF AuditInv, ScreenOK
  <2>4. Known(auditShown)'
    BY <1>9, <1>10 DEF AuditInv, ScreenOK
  <2> QED BY <1>9, <2>3, <2>4 DEF AuditInv, ScreenOK
<1>12. RequestsOK'
  <2>1. ASSUME NEW q \in Requests, requests'[q] # None, requests'[q].answer # Failed
        PROVE  Known(requests[q].answer)'
    BY <1>9, <1>10, <2>1 DEF AuditInv, RequestsOK
  <2> QED BY <1>9, <2>1 DEF AuditInv, RequestsOK
<1> QED BY <1>8, <1>11, <1>12 DEF AuditInv

\* Trimming does too: what stays is the beginning of the log.
LEMMA TrimKeeps == ASSUME AuditInv, deleteAuditBefore PROVE AuditInv'
<1>1. log \in Seq(Row) /\ Len(log) \in Nat
  BY DEF AuditInv, LogOK
<1>2. PICK k \in 0..Len(log) - 1 : log' = SubSeq(log, 1, k)
  BY DEF deleteAuditBefore, Before
<1>3. log' \in Seq(Row) /\ Len(log') = k /\ \A i \in 1..k : log'[i] = log[i]
  BY <1>1, <1>2
<1>4. UNCHANGED <<written, selection, auditShown, auditError, loading, requests>>
  BY DEF deleteAuditBefore
<1>5. LogOK'
  <2>1. \A i \in DOMAIN log' : i \in DOMAIN log /\ log'[i] = log[i]
    BY <1>1, <1>3
  <2> QED BY <1>3, <1>4, <2>1 DEF AuditInv, LogOK
<1> QED BY <1>4, <1>5 DEF AuditInv, ScreenOK, RequestsOK, Known

\* One more request, with the page's own selection or a new one.
LEMMA LoadKeeps ==
  ASSUME AuditInv, NEW s \in Selections, s.page <= lastPage(written), load(s),
         selection' = s, UNCHANGED <<log, written, auditShown, auditError>>
  PROVE  AuditInv'
<1>1. PICK r \in Requests : requests' = [requests EXCEPT ![r] = Ask(s)]
  BY DEF load
<1>2. Ask(s) \in [asks : Selections, answer : Answers \cup {None, Failed}] /\ Ask(s).answer = None
  BY DEF Ask
<1>3. RequestsOK'
  <2>1. Known(Ask(s).answer)
    BY <1>2 DEF Known
  <2>2. \A q \in Requests : requests'[q] = IF q = r THEN Ask(s) ELSE requests[q]
    BY <1>1 DEF AuditInv, RequestsOK
  <2>3. \A x : Known(x)' <=> Known(x)
    BY DEF Known
  <2> QED BY <1>1, <1>2, <2>1, <2>2, <2>3 DEF AuditInv, RequestsOK
<1>4. ScreenOK'
  BY DEF AuditInv, ScreenOK, load, Known
<1> QED BY <1>3, <1>4 DEF AuditInv, LogOK

\* The buttons and the timer ask for a page that there may be.
LEMMA SelectKeeps ==
  ASSUME AuditInv,
         AuditTimer \/ Refresh \/ PreviousPage \/ NextPage \/ \E f \in Filters : setAction(f)
  PROVE  AuditInv' /\ UNCHANGED log
<1>1. /\ selection \in Selections /\ selection.page <= lastPage(written)
      /\ selection.page \in Nat /\ written \in Nat /\ written <= MaxRows /\ MaxRows \in Nat
  BY AuditPageAssumption DEF AuditInv, LogOK, ScreenOK, Selections
<1>2. lastPage(written) \in Nat /\ lastPage(written) <= written
  BY <1>1, LastPages
<1>3. CASE AuditTimer \/ Refresh
  <2>1. load(selection) /\ UNCHANGED <<log, written, selection, auditShown, auditError>>
    BY <1>3 DEF AuditTimer, Refresh, Renewed
  <2> QED BY <1>1, <2>1, LoadKeeps
<1>4. CASE PreviousPage
  <2> DEFINE s == [selection EXCEPT !.page = Larger(0, @ - 1)]
  <2>1. Larger(0, selection.page - 1) \in 0..selection.page
    BY <1>1 DEF Larger
  <2>2. s \in Selections /\ s.page <= lastPage(written)
    BY <1>1, <1>2, <2>1 DEF Selections
  <2>3. load(s) /\ selection' = s /\ UNCHANGED <<log, written, auditShown, auditError>>
    BY <1>4 DEF PreviousPage, Select
  <2> HIDE DEF s
  <2> QED BY <2>2, <2>3, LoadKeeps
<1>5. CASE NextPage
  <2> DEFINE s == [selection EXCEPT !.page = Smaller(lastPage(Total), @ + 1)]
  <2>1. Total \in Nat /\ Total <= written
    BY <1>1 DEF AuditInv, ScreenOK, Known, Answers, Total
  <2>2. lastPage(Total) \in Nat /\ lastPage(Total) <= lastPage(written)
    BY <1>1, <2>1, LastPages
  <2>3. Smaller(lastPage(Total), selection.page + 1) \in 0..lastPage(written)
    BY <1>1, <1>2, <2>2 DEF Smaller
  <2>4. s \in Selections /\ s.page <= lastPage(written)
    BY <1>1, <1>2, <2>3 DEF Selections
  <2>5. load(s) /\ selection' = s /\ UNCHANGED <<log, written, auditShown, auditError>>
    BY <1>5 DEF NextPage, Select
  <2> HIDE DEF s
  <2> QED BY <2>4, <2>5, LoadKeeps
<1>6. ASSUME NEW f \in Filters, setAction(f) PROVE AuditInv' /\ UNCHANGED log
  <2> DEFINE s == [action |-> f, page |-> 0]
  <2>1. s \in Selections /\ s.page <= lastPage(written)
    BY <1>1, <1>2 DEF Selections
  <2>2. load(s) /\ selection' = s /\ UNCHANGED <<log, written, auditShown, auditError>>
    BY <1>6 DEF setAction, Select
  <2> HIDE DEF s
  <2> QED BY <2>1, <2>2, LoadKeeps
<1> QED BY <1>3, <1>4, <1>5, <1>6

\* The server answers from the log as it is.
LEMMA ServeKeeps ==
  ASSUME AuditInv, NEW r \in Requests, ServeAudit(r)
  PROVE  AuditInv' /\ UNCHANGED log
<1>1. UNCHANGED <<log, written, selection, auditShown, auditError, loading>>
  BY DEF ServeAudit
<1>2. requests[r] \in [asks : Selections, answer : Answers \cup {None, Failed}] /\ requests[r].asks \in Selections
  BY DEF AuditInv, RequestsOK, ServeAudit
<1>3. \E a \in Answers \cup {Failed} :
         requests' = [requests EXCEPT ![r].answer = a] /\ (a # Failed => Known(a))
  BY <1>2, AnswerOK DEF AuditInv, ServeAudit
<1>4. PICK a \in Answers \cup {Failed} :
         requests' = [requests EXCEPT ![r].answer = a] /\ (a # Failed => Known(a))
  BY <1>3
<1>5. /\ requests'[r] = [requests[r] EXCEPT !.answer = a]
      /\ \A q \in Requests \ {r} : requests'[q] = requests[q]
      /\ requests' = [q \in Requests |-> requests'[q]]
  BY <1>4 DEF AuditInv, RequestsOK
<1>6. requests'[r] \in [asks : Selections, answer : Answers \cup {None, Failed}] /\ requests'[r].answer = a
  BY <1>2, <1>5
<1>7. \A x : Known(x)' <=> Known(x)
  BY <1>1 DEF Known
<1>8. RequestsOK'
  <2>1. requests' \in [Requests -> [asks : Selections, answer : Answers \cup {None, Failed}] \cup {None}]
    BY <1>5, <1>6 DEF AuditInv, RequestsOK
  <2>2. ASSUME NEW q \in Requests, requests'[q] # None, requests'[q].answer # Failed
        PROVE  Known(requests'[q].answer)
    BY <1>4, <1>5, <1>6, <2>2 DEF AuditInv, RequestsOK
  <2> QED BY <1>7, <2>1, <2>2 DEF RequestsOK
<1> QED BY <1>1, <1>7, <1>8 DEF AuditInv, LogOK, ScreenOK

\* Any answer may be the next that is shown.
LEMMA LoadedKeeps ==
  ASSUME AuditInv, NEW r \in Requests, Loaded(r)
  PROVE  AuditInv' /\ UNCHANGED log
<1>1. /\ UNCHANGED <<log, written, selection>> /\ loading' = FALSE
      /\ requests' = [requests EXCEPT ![r] = None]
      /\ auditError' = (requests[r].answer = Failed) /\ requests[r] # None /\ requests[r].answer # None
      /\ auditShown' = IF auditError' THEN auditShown ELSE requests[r].answer
  BY DEF Loaded
<1>2. requests[r].answer \in Answers \cup {None, Failed}
  BY <1>1 DEF AuditInv, RequestsOK
<1>3. \A x : Known(x)' <=> Known(x)
  BY <1>1 DEF Known
<1>4. auditError' \in BOOLEAN
  BY <1>1
<1>5. auditShown' \in Answers \cup {None} /\ Known(auditShown')
  <2>1. CASE requests[r].answer = Failed
    BY <1>1, <2>1 DEF AuditInv, ScreenOK
  <2>2. CASE requests[r].answer # Failed
    BY <1>1, <1>2, <2>2 DEF AuditInv, RequestsOK
  <2> QED BY <2>1, <2>2
<1>6. ScreenOK'
  BY <1>1, <1>3, <1>4, <1>5 DEF AuditInv, ScreenOK
<1>7. RequestsOK'
  BY <1>1, <1>3 DEF AuditInv, RequestsOK
<1> QED BY <1>1, <1>6, <1>7 DEF AuditInv, LogOK

\* A log of any length, and a page that asks for its beginning.
LEMMA AuditStart == AuditInit => AuditInv
<1> SUFFICES ASSUME AuditInit PROVE AuditInv
  OBVIOUS
<1>1. PICK action \in [1..written -> Actions] :
        log = [i \in 1..written |-> [id |-> written + 1 - i, action |-> action[i]]]
  BY DEF AuditInit
<1>2. written \in Nat /\ written \in 0..MaxRows /\ MaxRows \in Nat
  BY AuditPageAssumption DEF AuditInit
<1>3. LogOK
  <2>1. \A i \in 1..written : log[i] \in Row /\ log[i].id = written + 1 - i
    BY <1>1, <1>2 DEF Row
  <2>2. DOMAIN log = 1..written /\ log \in Seq(Row)
    BY <1>1, <1>2, <2>1
  <2> QED BY <1>2, <2>1, <2>2 DEF LogOK
<1>4. FirstPage \in Selections /\ FirstPage.page = 0
  BY <1>2 DEF FirstPage, Selections, Filters
<1>5. lastPage(written) \in Nat
  BY <1>2, LastPages
<1>6. ScreenOK
  <2>1. selection = FirstPage /\ auditShown = None /\ auditError = FALSE /\ loading = TRUE
    BY DEF AuditInit
  <2>2. selection.page <= lastPage(written)
    BY <1>4, <1>5, <2>1
  <2> QED BY <1>4, <2>1, <2>2 DEF ScreenOK, Known
<1>7. Ask(FirstPage) \in [asks : Selections, answer : Answers \cup {None, Failed}] /\ Ask(FirstPage).answer = None
  BY <1>4 DEF Ask
<1>8. RequestsOK
  BY <1>7 DEF AuditInit, RequestsOK, Known
<1> QED BY <1>3, <1>6, <1>8 DEF AuditInv

\* Every step.
LEMMA AuditStep ==
  ASSUME AuditInv, [AuditNext]_auditVars
  PROVE  /\ AuditInv'
         /\ \A f \in Filters, p \in 0..MaxRows : Beyond(log, f, p) \cap Rows(log') \subseteq Beyond(log', f, p)
<1>1. ASSUME UNCHANGED log PROVE \A f, p : Beyond(log, f, p) \subseteq Beyond(log', f, p)
  BY <1>1 DEF Beyond, Between, Matching, Place
<1>2. 0..MaxRows \subseteq Nat
  BY AuditPageAssumption
<1>3. CASE UNCHANGED auditVars
  BY <1>1, <1>3 DEF auditVars, AuditInv, LogOK, ScreenOK, RequestsOK, Known
<1>4. ASSUME NEW a \in Actions, recordAudit(a)
      PROVE  AuditInv' /\ \A f \in Filters, p \in 0..MaxRows : Beyond(log, f, p) \subseteq Beyond(log', f, p)
  BY <1>2, <1>4, RecordKeeps, RecordKeepsPages
<1>5. CASE deleteAuditBefore
  BY <1>2, <1>5, TrimKeeps, TrimKeepsPages
<1>6. CASE AuditTimer \/ Refresh \/ PreviousPage \/ NextPage \/ \E f \in Filters : setAction(f)
  BY <1>1, <1>6, SelectKeeps
<1>7. ASSUME NEW r \in Requests, ServeAudit(r) \/ Loaded(r)
      PROVE  AuditInv' /\ UNCHANGED log
  BY <1>7, ServeKeeps, LoadedKeeps
<1> QED BY <1>1, <1>3, <1>4, <1>5, <1>6, <1>7 DEF AuditNext

\* What is promised follows.
LEMMA AuditFollows == AuditInv => AuditTypeOK /\ EveryRowOnAPage
<1> SUFFICES ASSUME AuditInv PROVE AuditTypeOK /\ EveryRowOnAPage
  OBVIOUS
<1>1. AuditTypeOK
  BY DEF AuditInv, LogOK, ScreenOK, RequestsOK, AuditTypeOK, Answers, Row
<1>2. EveryRowOnAPage
  BY OnItsPage DEF AuditInv, EveryRowOnAPage
<1> QED BY <1>1, <1>2

(* Whatever is written, trimmed, selected and answered late: every row of a  *)
(* filter is on one of the pages that its total gives, no page holds more    *)
(* than its size, and the page asked for is one that the rows can fill.      *)
THEOREM RowsOnPages == AuditSpec => [](AuditTypeOK /\ EveryRowOnAPage)
<1>1. AuditInv /\ [AuditNext /\ UNCHANGED page]_<<page, auditVars>> => AuditInv'
  BY AuditStep
<1> QED BY <1>1, AuditStart, AuditFollows, PTL DEF AuditSpec

(* No row slips to a page that a reader has turned already, although rows    *)
(* come with times in the past and old ones are trimmed.                     *)
THEOREM NoneSkipped == AuditSpec => NothingSkipped
<1>1. AuditInv /\ [AuditNext /\ UNCHANGED page]_<<page, auditVars>> => AuditInv'
  BY AuditStep
<1>2. AuditInv /\ [AuditNext /\ UNCHANGED page]_<<page, auditVars>> =>
        [\A f \in Filters, p \in 0..MaxRows :
           Beyond(log, f, p) \cap Rows(log') \subseteq Beyond(log', f, p)]_log
  BY AuditStep
<1> QED BY <1>1, <1>2, AuditStart, PTL DEF AuditSpec, NothingSkipped

==============================================================================
