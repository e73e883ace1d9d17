----------------------------- MODULE LoopProofs -----------------------------
(***************************************************************************)
(* Proof that the scheduler's loop computes what JobEngine!runScheduler    *)
(* states, and never books a unit twice on its way: for any workers, units *)
(* and reports, and any table the engine's slot exclusion holds of.        *)
(*                                                                         *)
(* runScheduler is a set of tables.  That the loop ends in it, and that it *)
(* has no other member, are one induction along the queue: what the loop   *)
(* has chosen for the jobs it has passed is an assignment as far as it     *)
(* goes, and every assignment agrees with it so far (Chosen, Forced).  The *)
(* loop takes the front of the queue, so what is ahead of a job is passed. *)
(***************************************************************************)
EXTENDS SchedulerLoop, TLAPS

swept    == failStaleRunningJobs(jobs, online)
Possible == Assignments(swept, online, metrics)

WellFormed(t) == DOMAIN t \subseteq JobIds /\ t \in [DOMAIN t -> JobRow]
Exclusive(t)  ==
  \A i, j \in DOMAIN t :
    t[i].status \in Busy /\ t[j].status \in Busy /\ t[i].unit = t[j].unit => i = j

\* What the call is given, and keeps.
GivenOK ==
  /\ WellFormed(jobs) /\ Exclusive(jobs)
  /\ online \in [Workers -> BOOLEAN]
  /\ metrics \in [Workers -> Reports \cup {NoReport}]

\* The choice made for every ready job the loop has passed.
Choice == [j \in Ready(swept) |-> IF tbl[j].status = "ASSIGNED" THEN tbl[j].unit ELSE NoUnit]

Sought(asg, j) == Eligible(swept[j].input.kind, online, metrics, TakenBefore(swept, asg, j))
Chosen == \A j \in Ready(swept) \ queue : findAssignment(Choice[j], Sought(Choice, j))
Forced == \A asg \in Possible : \A j \in Ready(swept) \ queue : asg[j] = Choice[j]

\* A row is as it was after the sweep, unless the loop has passed and assigned it.
Rows ==
  /\ DOMAIN tbl = DOMAIN swept
  /\ \A j \in DOMAIN swept :
       \/ tbl[j] = swept[j]
       \/ /\ j \in Ready(swept) \ queue
          /\ tbl[j].input = swept[j].input
          /\ tbl[j].status = "ASSIGNED" /\ tbl[j].unit \in Units
          /\ tbl[j] = [swept[j] EXCEPT !.status = "ASSIGNED", !.unit = tbl[j].unit]

Queue ==
  /\ queue \subseteq {j \in DOMAIN swept : swept[j].status = "QUEUED"}
  /\ \A i \in {k \in DOMAIN swept : swept[k].status = "QUEUED"} \ queue, j \in queue :
       Ahead(swept, i, j)

Booked == busy = BusyUnits(tbl) /\ Exclusive(tbl)

Walk == Rows /\ Queue /\ Booked /\ Chosen /\ Forced

\* What the search for the front job's unit has left open.
Search ==
  /\ workers \subseteq Workers
  /\ \A job \in queue : Front(job) =>
       /\ job \in Ready(swept)
       /\ \A u \in Eligible(swept[job].input.kind, online, metrics, busy) : u.worker \in workers

LoopInv ==
  /\ GivenOK /\ WellFormed(tbl)
  /\ phase \in {"sweep", "select", "jobs", "workers", "done"}
  /\ phase = "sweep" =>
       /\ DOMAIN tbl = DOMAIN jobs
       /\ \A j \in DOMAIN jobs : tbl[j] = IF j \in running THEN jobs[j] ELSE swept[j]
  /\ phase = "select" => tbl = swept
  /\ phase \in {"jobs", "workers", "done"} => Walk
  /\ phase = "workers" => Search
  /\ phase = "done" => queue = {}

------------------------------------------------------------------------------
(* What stays the same.                                                    *)

LEMMA SweptRows ==
  ASSUME GivenOK
  PROVE  /\ DOMAIN swept = DOMAIN jobs /\ WellFormed(swept) /\ Exclusive(swept)
         /\ \A j \in DOMAIN jobs : swept[j] = IF Stale(jobs[j], online)
                                              THEN [jobs[j] EXCEPT !.status = "FAILED"] ELSE jobs[j]
<1>1. /\ DOMAIN swept = DOMAIN jobs
      /\ \A j \in DOMAIN jobs : swept[j] = IF Stale(jobs[j], online)
                                           THEN [jobs[j] EXCEPT !.status = "FAILED"] ELSE jobs[j]
  BY DEF swept, failStaleRunningJobs
<1>2. ASSUME NEW j \in DOMAIN jobs
      PROVE  /\ swept[j] \in JobRow
             /\ swept[j].status \in Busy => swept[j] = jobs[j]
  <2>1. jobs[j] \in JobRow
    BY DEF GivenOK, WellFormed
  <2> QED BY <1>1, <2>1 DEF JobRow, Statuses, Busy
<1>3. WellFormed(swept)
  <2>1. swept = [j \in DOMAIN jobs |-> swept[j]]
    BY DEF swept, failStaleRunningJobs
  <2> QED BY <1>1, <1>2, <2>1 DEF GivenOK, WellFormed
<1>4. Exclusive(swept)
  BY <1>1, <1>2 DEF GivenOK, Exclusive
<1> QED BY <1>1, <1>3, <1>4

LEMMA SameEligible ==
  ASSUME UNCHANGED given
  PROVE  \A kind, on, met, taken : Eligible(kind, on, met, taken)' = Eligible(kind, on, met, taken)
BY DEF given, Eligible

LEMMA SameGiven ==
  ASSUME UNCHANGED given
  PROVE  /\ GivenOK <=> GivenOK'
         /\ swept' = swept /\ Possible' = Possible
         /\ \A asg, j : Sought(asg, j)' = Sought(asg, j)
<1>1. jobs' = jobs /\ online' = online /\ metrics' = metrics /\ jobs_enabled' = jobs_enabled
  BY DEF given
<1>2. swept' = swept
  BY <1>1 DEF swept
<1>3. ASSUME NEW asg, NEW j PROVE Sought(asg, j)' = Sought(asg, j)
  BY <1>1, <1>2, SameEligible DEF Sought
<1>4. Possible' = Possible
  <2>1. \A asg : asg \in Possible' <=> asg \in Possible
    BY <1>1, <1>2, <1>3 DEF Possible, Assignments, Sought
  <2> QED BY <2>1 DEF Possible, Assignments
<1> QED BY <1>1, <1>2, <1>3, <1>4 DEF GivenOK

\* The order of the queue.
LEMMA AheadOrder ==
  ASSUME NEW t, WellFormed(t), NEW i \in DOMAIN t, NEW j \in DOMAIN t
  PROVE  /\ ~ (Ahead(t, i, j) /\ Ahead(t, j, i))
         /\ ~ Ahead(t, i, i)
         /\ i # j => Ahead(t, i, j) \/ Ahead(t, j, i)
<1>1. i \in Nat /\ j \in Nat
  BY DEF WellFormed, JobIds
<1>2. t[i].input.priority \in Int /\ t[j].input.priority \in Int
  <2>1. t[i] \in JobRow /\ t[j] \in JobRow
    BY DEF WellFormed
  <2>2. t[i].input \in InputType /\ t[j].input \in InputType
    BY <2>1, EngineAssumption DEF JobRow
  <2> QED BY <2>2 DEF InputType
<1> QED BY <1>1, <1>2 DEF Ahead

\* The first eligible unit is one.
LEMMA OneFirst ==
  ASSUME NEW eligible \in SUBSET Units, NEW u, NEW v,
         findAssignment(u, eligible), findAssignment(v, eligible)
  PROVE  u = v
<1>1. CASE eligible = {}
  BY <1>1 DEF findAssignment
<1>2. CASE eligible # {}
  <2>1. u \in Units /\ v \in Units /\ NotAfter(u, v) /\ NotAfter(v, u)
    BY <1>2 DEF findAssignment
  <2>2. u.worker \in Nat /\ v.worker \in Nat /\ u.gpu \in Int /\ v.gpu \in Int
    <3>1. \A g \in Gpus \cup {NoGpu} : g \in Int
      BY EngineAssumption
    <3>2. \A w \in Workers : w \in Nat
      BY EngineAssumption
    <3> QED BY <2>1, <3>1, <3>2 DEF Units
  <2>3. u.worker = v.worker /\ u.gpu = v.gpu
    BY <2>1, <2>2 DEF NotAfter
  <2> QED BY <2>1, <2>3 DEF Units
<1> QED BY <1>1, <1>2

------------------------------------------------------------------------------
(* One job passed.                                                         *)

\* Only a unit, a status and the queue change: whose turn it is, and what is
\* COMPLETED, the table and the swept table agree on.
LEMMA SameOrder ==
  ASSUME GivenOK, Walk
  PROVE  /\ \A i, j \in DOMAIN swept : Ahead(tbl, i, j) <=> Ahead(swept, i, j)
         /\ \A j \in DOMAIN swept : isDependencySatisfied(tbl, j) <=> isDependencySatisfied(swept, j)
         /\ \A j \in queue : j \in DOMAIN swept /\ tbl[j] = swept[j] /\ swept[j].status = "QUEUED"
<1>1. \A j \in DOMAIN swept : tbl[j].input = swept[j].input
  BY DEF Walk, Rows
<1>2. \A j \in DOMAIN swept : tbl[j].status = "COMPLETED" <=> swept[j].status = "COMPLETED"
  BY DEF Walk, Rows, Ready
<1>3. \A j \in queue : j \in DOMAIN swept /\ tbl[j] = swept[j] /\ swept[j].status = "QUEUED"
  BY DEF Walk, Rows, Queue
<1>4. DOMAIN tbl = DOMAIN swept
  BY DEF Walk, Rows
<1> QED BY <1>1, <1>2, <1>3, <1>4 DEF Ahead, isDependencySatisfied

\* What is busy when the loop comes to a job is what the jobs ahead of it and
\* the rows before the call have taken.
LEMMA BusyIsTaken ==
  ASSUME GivenOK, Walk, NEW job \in queue, job \in Ready(swept)
  PROVE  \A kind : Eligible(kind, online, metrics, busy)
                     = Eligible(kind, online, metrics, TakenBefore(swept, Choice, job))
<1> SUFFICES ASSUME NEW u \in Units
             PROVE  u \in busy <=> u \in TakenBefore(swept, Choice, job)
  BY DEF Eligible
<1>1. /\ DOMAIN tbl = DOMAIN swept
      /\ \A j \in DOMAIN swept :
           \/ tbl[j] = swept[j]
           \/ j \in Ready(swept) \ queue /\ tbl[j].status = "ASSIGNED"
      /\ busy = BusyUnits(tbl)
  BY DEF Walk, Rows, Booked
<1>2. ASSUME u \in busy PROVE u \in TakenBefore(swept, Choice, job)
  <2>1. PICK j \in DOMAIN swept : tbl[j].status \in Busy /\ tbl[j].unit = u
    BY <1>1, <1>2 DEF BusyUnits
  <2>2. CASE tbl[j] = swept[j]
    BY <2>1, <2>2 DEF TakenBefore, BusyUnits
  <2>3. CASE j \in Ready(swept) \ queue /\ tbl[j].status = "ASSIGNED"
    <3>1. Ahead(swept, j, job)
      BY <2>3 DEF Walk, Queue, Ready
    <3>2. Choice[j] = u
      BY <2>1, <2>3 DEF Choice
    <3> QED BY <2>3, <3>1, <3>2 DEF TakenBefore
  <2> QED BY <1>1, <2>2, <2>3
<1>3. ASSUME u \in TakenBefore(swept, Choice, job) PROVE u \in busy
  <2>1. CASE u \in BusyUnits(swept)
    <3>1. PICK j \in DOMAIN swept : swept[j].status \in Busy /\ swept[j].unit = u
      BY <2>1 DEF BusyUnits
    <3>2. tbl[j] = swept[j]
      BY <1>1, <3>1 DEF Ready, Busy
    <3> QED BY <1>1, <3>1, <3>2 DEF BusyUnits
  <2>2. CASE u \in {Choice[i] : i \in {k \in Ready(swept) : Ahead(swept, k, job)}}
    <3>1. PICK i \in Ready(swept) : Choice[i] = u
      BY <2>2
    <3>2. u # NoUnit
      BY EngineAssumption
    <3>3. tbl[i].status = "ASSIGNED" /\ tbl[i].unit = u
      BY <3>1, <3>2 DEF Choice
    <3> QED BY <1>1, <3>1, <3>3 DEF BusyUnits, Busy, Ready
  <2> QED BY <1>3, <2>1, <2>2 DEF TakenBefore
<1> QED BY <1>2, <1>3

\* The jobs ahead of one that is passed, or at the front, are passed: a choice
\* for the front leaves what was taken before those as it is.
LEMMA AheadPassed ==
  ASSUME GivenOK, Walk, NEW job \in queue, Front(job), NEW i \in Ready(swept), NEW j \in Ready(swept),
         j = job \/ j \notin queue, Ahead(swept, i, j)
  PROVE  i \notin queue
<1>1. i \in DOMAIN swept /\ j \in DOMAIN swept /\ job \in DOMAIN swept
  BY SameOrder DEF Ready
<1>2. WellFormed(swept)
  BY SweptRows
<1>3. ~ Ahead(swept, j, i) /\ i # j
  BY <1>1, <1>2, AheadOrder
<1> SUFFICES ASSUME i \in queue PROVE FALSE
  OBVIOUS
<1>4. CASE j = job
  BY <1>1, <1>3, <1>4, SameOrder DEF Front
<1>5. CASE j \notin queue
  BY <1>3, <1>5 DEF Walk, Queue, Ready
<1> QED BY <1>4, <1>5

\* Every assignment gives the front job the unit that the loop finds for it.
LEMMA FrontForced ==
  ASSUME GivenOK, Walk, NEW job \in queue, Front(job), job \in Ready(swept),
         NEW unit,
         findAssignment(unit, Eligible(swept[job].input.kind, online, metrics, busy)),
         NEW asg \in Possible
  PROVE  asg[job] = unit
<1>1. findAssignment(asg[job], Sought(asg, job))
  BY DEF Possible, Assignments, Sought
<1>2. TakenBefore(swept, asg, job) = TakenBefore(swept, Choice, job)
  <2>1. \A i \in Ready(swept) : Ahead(swept, i, job) => asg[i] = Choice[i]
    BY AheadPassed DEF Walk, Forced
  <2> QED BY <2>1 DEF TakenBefore
<1>3. Sought(asg, job) = Eligible(swept[job].input.kind, online, metrics, busy)
  BY <1>2, BusyIsTaken DEF Sought
<1>4. Sought(asg, job) \in SUBSET Units
  BY DEF Sought, Eligible
<1> QED BY <1>1, <1>3, <1>4, OneFirst

\* The front job leaves the queue with the unit found for it, or without one.
LEMMA Decided ==
  ASSUME GivenOK, Walk, NEW job \in queue, Front(job), job \in Ready(swept),
         NEW unit,
         findAssignment(unit, Eligible(swept[job].input.kind, online, metrics, busy)),
         UNCHANGED given, queue' = queue \ {job},
         \/ /\ unit \in Units
            /\ tbl' = [tbl EXCEPT ![job].status = "ASSIGNED", ![job].unit = unit]
            /\ busy' = busy \cup {unit}
         \/ unit = NoUnit /\ UNCHANGED <<tbl, busy>>
  PROVE  Walk'
<1>1. /\ GivenOK' /\ swept' = swept /\ Possible' = Possible
      /\ \A asg, j : Sought(asg, j)' = Sought(asg, j)
  BY SameGiven
<1>2. Ready(swept)' = Ready(swept)
  BY <1>1 DEF Ready, isDependencySatisfied
<1>3. /\ job \in DOMAIN swept /\ tbl[job] = swept[job] /\ swept[job].status = "QUEUED"
      /\ DOMAIN tbl = DOMAIN swept
  BY SameOrder DEF Walk, Rows
<1>4. /\ DOMAIN tbl' = DOMAIN swept
      /\ \A j \in DOMAIN swept \ {job} : tbl'[j] = tbl[j]
      /\ \/ /\ unit \in Units /\ busy' = busy \cup {unit}
            /\ tbl'[job] = [swept[job] EXCEPT !.status = "ASSIGNED", !.unit = unit]
         \/ unit = NoUnit /\ tbl'[job] = swept[job] /\ busy' = busy /\ tbl' = tbl
  BY <1>3
<1>5. swept[job] \in JobRow
  BY <1>3, SweptRows DEF WellFormed
<1>6. ASSUME unit \in Units, tbl'[job] = [swept[job] EXCEPT !.status = "ASSIGNED", !.unit = unit]
      PROVE  /\ tbl'[job].status = "ASSIGNED" /\ tbl'[job].unit = unit
             /\ tbl'[job].input = swept[job].input
  BY <1>5, <1>6 DEF JobRow
<1>7. unit # NoUnit => unit \in Units
  BY <1>4
<1>8. NoUnit \notin Units
  BY EngineAssumption
<1>9. Rows'
  <2>1. ASSUME NEW j \in DOMAIN swept \ {job}
        PROVE  \/ tbl'[j] = swept[j]
               \/ /\ j \in Ready(swept) \ queue'
                  /\ tbl'[j].input = swept[j].input
                  /\ tbl'[j].status = "ASSIGNED" /\ tbl'[j].unit \in Units
                  /\ tbl'[j] = [swept[j] EXCEPT !.status = "ASSIGNED", !.unit = tbl'[j].unit]
    BY <1>4 DEF Walk, Rows
  <2>2. \/ tbl'[job] = swept[job]
        \/ /\ job \in Ready(swept) \ queue'
           /\ tbl'[job].input = swept[job].input
           /\ tbl'[job].status = "ASSIGNED" /\ tbl'[job].unit \in Units
           /\ tbl'[job] = [swept[job] EXCEPT !.status = "ASSIGNED", !.unit = tbl'[job].unit]
    BY <1>4, <1>6
  <2> QED BY <1>1, <1>2, <1>4, <2>1, <2>2 DEF Rows
<1>10. /\ Choice'[job] = unit
       /\ \A j \in Ready(swept) \ {job} : Choice'[j] = Choice[j]
  <2>1. Choice' = [j \in Ready(swept) |->
                     IF tbl'[j].status = "ASSIGNED" THEN tbl'[j].unit ELSE NoUnit]
    BY <1>2 DEF Choice
  <2>2. \A j \in Ready(swept) : j \in DOMAIN swept
    BY DEF Ready
  <2>3. Choice'[job] = unit
    BY <1>3, <1>4, <1>6, <2>1
  <2>4. \A j \in Ready(swept) \ {job} : Choice'[j] = Choice[j]
    BY <1>4, <2>1, <2>2 DEF Choice
  <2> QED BY <2>3, <2>4
<1>11. Queue'
  <2>1. queue' \subseteq queue
    OBVIOUS
  <2>2. \A j \in queue' : Ahead(swept, job, j)
    BY <1>3, SameOrder DEF Front
  <2> QED BY <1>1, <2>1, <2>2 DEF Walk, Queue, Ahead
<1>12. Booked'
  <2>1. CASE tbl' = tbl /\ busy' = busy
    BY <2>1 DEF Walk, Booked, BusyUnits, Exclusive
  <2>2. CASE unit \in Units /\ busy' = busy \cup {unit} /\ tbl'[job].status = "ASSIGNED" /\ tbl'[job].unit = unit
    <3>1. "QUEUED" \notin Busy /\ "ASSIGNED" \in Busy
      BY DEF Busy
    <3>2. BusyUnits(tbl)' = BusyUnits(tbl) \cup {unit}
      BY <1>3, <1>4, <2>2, <3>1 DEF BusyUnits
    <3>3. unit \notin BusyUnits(tbl)
      <4>1. unit \in Eligible(swept[job].input.kind, online, metrics, busy)
        BY <1>8, <2>2 DEF findAssignment
      <4> QED BY <4>1 DEF Eligible, Walk, Booked
    <3>4. \A j \in DOMAIN tbl : tbl[j].status \in Busy => tbl[j].unit # unit
      BY <3>3 DEF BusyUnits
    <3>5. Exclusive(tbl)'
      BY <1>3, <1>4, <2>2, <3>1, <3>4 DEF Walk, Booked, Exclusive
    <3> QED BY <2>2, <3>2, <3>5 DEF Walk, Booked
  <2> QED BY <1>4, <1>6, <2>1, <2>2
<1>13. \A j \in Ready(swept) : j = job \/ j \notin queue =>
         TakenBefore(swept, Choice', j) = TakenBefore(swept, Choice, j)
  <2> SUFFICES ASSUME NEW j \in Ready(swept), j = job \/ j \notin queue
               PROVE  TakenBefore(swept, Choice', j) = TakenBefore(swept, Choice, j)
    OBVIOUS
  <2>1. \A i \in Ready(swept) : Ahead(swept, i, j) => i # job
    BY AheadPassed
  <2>2. \A i \in Ready(swept) : Ahead(swept, i, j) => Choice'[i] = Choice[i]
    BY <1>10, <2>1
  <2> QED BY <2>2 DEF TakenBefore
<1>14. Chosen'
  <2> SUFFICES ASSUME NEW j \in Ready(swept) \ queue'
               PROVE  findAssignment(Choice'[j], Sought(Choice', j))
    BY <1>1, <1>2 DEF Chosen
  <2>1. j = job \/ j \notin queue
    OBVIOUS
  <2>2. Sought(Choice', j) = Sought(Choice, j)
    BY <1>13, <2>1 DEF Sought
  <2>3. CASE j = job
    <3>1. Sought(Choice, job) = Eligible(swept[job].input.kind, online, metrics, busy)
      BY BusyIsTaken DEF Sought
    <3> QED BY <1>10, <2>2, <2>3, <3>1
  <2>4. CASE j # job
    BY <1>10, <2>1, <2>2, <2>4 DEF Walk, Chosen
  <2> QED BY <2>3, <2>4
<1>15. Forced'
  <2> SUFFICES ASSUME NEW asg \in Possible, NEW j \in Ready(swept) \ queue'
               PROVE  asg[j] = Choice'[j]
    BY <1>1, <1>2 DEF Forced
  <2>1. CASE j = job
    BY <1>10, <2>1, FrontForced
  <2>2. CASE j # job
    BY <1>10, <2>2 DEF Walk, Forced
  <2> QED BY <2>1, <2>2
<1> QED BY <1>9, <1>11, <1>12, <1>14, <1>15 DEF Walk

------------------------------------------------------------------------------
(* The steps of the loop.                                                  *)

LEMMA InitLoopInv == LoopInit => LoopInv
<1> SUFFICES ASSUME LoopInit PROVE LoopInv
  OBVIOUS
<1>1. GivenOK
  BY LoopAssumption DEF LoopInit, GivenOK, WellFormed, Exclusive
<1>2. ASSUME NEW j \in DOMAIN jobs
      PROVE  tbl[j] = IF j \in running THEN jobs[j] ELSE swept[j]
  BY <1>1, <1>2, SweptRows DEF LoopInit, Stale
<1>3. WellFormed(tbl)
  BY <1>1 DEF LoopInit, GivenOK
<1> QED BY <1>1, <1>2, <1>3 DEF LoopInv, LoopInit

LEMMA SweepInv ==
  ASSUME LoopInv, Sweep, UNCHANGED given
  PROVE  LoopInv'
<1>1. GivenOK /\ GivenOK' /\ swept' = swept /\ jobs' = jobs
  BY SameGiven DEF LoopInv, given
<1>2. /\ DOMAIN tbl = DOMAIN jobs
      /\ \A j \in DOMAIN jobs : tbl[j] = IF j \in running THEN jobs[j] ELSE swept[j]
  BY DEF LoopInv, Sweep
<1>3. ASSUME NEW j \in running, running' = running \ {j}, UNCHANGED phase,
             tbl' = IF Stale(jobs[j], online) THEN [tbl EXCEPT ![j].status = "FAILED"] ELSE tbl
      PROVE  LoopInv'
  <2>1. DOMAIN tbl' = DOMAIN jobs
    BY <1>2, <1>3
  <2>2. ASSUME NEW i \in DOMAIN jobs
        PROVE  tbl'[i] = IF i \in running' THEN jobs[i] ELSE swept[i]
    <3>1. CASE i = j
      BY <1>1, <1>2, <1>3, <3>1, SweptRows
    <3>2. CASE i # j
      BY <1>2, <1>3, <3>2
    <3> QED BY <3>1, <3>2
  <2>3. phase' = "sweep"
    BY <1>3 DEF Sweep
  <2>4. WellFormed(tbl)'
    <3>1. \A i \in DOMAIN tbl : tbl[i] \in JobRow /\ [tbl[i] EXCEPT !.status = "FAILED"] \in JobRow
      <4> SUFFICES ASSUME NEW i \in DOMAIN tbl
                   PROVE  tbl[i] \in JobRow /\ [tbl[i] EXCEPT !.status = "FAILED"] \in JobRow
        OBVIOUS
      <4>1. tbl[i] \in JobRow
        BY DEF LoopInv, WellFormed
      <4> QED BY <4>1 DEF JobRow, Statuses
    <3> QED BY <1>3, <3>1 DEF LoopInv, WellFormed
  <2> QED BY <1>1, <2>1, <2>2, <2>3, <2>4 DEF LoopInv
<1>4. CASE running = {} /\ phase' = "select" /\ UNCHANGED <<running, tbl>>
  <2>1. tbl = swept
    <3>1. DOMAIN swept = DOMAIN jobs /\ \A j \in DOMAIN jobs : tbl[j] = swept[j]
      BY <1>1, <1>2, <1>4, SweptRows
    <3>2. WellFormed(swept) /\ WellFormed(tbl)
      BY <1>1, SweptRows DEF LoopInv
    <3> QED BY <1>2, <3>1, <3>2 DEF WellFormed
  <2> QED BY <1>1, <1>4, <2>1 DEF LoopInv, WellFormed
<1> QED BY <1>3, <1>4 DEF Sweep

\* Nothing is passed yet.
LEMMA SelectInv ==
  ASSUME LoopInv, Select, UNCHANGED given
  PROVE  LoopInv'
<1>1. GivenOK /\ GivenOK' /\ swept' = swept /\ tbl = swept /\ tbl' = swept
  BY SameGiven DEF LoopInv, Select
<1>2. Ready(swept)' = Ready(swept)
  BY <1>1 DEF Ready, isDependencySatisfied
<1>3. Ready(swept) \subseteq queue' /\ queue' = {j \in DOMAIN swept : swept[j].status = "QUEUED"}
  BY <1>1 DEF Select, Ready
<1>4. Rows' /\ Queue'
  BY <1>1, <1>3 DEF Rows, Queue
<1>5. Booked'
  BY <1>1, SweptRows DEF Booked, Select, BusyUnits, Exclusive
<1>6. Chosen' /\ Forced'
  BY <1>1, <1>2, <1>3 DEF Chosen, Forced
<1>7. phase' = "jobs" /\ WellFormed(tbl)'
  BY DEF Select, LoopInv, WellFormed
<1> QED BY <1>1, <1>4, <1>5, <1>6, <1>7 DEF LoopInv, Walk

\* A queue that loses a job that was not ready.
LEMMA Skipped ==
  ASSUME GivenOK, Walk, NEW job \in queue, Front(job), job \notin Ready(swept),
         UNCHANGED <<given, tbl, busy>>, queue' = queue \ {job}
  PROVE  Walk'
<1>1. /\ GivenOK' /\ swept' = swept /\ Possible' = Possible
      /\ \A asg, j : Sought(asg, j)' = Sought(asg, j)
  BY SameGiven
<1>2. Ready(swept)' = Ready(swept) /\ Ready(swept) \ queue' = Ready(swept) \ queue
  BY <1>1 DEF Ready, isDependencySatisfied
<1>3. Choice' = Choice
  BY <1>2 DEF Choice
<1>4. Rows'
  BY <1>1, <1>2 DEF Walk, Rows
<1>5. Queue'
  <2>1. queue' \subseteq queue
    OBVIOUS
  <2>2. \A j \in queue' : Ahead(swept, job, j)
    BY SameOrder DEF Front
  <2> QED BY <1>1, <2>1, <2>2 DEF Walk, Queue, Ahead
<1>6. Booked'
  BY DEF Walk, Booked, BusyUnits, Exclusive
<1>7. Chosen'
  BY <1>1, <1>2, <1>3 DEF Walk, Chosen
<1>8. Forced'
  BY <1>1, <1>2, <1>3 DEF Walk, Forced
<1> QED BY <1>4, <1>5, <1>6, <1>7, <1>8 DEF Walk

LEMMA SameWalk ==
  ASSUME GivenOK, Walk, UNCHANGED <<given, tbl, busy, queue>>
  PROVE  Walk' /\ \A job : Front(job)' <=> Front(job)
<1>1. /\ GivenOK' /\ swept' = swept /\ Possible' = Possible
      /\ \A asg, j : Sought(asg, j)' = Sought(asg, j)
  BY SameGiven
<1>2. Ready(swept)' = Ready(swept)
  BY <1>1 DEF Ready, isDependencySatisfied
<1>3. Choice' = Choice
  BY <1>2 DEF Choice
<1>4. Rows' /\ Queue' /\ Booked'
  <2>1. Rows'
    BY <1>1, <1>2 DEF Walk, Rows
  <2>2. Queue'
    BY <1>1 DEF Walk, Queue, Ahead
  <2>3. Booked'
    BY DEF Walk, Booked, BusyUnits, Exclusive
  <2> QED BY <2>1, <2>2, <2>3
<1>5. Chosen' /\ Forced'
  BY <1>1, <1>2, <1>3 DEF Walk, Chosen, Forced
<1> QED BY <1>4, <1>5 DEF Walk, Front, Ahead

LEMMA NextJobInv ==
  ASSUME LoopInv, NextJob, UNCHANGED given
  PROVE  LoopInv'
<1>1. /\ GivenOK /\ GivenOK' /\ swept' = swept /\ Walk /\ UNCHANGED <<tbl, running, busy>>
      /\ WellFormed(tbl)'
  BY SameGiven DEF LoopInv, NextJob, WellFormed
<1>2. CASE queue = {} /\ phase' = "done" /\ UNCHANGED <<queue, workers>>
  BY <1>1, <1>2, SameWalk DEF LoopInv
<1>3. ASSUME NEW job \in queue, Front(job), isDependencySatisfied(tbl, job),
             phase' = "workers", workers' = Workers, UNCHANGED queue
      PROVE  LoopInv'
  <2>1. Walk' /\ \A j : Front(j)' <=> Front(j)
    BY <1>1, <1>3, SameWalk
  <2>2. job \in Ready(swept)
    BY <1>1, <1>3, SameOrder DEF Ready
  <2>3. \A j \in queue : Front(j) => j = job
    <3> SUFFICES ASSUME NEW j \in queue, Front(j), j # job PROVE FALSE
      OBVIOUS
    <3>1. j \in DOMAIN swept /\ job \in DOMAIN swept /\ Ahead(swept, job, j) /\ Ahead(swept, j, job)
      BY <1>1, <1>3, SameOrder DEF Front
    <3> QED BY <1>1, <3>1, SweptRows, AheadOrder
  <2>4. Ready(swept)' = Ready(swept)
    BY <1>1 DEF Ready, isDependencySatisfied
  <2>5. \A kind : \A u \in Eligible(kind, online, metrics, busy)' : u.worker \in Workers
    BY DEF Eligible, Units
  <2>6. Search'
    BY <1>1, <1>3, <2>1, <2>2, <2>3, <2>4, <2>5 DEF Search
  <2> QED BY <1>1, <1>3, <2>1, <2>6 DEF LoopInv
<1>4. ASSUME NEW job \in queue, Front(job), ~ isDependencySatisfied(tbl, job),
             queue' = queue \ {job}, UNCHANGED <<phase, workers>>
      PROVE  LoopInv'
  <2>1. job \notin Ready(swept)
    BY <1>1, <1>4, SameOrder DEF Ready
  <2>2. Walk'
    BY <1>1, <1>4, <2>1, Skipped
  <2>3. phase' = "jobs"
    BY <1>4 DEF NextJob
  <2> QED BY <1>1, <2>2, <2>3 DEF LoopInv
<1> QED BY <1>2, <1>3, <1>4 DEF NextJob

\* A worker's free units are the eligible ones that are its own.
LEMMA FreeEligible ==
  ASSUME GivenOK, NEW w \in Workers, NEW kind
  PROVE  /\ Usable(w, kind) =>
              FreeUnits(w) = {u \in Eligible(kind, online, metrics, busy) : u.worker = w}
         /\ ~ Usable(w, kind) =>
              {u \in Eligible(kind, online, metrics, busy) : u.worker = w} = {}
BY DEF Usable, FreeUnits, Eligible, workerUnits, Units

LEMMA TryWorkerInv ==
  ASSUME LoopInv, TryWorker, UNCHANGED given
  PROVE  LoopInv'
<1>1. /\ GivenOK /\ GivenOK' /\ swept' = swept /\ Walk /\ Search /\ UNCHANGED running
      /\ phase = "workers"
  BY SameGiven DEF LoopInv, TryWorker
<1>2. PICK job \in queue : /\ Front(job)
                           /\ GoWithout(job) \/ \E w \in workers : Try(job, w)
  BY DEF TryWorker
<1> DEFINE kind == swept[job].input.kind
           eligible == Eligible(kind, online, metrics, busy)
<1>3. /\ job \in Ready(swept) /\ tbl[job].input.kind = kind
      /\ \A u \in eligible : u.worker \in workers
      /\ workers \subseteq Workers /\ eligible \in SUBSET Units
  BY <1>1, <1>2, SameOrder DEF Search, Eligible
<1>4. CASE GoWithout(job)
  <2>1. findAssignment(NoUnit, eligible)
    BY <1>3, <1>4 DEF GoWithout, findAssignment
  <2>2. Walk'
    BY <1>1, <1>2, <1>3, <1>4, <2>1, Decided DEF GoWithout
  <2> QED BY <1>1, <1>4, <2>2 DEF GoWithout, LoopInv, WellFormed
<1>5. ASSUME NEW w \in workers, Try(job, w) PROVE LoopInv'
  <2>1. /\ w \in Workers /\ w \in Nat /\ \A v \in workers : w <= v /\ v \in Nat
        /\ (Usable(w, kind) => FreeUnits(w) = {u \in eligible : u.worker = w})
        /\ (~ Usable(w, kind) => {u \in eligible : u.worker = w} = {})
    BY <1>1, <1>3, <1>5, FreeEligible, EngineAssumption DEF Try
  <2>2. ASSUME Usable(w, kind), NEW unit \in FreeUnits(w), \A u \in FreeUnits(w) : NotAfter(unit, u),
               Take(job, unit)
        PROVE  LoopInv'
    <3>1. unit \in eligible /\ unit \in Units /\ unit.worker = w
      BY <1>3, <2>1, <2>2
    <3>2. ASSUME NEW u \in eligible PROVE NotAfter(unit, u)
      <4>1. CASE u.worker = w
        BY <2>1, <2>2, <4>1
      <4>2. CASE u.worker # w
        BY <1>3, <2>1, <3>1, <4>2 DEF NotAfter
      <4> QED BY <4>1, <4>2
    <3>3. findAssignment(unit, eligible)
      BY <3>1, <3>2 DEF findAssignment
    <3> HIDE DEF eligible, kind
    <3>4. Walk'
      BY <1>1, <1>2, <1>3, <2>2, <3>1, <3>3, Decided DEF Take, eligible, kind
    <3>5. WellFormed(tbl)'
      <4>1. tbl[job] \in JobRow
        BY <1>1, <1>2, SameOrder DEF LoopInv, WellFormed, Walk, Rows
      <4>2. [tbl[job] EXCEPT !.status = "ASSIGNED", !.unit = unit] \in JobRow
        BY <3>1, <4>1 DEF JobRow, Statuses
      <4> QED BY <2>2, <4>2 DEF LoopInv, WellFormed, Take
    <3> QED BY <1>1, <2>2, <3>4, <3>5 DEF Take, LoopInv
  <2>3. ASSUME {u \in eligible : u.worker = w} = {},
               workers' = workers \ {w}, UNCHANGED <<tbl, busy, queue, phase>>
        PROVE  LoopInv'
    <3>1. Walk' /\ \A j : Front(j)' <=> Front(j)
      BY <1>1, <2>3, SameWalk
    <3>2. \A j \in queue : Front(j) => j = job
      <4> SUFFICES ASSUME NEW j \in queue, Front(j), j # job PROVE FALSE
        OBVIOUS
      <4>1. j \in DOMAIN swept /\ job \in DOMAIN swept /\ Ahead(swept, job, j) /\ Ahead(swept, j, job)
        BY <1>1, <1>2, SameOrder DEF Front
      <4> QED BY <1>1, <4>1, SweptRows, AheadOrder
    <3>3. Ready(swept)' = Ready(swept)
      BY <1>1 DEF Ready, isDependencySatisfied
    <3>4. Eligible(kind, online, metrics, busy)' = eligible
      BY <1>1, <2>3, SameEligible DEF given
    <3>5. \A u \in eligible : u.worker \in workers'
      BY <1>3, <2>3
    <3>6. Search'
      BY <1>1, <1>3, <2>3, <3>1, <3>2, <3>3, <3>4, <3>5 DEF Search
    <3> QED BY <1>1, <2>3, <3>1, <3>6 DEF LoopInv, WellFormed
  <2> QED BY <1>3, <1>5, <2>1, <2>2, <2>3 DEF Try
<1> QED BY <1>2, <1>4, <1>5

LEMMA NextLoopInv == LoopInv /\ [LoopNext]_<<given, loop>> => LoopInv'
<1> SUFFICES ASSUME LoopInv, [LoopNext]_<<given, loop>> PROVE LoopInv'
  OBVIOUS
<1>1. CASE UNCHANGED <<given, loop>>
  <2>1. GivenOK /\ GivenOK' /\ swept' = swept /\ UNCHANGED <<tbl, running, queue, workers, busy, phase>>
    BY <1>1, SameGiven DEF LoopInv, loop
  <2>2. WellFormed(tbl)'
    BY <2>1 DEF LoopInv, WellFormed
  <2>3. Walk => Walk' /\ \A j : Front(j)' <=> Front(j)
    BY <1>1, <2>1, SameWalk
  <2>4. Walk /\ Search => Search'
    <3>1. Ready(swept)' = Ready(swept)
      BY <2>1 DEF Ready, isDependencySatisfied
    <3>2. \A kind : Eligible(kind, online, metrics, busy)' = Eligible(kind, online, metrics, busy)
      BY <1>1, <2>1, SameEligible DEF given
    <3> QED BY <2>1, <2>3, <3>1, <3>2 DEF Search
  <2>5. jobs' = jobs
    BY <1>1 DEF given
  <2> QED BY <2>1, <2>2, <2>3, <2>4, <2>5 DEF LoopInv
<1>2. CASE Return /\ UNCHANGED given
  <2>1. GivenOK /\ GivenOK' /\ UNCHANGED <<tbl, running, queue, workers, busy, phase>>
    BY <1>2, SameGiven DEF LoopInv, Return, loop
  <2>2. Walk'
    BY <1>2, <2>1, SameWalk DEF LoopInv, Return
  <2> QED BY <1>2, <2>1, <2>2 DEF LoopInv, Return, WellFormed
<1> QED BY <1>1, <1>2, SweepInv, SelectInv, NextJobInv, TryWorkerInv DEF LoopNext

\* What the loop has chosen when it is done is the one assignment there is.
LEMMA DoneMatches ==
  ASSUME LoopInv, phase = "done"
  PROVE  runScheduler(jobs, online, metrics) = {tbl}
<1>1. Walk /\ GivenOK /\ WellFormed(tbl) /\ queue = {} /\ WellFormed(swept)
  BY SweptRows DEF LoopInv
<1>2. Choice \in Possible
  <2>1. Choice \in [Ready(swept) -> Units \cup {NoUnit}]
    <3>1. \A j \in Ready(swept) : tbl[j].status = "ASSIGNED" => tbl[j].unit \in Units
      BY <1>1 DEF Walk, Rows, Ready
    <3> QED BY <3>1 DEF Choice
  <2>2. \A j \in Ready(swept) : findAssignment(Choice[j], Sought(Choice, j))
    BY <1>1 DEF Walk, Chosen
  <2> QED BY <2>1, <2>2 DEF Possible, Assignments, Sought
<1>3. ASSUME NEW asg \in Possible PROVE asg = Choice
  <2>1. asg \in [Ready(swept) -> Units \cup {NoUnit}]
    BY DEF Possible, Assignments
  <2>2. \A j \in Ready(swept) : asg[j] = Choice[j]
    BY <1>1 DEF Walk, Forced
  <2> QED BY <2>1, <2>2 DEF Choice
<1>4. Assign(swept, Choice) = tbl
  <2>1. DOMAIN tbl = DOMAIN swept
    BY <1>1 DEF Walk, Rows
  <2>2. ASSUME NEW j \in DOMAIN swept
        PROVE  tbl[j] = IF j \in Ready(swept) /\ Choice[j] # NoUnit
                        THEN [swept[j] EXCEPT !.status = "ASSIGNED", !.unit = Choice[j]]
                        ELSE swept[j]
    <3>1. CASE tbl[j] = swept[j]
      BY <3>1 DEF Choice, Ready
    <3>2. CASE /\ j \in Ready(swept)
               /\ tbl[j].status = "ASSIGNED" /\ tbl[j].unit \in Units
               /\ tbl[j] = [swept[j] EXCEPT !.status = "ASSIGNED", !.unit = tbl[j].unit]
      <4>1. Choice[j] = tbl[j].unit /\ Choice[j] # NoUnit
        BY <3>2, EngineAssumption DEF Choice
      <4> QED BY <3>2, <4>1
    <3> QED BY <1>1, <3>1, <3>2 DEF Walk, Rows
  <2> QED BY <1>1, <2>1, <2>2 DEF Assign, WellFormed
<1>5. runScheduler(jobs, online, metrics) = {Assign(swept, asg) : asg \in Possible}
  BY DEF runScheduler, swept, Possible
<1> QED BY <1>2, <1>3, <1>4, <1>5

\* The loop is right at its end, and safe to lose at every step before: it leaves
\* the one table that runScheduler allows, and no unit is ever booked twice.
THEOREM LoopRight == LoopSpec => []LoopSound
<1>1. LoopInv => LoopSound
  <2>1. LoopInv => LoopMatches
    BY DoneMatches DEF LoopMatches
  <2>2. LoopInv => LoopNeverDoubleBooks
    BY DEF LoopInv, Walk, Booked, Exclusive, LoopNeverDoubleBooks
  <2> QED BY <2>1, <2>2 DEF LoopSound
<1> QED BY <1>1, InitLoopInv, NextLoopInv, PTL DEF LoopSpec
=============================================================================
