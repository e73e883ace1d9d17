--------------------------- MODULE JobEngineProofs ---------------------------
(***************************************************************************)
(* Proofs about JobEngine, for any workers, GPUs, reports, inputs, keys    *)
(* and bounds.                                                             *)
(*                                                                         *)
(* A handler edits the jobs table in stages (insert or re-queue a row,     *)
(* refresh leases, sweep, assign, hand out).  The table part of the        *)
(* inductive invariant is therefore stated for an arbitrary table, and     *)
(* each stage is shown to preserve it; an action then composes its stages. *)
(***************************************************************************)
EXTENDS JobEngine, TLAPS

\* A well-formed jobs table.
Table(tbl) ==
  /\ DOMAIN tbl \subseteq JobIds
  /\ tbl \in [DOMAIN tbl -> JobRow]

\* SlotExclusive, of any table.
Slots(tbl) ==
  /\ \A j \in DOMAIN tbl : tbl[j].status \in Busy => tbl[j].unit # NoUnit
  /\ \A i, j \in DOMAIN tbl :
       tbl[i].status \in Busy /\ tbl[j].status \in Busy /\ tbl[i].unit = tbl[j].unit
         => i = j

\* DependencyHonoured, of any table.
Deps(tbl) ==
  \A j \in DOMAIN tbl :
    LET d == tbl[j].input.depends_on
    IN  d # NoJob =>
          /\ d \in DOMAIN tbl
          /\ d < j
          /\ tbl[j].status \in Busy \cup Settled => tbl[d].status = "COMPLETED"

Good(tbl) == Table(tbl) /\ Slots(tbl) /\ Deps(tbl)

\* What a stage that only moves jobs forward leaves alone: which jobs there
\* are, their inputs, and the status of those that have ended.
Follows(tbl, new) ==
  /\ DOMAIN new = DOMAIN tbl
  /\ \A j \in DOMAIN tbl :
       /\ new[j].input = tbl[j].input
       /\ tbl[j].status \in TERMINAL_STATUSES => new[j].status = tbl[j].status

Fleet(on, met) ==
  /\ on \in [Workers -> BOOLEAN]
  /\ met \in [Workers -> Reports \cup {NoReport}]

------------------------------------------------------------------------------
(* The stages of a handler.                                                *)

\* Failing stale rows keeps a table good: a row only leaves the busy ones.
LEMMA SweepGood ==
  ASSUME NEW tbl, NEW on, Good(tbl)
  PROVE  /\ Good(failStaleRunningJobs(tbl, on))
         /\ Follows(tbl, failStaleRunningJobs(tbl, on))
<1> DEFINE new == failStaleRunningJobs(tbl, on)
<1>1. /\ DOMAIN new = DOMAIN tbl
      /\ \A j \in DOMAIN tbl :
           \/ new[j] = tbl[j]
           \/ tbl[j].status = "RUNNING" /\ new[j] = [tbl[j] EXCEPT !.status = "FAILED"]
  BY DEF failStaleRunningJobs, Stale
<1>2. \A j \in DOMAIN tbl :
        /\ new[j] \in JobRow
        /\ new[j].input = tbl[j].input
        /\ new[j].unit = tbl[j].unit
        /\ new[j].status = tbl[j].status \/ (tbl[j].status = "RUNNING" /\ new[j].status = "FAILED")
  BY <1>1 DEF Good, Table, JobRow, Statuses
<1>3. Table(new)
  <2>1. new = [j \in DOMAIN tbl |-> new[j]]
    BY DEF failStaleRunningJobs
  <2> QED BY <1>1, <1>2, <2>1 DEF Good, Table
<1>4. Slots(new)
  BY <1>1, <1>2 DEF Good, Slots, Busy
<1>5. Deps(new)
  BY <1>1, <1>2 DEF Good, Deps, Busy, Settled
<1>6. Follows(tbl, new)
  BY <1>1, <1>2 DEF Follows, TERMINAL_STATUSES
<1> QED BY <1>3, <1>4, <1>5, <1>6 DEF Good

\* The queue's order is total, so no two ready jobs get the same unit: the
\* one behind sees the other's unit as taken.
LEMMA AssignGood ==
  ASSUME NEW tbl, Good(tbl), NEW on, NEW met, Fleet(on, met),
         NEW asg \in Assignments(tbl, on, met)
  PROVE  /\ Good(Assign(tbl, asg))
         /\ Follows(tbl, Assign(tbl, asg))
<1> DEFINE new == Assign(tbl, asg)
           Given(j) == j \in Ready(tbl) /\ asg[j] # NoUnit
<1>1. /\ DOMAIN new = DOMAIN tbl
      /\ \A j \in DOMAIN tbl :
           new[j] = IF Given(j) THEN [tbl[j] EXCEPT !.status = "ASSIGNED", !.unit = asg[j]]
                                ELSE tbl[j]
  BY DEF Assign
<1>2. asg \in [Ready(tbl) -> Units \cup {NoUnit}]
  BY DEF Assignments
<1>3. \A j \in DOMAIN tbl : Given(j) =>
        /\ asg[j] \in Units
        /\ asg[j] \notin TakenBefore(tbl, asg, j)
        /\ tbl[j].status = "QUEUED"
        /\ isDependencySatisfied(tbl, j)
  <2> SUFFICES ASSUME NEW j \in DOMAIN tbl, Given(j)
               PROVE  /\ asg[j] \in Units
                      /\ asg[j] \notin TakenBefore(tbl, asg, j)
                      /\ tbl[j].status = "QUEUED"
                      /\ isDependencySatisfied(tbl, j)
    OBVIOUS
  <2>1. findAssignment(asg[j], Eligible(tbl[j].input.kind, on, met, TakenBefore(tbl, asg, j)))
    BY DEF Assignments
  <2>2. asg[j] \in Eligible(tbl[j].input.kind, on, met, TakenBefore(tbl, asg, j))
    BY <2>1 DEF findAssignment
  <2> QED BY <2>2 DEF Eligible, Ready
<1>4. \A j \in DOMAIN tbl :
        /\ new[j] \in JobRow
        /\ new[j].input = tbl[j].input
        /\ Given(j) => new[j].status = "ASSIGNED" /\ new[j].unit = asg[j]
        /\ ~Given(j) => new[j] = tbl[j]
  <2> SUFFICES ASSUME NEW j \in DOMAIN tbl
               PROVE  /\ new[j] \in JobRow
                      /\ new[j].input = tbl[j].input
                      /\ Given(j) => new[j].status = "ASSIGNED" /\ new[j].unit = asg[j]
                      /\ ~Given(j) => new[j] = tbl[j]
    OBVIOUS
  <2>1. tbl[j] \in JobRow
    BY DEF Good, Table
  <2>2. CASE Given(j)
    <3>1. new[j] = [tbl[j] EXCEPT !.status = "ASSIGNED", !.unit = asg[j]]
      BY <1>1, <2>2
    <3>2. asg[j] \in Units
      BY <1>3, <2>2
    <3> HIDE DEF new, Given
    <3> QED
      BY <2>1, <2>2, <3>1, <3>2 DEF JobRow, Statuses
  <2>3. CASE ~Given(j)
    <3>1. new[j] = tbl[j]
      BY <1>1, <2>3
    <3> HIDE DEF new, Given
    <3> QED
      BY <2>1, <2>3, <3>1
  <2> QED
    BY <2>2, <2>3
<1>5. Table(new)
  <2>1. new = [j \in DOMAIN tbl |-> new[j]]
    BY DEF Assign
  <2> QED BY <1>1, <1>4, <2>1 DEF Good, Table
<1>6. \A i, j \in DOMAIN tbl : Given(i) /\ Given(j) /\ asg[i] = asg[j] => i = j
  <2> SUFFICES ASSUME NEW i \in DOMAIN tbl, NEW j \in DOMAIN tbl,
                      Given(i), Given(j), asg[i] = asg[j], i # j
               PROVE  FALSE
    OBVIOUS
  <2>1. /\ i \in Int /\ j \in Int
        /\ tbl[i].input.priority \in Int /\ tbl[j].input.priority \in Int
    BY EngineAssumption DEF Good, Table, JobRow, InputType, JobIds
  <2>2. Ahead(tbl, i, j) \/ Ahead(tbl, j, i)
    BY <2>1 DEF Ahead
  <2>3. ASSUME Ahead(tbl, i, j) PROVE FALSE
    BY <1>3, <2>3 DEF TakenBefore
  <2>4. ASSUME Ahead(tbl, j, i) PROVE FALSE
    BY <1>3, <2>4 DEF TakenBefore
  <2> QED BY <2>2, <2>3, <2>4
<1>7. \A i, j \in DOMAIN tbl : Given(j) /\ tbl[i].status \in Busy => tbl[i].unit # asg[j]
  BY <1>3 DEF TakenBefore, BusyUnits
<1>8. Slots(new)
  <2>1. \A j \in DOMAIN tbl : new[j].status \in Busy => new[j].unit # NoUnit
    BY <1>4 DEF Good, Slots
  <2>2. ASSUME NEW i \in DOMAIN tbl, NEW j \in DOMAIN tbl, new[i].status \in Busy,
               new[j].status \in Busy, new[i].unit = new[j].unit
        PROVE  i = j
    <3>1. CASE Given(i) /\ Given(j)
      BY <1>4, <1>6, <2>2, <3>1
    <3>2. CASE Given(i) /\ ~Given(j)
      BY <1>4, <1>7, <2>2, <3>2
    <3>3. CASE ~Given(i) /\ Given(j)
      BY <1>4, <1>7, <2>2, <3>3
    <3>4. CASE ~Given(i) /\ ~Given(j)
      BY <1>4, <2>2, <3>4 DEF Good, Slots
    <3> QED BY <3>1, <3>2, <3>3, <3>4
  <2> QED BY <1>1, <2>1, <2>2 DEF Slots
<1>9. Deps(new)
  <2> SUFFICES ASSUME NEW j \in DOMAIN tbl, tbl[j].input.depends_on # NoJob
               PROVE  LET d == tbl[j].input.depends_on
                      IN  /\ d \in DOMAIN tbl
                          /\ d < j
                          /\ new[j].status \in Busy \cup Settled => new[d].status = "COMPLETED"
    <3>1. DOMAIN new = DOMAIN tbl /\ \A j \in DOMAIN tbl : new[j].input = tbl[j].input
      BY <1>1, <1>4
    <3> HIDE DEF new, Given
    <3> QED
      BY <3>1 DEF Deps
  <2> DEFINE d == tbl[j].input.depends_on
  <2>1. /\ d \in DOMAIN tbl
        /\ d < j
        /\ tbl[j].status \in Busy \cup Settled => tbl[d].status = "COMPLETED"
    BY DEF Good, Deps
  <2>2. tbl[d].status = "COMPLETED" => new[d].status = "COMPLETED"
    BY <1>3, <1>4, <2>1
  <2>3. Given(j) => tbl[d].status = "COMPLETED"
    BY <1>3 DEF isDependencySatisfied
  <2> QED BY <1>4, <2>1, <2>2, <2>3
<1>10. Follows(tbl, new)
  BY <1>1, <1>3, <1>4 DEF Follows, TERMINAL_STATUSES
<1> QED BY <1>5, <1>8, <1>9, <1>10 DEF Good

\* A run of the scheduler keeps a table good.
LEMMA SchedulerGood ==
  ASSUME NEW tbl, Good(tbl), NEW on, NEW met, Fleet(on, met),
         NEW new \in runScheduler(tbl, on, met)
  PROVE  Good(new) /\ Follows(tbl, new)
<1> DEFINE swept == failStaleRunningJobs(tbl, on)
<1>1. PICK asg \in Assignments(swept, on, met) : new = Assign(swept, asg)
  BY DEF runScheduler
<1>2. Good(swept) /\ Follows(tbl, swept)
  BY SweepGood
<1>3. Good(new) /\ Follows(swept, new)
  BY <1>1, <1>2, AssignGood
<1> QED BY <1>2, <1>3 DEF Follows

\* Refreshing leases changes nothing else.
LEMMA ProgressGood ==
  ASSUME NEW w, NEW running, Good(jobs)
  PROVE  Good(Progressed(w, running)) /\ Follows(jobs, Progressed(w, running))
<1> DEFINE new == Progressed(w, running)
<1>1. /\ DOMAIN new = DOMAIN jobs
      /\ \A j \in DOMAIN jobs :
           new[j] = jobs[j] \/ new[j] = [jobs[j] EXCEPT !.leased = TRUE]
  BY DEF Progressed
<1>2. \A j \in DOMAIN jobs :
        /\ new[j] \in JobRow
        /\ new[j].input = jobs[j].input
        /\ new[j].unit = jobs[j].unit
        /\ new[j].status = jobs[j].status
  <2> SUFFICES ASSUME NEW j \in DOMAIN jobs
               PROVE  /\ new[j] \in JobRow
                      /\ new[j].input = jobs[j].input
                      /\ new[j].unit = jobs[j].unit
                      /\ new[j].status = jobs[j].status
    OBVIOUS
  <2>1. jobs[j] \in JobRow
    BY DEF Good, Table
  <2>2. new[j] = jobs[j] \/ new[j] = [jobs[j] EXCEPT !.leased = TRUE]
    BY <1>1
  <2> HIDE DEF new
  <2> QED
    BY <2>1, <2>2 DEF JobRow
<1>3. Table(new)
  <2>1. new = [j \in DOMAIN jobs |-> new[j]]
    BY DEF Progressed
  <2> QED BY <1>1, <1>2, <2>1 DEF Good, Table
<1> QED BY <1>1, <1>2, <1>3 DEF Good, Slots, Deps, Follows

\* Handing out assigned jobs keeps their units.
LEMMA StartGood ==
  ASSUME NEW tbl, Good(tbl), NEW ids,
         \A j \in ids : j \in DOMAIN tbl /\ tbl[j].status = "ASSIGNED"
  PROVE  Good(startJobs(tbl, ids)) /\ Follows(tbl, startJobs(tbl, ids))
<1> DEFINE new == startJobs(tbl, ids)
<1>1. /\ DOMAIN new = DOMAIN tbl
      /\ \A j \in DOMAIN tbl :
           \/ new[j] = tbl[j]
           \/ /\ tbl[j].status = "ASSIGNED"
              /\ new[j] = [tbl[j] EXCEPT !.status = "RUNNING", !.leased = TRUE]
  BY DEF startJobs
<1>2. \A j \in DOMAIN tbl :
        /\ new[j] \in JobRow
        /\ new[j].input = tbl[j].input
        /\ new[j].unit = tbl[j].unit
        /\ \/ new[j].status = tbl[j].status
           \/ tbl[j].status = "ASSIGNED" /\ new[j].status = "RUNNING"
  <2> SUFFICES ASSUME NEW j \in DOMAIN tbl
               PROVE  /\ new[j] \in JobRow
                      /\ new[j].input = tbl[j].input
                      /\ new[j].unit = tbl[j].unit
                      /\ \/ new[j].status = tbl[j].status
                         \/ tbl[j].status = "ASSIGNED" /\ new[j].status = "RUNNING"
    OBVIOUS
  <2>1. tbl[j] \in JobRow
    BY DEF Good, Table
  <2>2. CASE new[j] = tbl[j]
    BY <2>1, <2>2
  <2>3. CASE /\ tbl[j].status = "ASSIGNED"
             /\ new[j] = [tbl[j] EXCEPT !.status = "RUNNING", !.leased = TRUE]
    BY <2>1, <2>3 DEF JobRow, Statuses
  <2> QED BY <1>1, <2>2, <2>3
<1>3. Table(new)
  <2>1. new = [j \in DOMAIN tbl |-> new[j]]
    BY DEF startJobs
  <2> QED BY <1>1, <1>2, <2>1 DEF Good, Table
<1>4. DOMAIN new = DOMAIN tbl
  BY <1>1
<1> HIDE DEF new
<1>5. Slots(new)
  <2>1. \A j \in DOMAIN tbl : new[j].status \in Busy <=> tbl[j].status \in Busy
    BY <1>2 DEF Busy
  <2> QED BY <1>4, <1>2, <2>1 DEF Good, Slots
<1>6. Deps(new)
  <2>1. \A j \in DOMAIN tbl :
          /\ new[j].status \in Busy \cup Settled => tbl[j].status \in Busy \cup Settled
          /\ tbl[j].status = "COMPLETED" => new[j].status = "COMPLETED"
    BY <1>2 DEF Busy, Settled
  <2> QED BY <1>4, <1>2, <2>1 DEF Good, Deps
<1>7. Follows(tbl, new)
  BY <1>4, <1>2 DEF Follows, TERMINAL_STATUSES
<1> QED BY <1>3, <1>5, <1>6, <1>7 DEF Good, new

------------------------------------------------------------------------------
(* The inductive invariant: the checked invariants together.  SlotExclusive *)
(* needs the types, DependencyHonoured needs the foreign key (a dependency *)
(* is never deleted under a live row), and the cleanup and request records *)
(* need that ids are issued once.                                          *)

IInv ==
  /\ TypeOK
  /\ SlotExclusive
  /\ DependencyHonoured
  /\ ReleasedStaysSettled
  /\ OneJobPerKey

\* The part of IInv about the jobs table is Good(jobs).
LEMMA IInvGood == IInv => Good(jobs)
<1> SUFFICES ASSUME IInv PROVE Good(jobs)
  OBVIOUS
<1>1. Table(jobs)
  BY EngineAssumption DEF IInv, TypeOK, Table, JobIds
<1>2. Slots(jobs)
  BY DEF IInv, SlotExclusive, Slots
<1>3. Deps(jobs)
  BY DEF IInv, DependencyHonoured, Deps
<1> QED BY <1>1, <1>2, <1>3 DEF Good

\* A handler that only moves jobs forward keeps the cleanup and request records.
LEMMA ForwardKeepsIInv ==
  ASSUME IInv, Good(jobs'), Follows(jobs, jobs'),
         UNCHANGED <<nextId, cleanup, requests>>,
         Fleet(online', metrics'), jobs_enabled' \in [Workers -> BOOLEAN]
  PROVE  IInv'
<1>1. TypeOK'
  <2>1. /\ DOMAIN jobs' \subseteq 1..(nextId' - 1)
        /\ jobs' \in [DOMAIN jobs' -> JobRow]
    BY DEF IInv, TypeOK, Good, Table, Follows
  <2> QED BY <2>1 DEF IInv, TypeOK, Fleet
<1>2. SlotExclusive' /\ DependencyHonoured'
  BY DEF Good, Slots, Deps, SlotExclusive, DependencyHonoured
<1>3. ReleasedStaysSettled'
  BY DEF IInv, ReleasedStaysSettled, Follows, Settled, TERMINAL_STATUSES
<1>4. OneJobPerKey'
  BY DEF IInv, OneJobPerKey, Follows
<1> QED BY <1>1, <1>2, <1>3, <1>4 DEF IInv

\* A row inserted under a fresh id keeps the table good.
LEMMA NewRowGood ==
  ASSUME IInv, nextId \in JobIds, NEW input \in Inputs, Accepted(input)
  PROVE  Good([j \in DOMAIN jobs \cup {nextId} |->
                 IF j = nextId THEN NewJob(input) ELSE jobs[j]])
<1> DEFINE base == [j \in DOMAIN jobs \cup {nextId} |->
                      IF j = nextId THEN NewJob(input) ELSE jobs[j]]
<1>1. Good(jobs) /\ nextId \notin DOMAIN jobs
  BY IInvGood DEF IInv, TypeOK
<1>2. /\ DOMAIN base = DOMAIN jobs \cup {nextId}
      /\ base[nextId] = NewJob(input)
      /\ \A j \in DOMAIN jobs : base[j] = jobs[j]
  BY <1>1
<1>3. /\ NewJob(input) \in JobRow
      /\ NewJob(input).input = input
      /\ NewJob(input).status = "QUEUED"
  BY EngineAssumption DEF NewJob, JobRow, Statuses
<1>4. Table(base)
  BY <1>1, <1>2, <1>3 DEF Good, Table
<1> HIDE DEF base
<1>5. Slots(base)
  BY <1>1, <1>2, <1>3 DEF Good, Slots, Busy
<1>6. Deps(base)
  <2>1. input.depends_on # NoJob => input.depends_on \in DOMAIN jobs
    BY DEF Accepted
  <2>2. \A j \in DOMAIN jobs : j < nextId /\ j # nextId
    BY DEF IInv, TypeOK
  <2> QED BY <1>1, <1>2, <1>3, <2>1, <2>2 DEF Good, Deps, Busy, Settled
<1>7. Good(base)
  BY <1>4, <1>5, <1>6 DEF Good
<1> QED BY <1>7 DEF base

\* Creating a job adds its row and touches no ended one.
LEMMA InsertKeepsGood ==
  ASSUME IInv, NEW input \in Inputs, Accepted(input), InsertJob(input)
  PROVE  /\ Good(jobs')
         /\ DOMAIN jobs' = DOMAIN jobs \cup {nextId}
         /\ \A j \in DOMAIN jobs :
              /\ jobs'[j].input = jobs[j].input
              /\ jobs[j].status \in TERMINAL_STATUSES => jobs'[j].status = jobs[j].status
         /\ jobs'[nextId].input = input
<1> DEFINE base == [j \in DOMAIN jobs \cup {nextId} |->
                      IF j = nextId THEN NewJob(input) ELSE jobs[j]]
<1>1. nextId \in JobIds /\ nextId \notin DOMAIN jobs
  BY DEF IInv, TypeOK, InsertJob
<1>2. /\ DOMAIN base = DOMAIN jobs \cup {nextId}
      /\ base[nextId].input = input
      /\ \A j \in DOMAIN jobs : base[j] = jobs[j]
  BY <1>1 DEF NewJob
<1>3. Good(base) /\ Fleet(online, metrics)
  BY <1>1, NewRowGood DEF IInv, TypeOK, Fleet
<1> HIDE DEF base
<1>4. jobs' \in runScheduler(base, online, metrics)
  BY DEF InsertJob, base
<1>5. Good(jobs') /\ Follows(base, jobs')
  BY <1>3, <1>4, SchedulerGood
<1> QED BY <1>1, <1>2, <1>5 DEF Follows

\* The empty tables are good.
LEMMA InitIInv == Init => IInv
<1> SUFFICES ASSUME Init PROVE IInv
  OBVIOUS
<1>1. DOMAIN EmptyTable = {}
  BY DEF EmptyTable
<1>2. TypeOK
  BY <1>1, EngineAssumption DEF Init, TypeOK, EmptyTable
<1> QED BY <1>1, <1>2
        DEF Init, IInv, SlotExclusive, DependencyHonoured, ReleasedStaysSettled, OneJobPerKey

\* What creating a job does to everything but the request records.
LEMMA InsertKeepsRest ==
  ASSUME IInv, NEW input \in Inputs, Accepted(input), InsertJob(input),
         UNCHANGED <<cleanup, workerVars>>,
         DOMAIN requests' \subseteq Keys,
         requests' \in [DOMAIN requests' -> RequestRow]
  PROVE  TypeOK' /\ SlotExclusive' /\ DependencyHonoured' /\ ReleasedStaysSettled'
<1>1. /\ Good(jobs')
      /\ DOMAIN jobs' = DOMAIN jobs \cup {nextId}
      /\ \A j \in DOMAIN jobs :
           /\ jobs'[j].input = jobs[j].input
           /\ jobs[j].status \in TERMINAL_STATUSES => jobs'[j].status = jobs[j].status
  BY InsertKeepsGood
<1>2. nextId \in 1..MaxJobs /\ nextId' = nextId + 1
  BY DEF InsertJob, JobIds
<1>3. TypeOK'
  <2>1. DOMAIN jobs' \subseteq 1..(nextId' - 1)
    BY <1>1, <1>2 DEF IInv, TypeOK
  <2>2. jobs' \in [DOMAIN jobs' -> JobRow]
    BY <1>1 DEF Good, Table
  <2>3. nextId' \in 1..(MaxJobs + 1) /\ DOMAIN cleanup \subseteq 1..(nextId' - 1)
    BY <1>2, EngineAssumption DEF IInv, TypeOK
  <2> QED BY <2>1, <2>2, <2>3 DEF IInv, TypeOK, workerVars
<1>4. SlotExclusive' /\ DependencyHonoured'
  BY <1>1 DEF Good, Slots, Deps, SlotExclusive, DependencyHonoured
<1>5. ReleasedStaysSettled'
  <2>1. nextId \notin DOMAIN cleanup
    BY DEF IInv, TypeOK
  <2> QED BY <1>1, <2>1 DEF IInv, ReleasedStaysSettled, Settled, TERMINAL_STATUSES
<1> QED BY <1>3, <1>4, <1>5

\* The keys already used point below the id the next job gets.
LEMMA UsedIdsAreOld ==
  ASSUME IInv, NEW k \in DOMAIN requests
  PROVE  /\ requests[k].job < nextId
         /\ requests[k].job < nextId + 1
         /\ requests[k].job # nextId
<1>1. requests[k].job < nextId /\ requests[k].job \in 1..MaxJobs /\ nextId \in Int
  BY DEF IInv, OneJobPerKey, TypeOK, RequestRow, JobIds
<1> QED BY <1>1

\* POST /api/jobs without a key: the fresh row joins a good table.
LEMMA CreateJobIInv ==
  ASSUME IInv, NEW input \in Inputs, CreateJob(input)
  PROVE  IInv'
<1>1. InsertJob(input) /\ Accepted(input) /\ UNCHANGED <<cleanup, requests, workerVars>>
  BY DEF CreateJob
<1>2. TypeOK' /\ SlotExclusive' /\ DependencyHonoured' /\ ReleasedStaysSettled'
  BY <1>1, InsertKeepsRest DEF IInv, TypeOK
<1>3. OneJobPerKey'
  <2>1. nextId' = nextId + 1
    BY <1>1 DEF InsertJob
  <2> QED BY <1>1, <2>1, InsertKeepsGood, UsedIdsAreOld DEF IInv, OneJobPerKey
<1> QED BY <1>2, <1>3 DEF IInv

\* A new key gets the id being issued, which no earlier key can point to.
LEMMA CreateJobOnceIInv ==
  ASSUME IInv, NEW key \in Keys, NEW input \in Inputs, CreateJobOnce(key, input)
  PROVE  IInv'
<1>1. /\ InsertJob(input) /\ Accepted(input) /\ UNCHANGED <<cleanup, workerVars>>
      /\ key \notin DOMAIN requests
      /\ nextId \in JobIds /\ nextId' = nextId + 1
  BY DEF CreateJobOnce, InsertJob
<1>2. /\ DOMAIN requests' = DOMAIN requests \cup {key}
      /\ requests'[key] = [input |-> input, job |-> nextId]
      /\ \A k \in DOMAIN requests : requests'[k] = requests[k]
  BY <1>1 DEF CreateJobOnce
<1>3. requests' \in [DOMAIN requests' -> RequestRow]
  <2>1. \A k \in DOMAIN requests' : requests'[k] \in RequestRow
    BY <1>1, <1>2 DEF IInv, TypeOK, RequestRow
  <2>2. requests' = [k \in DOMAIN requests' |-> requests'[k]]
    BY DEF CreateJobOnce
  <2> QED BY <2>1, <2>2
<1>4. TypeOK' /\ SlotExclusive' /\ DependencyHonoured' /\ ReleasedStaysSettled'
  <2>1. DOMAIN requests' \subseteq Keys
    BY <1>2 DEF IInv, TypeOK
  <2> QED BY <1>1, <1>3, <2>1, InsertKeepsRest
<1>5. OneJobPerKey'
  <2>1. requests'[key].job = nextId /\ requests'[key].input = input
    BY <1>2
  <2>2. nextId < nextId'
    BY <1>1 DEF JobIds
  <2>3. jobs'[nextId].input = input /\ DOMAIN jobs' = DOMAIN jobs \cup {nextId}
    BY <1>1, InsertKeepsGood
  <2>4. \A j \in DOMAIN jobs : jobs'[j].input = jobs[j].input
    BY <1>1, InsertKeepsGood
  <2> SUFFICES ASSUME NEW k \in DOMAIN requests'
               PROVE  /\ requests'[k].job < nextId'
                      /\ \A m \in DOMAIN requests' :
                           requests'[m].job = requests'[k].job => m = k
                      /\ requests'[k].job \in DOMAIN jobs'
                           => jobs'[requests'[k].job].input = requests'[k].input
    BY DEF OneJobPerKey
  <2>5. CASE k = key
    BY <1>2, <2>1, <2>2, <2>3, <2>5, UsedIdsAreOld
  <2>6. CASE k \in DOMAIN requests
    BY <1>1, <1>2, <2>1, <2>3, <2>4, <2>6, UsedIdsAreOld DEF IInv, OneJobPerKey
  <2> QED BY <1>2, <2>5, <2>6
<1> QED BY <1>4, <1>5 DEF IInv

\* The scheduler alone, on the tables as they are.
LEMMA RescheduleIInv ==
  ASSUME IInv, jobs' \in runScheduler(jobs, online, metrics),
         UNCHANGED <<nextId, cleanup, requests, workerVars>>
  PROVE  IInv'
<1>1. Fleet(online, metrics)
  BY DEF IInv, TypeOK, Fleet
<1>2. Good(jobs') /\ Follows(jobs, jobs')
  BY <1>1, IInvGood, SchedulerGood
<1> QED BY <1>1, <1>2, ForwardKeepsIInv DEF workerVars, IInv, TypeOK

\* A row update that keeps input and unit, and neither revives an ended job
\* nor starts one: cancelling, reporting a result, losing a lease.
LEMMA EndRowIInv ==
  ASSUME IInv, NEW id \in DOMAIN jobs,
         jobs[id].status \notin TERMINAL_STATUSES,
         jobs' = [jobs EXCEPT ![id] = jobs'[id]],
         jobs'[id] \in JobRow,
         jobs'[id].input = jobs[id].input,
         jobs'[id].unit = jobs[id].unit,
         \/ jobs'[id].status = "CANCELLED"
         \/ jobs[id].status = "RUNNING" /\ jobs'[id].status \in Settled \cup {"RUNNING"},
         UNCHANGED <<nextId, cleanup, requests, workerVars>>
  PROVE  IInv'
<1>1. Good(jobs)
  BY IInvGood
<1>2. /\ DOMAIN jobs' = DOMAIN jobs
      /\ \A j \in DOMAIN jobs : j # id => jobs'[j] = jobs[j]
  OBVIOUS
<1>3. Table(jobs')
  <2>1. jobs' = [j \in DOMAIN jobs |-> jobs'[j]]
    OBVIOUS
  <2>2. \A j \in DOMAIN jobs : jobs'[j] \in JobRow
    BY <1>1, <1>2 DEF Good, Table
  <2> QED BY <1>1, <1>2, <2>1, <2>2 DEF Good, Table
<1>4. Slots(jobs')
  <2>1. jobs'[id].status \in Busy => jobs[id].status \in Busy
    BY DEF Busy, Settled
  <2> QED BY <1>1, <1>2, <2>1 DEF Good, Slots
<1>5. Deps(jobs')
  <2>1. jobs'[id].status \in Busy \cup Settled => jobs[id].status \in Busy \cup Settled
    BY DEF Busy, Settled
  <2>2. jobs[id].status # "COMPLETED"
    BY DEF TERMINAL_STATUSES
  <2> QED BY <1>1, <1>2, <2>1, <2>2 DEF Good, Deps
<1>6. Follows(jobs, jobs')
  BY <1>2 DEF Follows
<1> QED BY <1>3, <1>4, <1>5, <1>6, ForwardKeepsIInv DEF Good, Fleet, IInv, TypeOK, workerVars

\* POST /api/jobs/:id/cancel only ends a job that has not ended.
LEMMA CancelJobIInv ==
  ASSUME IInv, NEW id \in DOMAIN jobs, CancelJob(id)
  PROVE  IInv'
<1>1. jobs[id] \in JobRow
  BY DEF IInv, TypeOK
<1>2. /\ jobs[id].status \notin TERMINAL_STATUSES
      /\ jobs'[id] = [jobs[id] EXCEPT !.status = "CANCELLED"]
      /\ jobs' = [jobs EXCEPT ![id] = jobs'[id]]
      /\ UNCHANGED <<nextId, cleanup, requests, workerVars>>
  BY DEF CancelJob
<1>3. /\ jobs'[id] \in JobRow
      /\ jobs'[id].input = jobs[id].input
      /\ jobs'[id].unit = jobs[id].unit
      /\ jobs'[id].status = "CANCELLED"
  BY <1>1, <1>2 DEF JobRow, Statuses
<1> QED BY <1>2, <1>3, EndRowIInv

\* POST /api/agent/job-result ends a job only while it is RUNNING there.
LEMMA JobResultIInv ==
  ASSUME IInv, NEW w \in Workers, NEW id \in DOMAIN jobs, NEW ok \in BOOLEAN,
         JobResult(w, id, ok)
  PROVE  IInv'
<1> DEFINE end == IF ok THEN "COMPLETED" ELSE "FAILED"
<1>1. jobs[id] \in JobRow
  BY DEF IInv, TypeOK
<1>2. /\ jobs[id].status = "RUNNING"
      /\ jobs'[id] = [jobs[id] EXCEPT !.status = end]
      /\ jobs' = [jobs EXCEPT ![id] = jobs'[id]]
      /\ UNCHANGED <<nextId, cleanup, requests, workerVars>>
  BY DEF JobResult, isJobStillRunning
<1>3. /\ jobs'[id] \in JobRow
      /\ jobs'[id].input = jobs[id].input
      /\ jobs'[id].unit = jobs[id].unit
      /\ jobs'[id].status \in Settled
  BY <1>1, <1>2 DEF JobRow, Statuses, Settled
<1>4. jobs[id].status \notin TERMINAL_STATUSES
  BY <1>2 DEF TERMINAL_STATUSES
<1> QED BY <1>2, <1>3, <1>4, EndRowIInv

\* Losing a lease changes no status.
LEMMA LeaseExpiresIInv ==
  ASSUME IInv, NEW id \in DOMAIN jobs, LeaseExpires(id)
  PROVE  IInv'
<1>1. jobs[id] \in JobRow
  BY DEF IInv, TypeOK
<1>2. /\ jobs[id].status = "RUNNING"
      /\ jobs'[id] = [jobs[id] EXCEPT !.leased = FALSE]
      /\ jobs' = [jobs EXCEPT ![id] = jobs'[id]]
      /\ UNCHANGED <<nextId, cleanup, requests, workerVars>>
  BY DEF LeaseExpires
<1>3. /\ jobs'[id] \in JobRow
      /\ jobs'[id].input = jobs[id].input
      /\ jobs'[id].unit = jobs[id].unit
      /\ jobs'[id].status = "RUNNING"
  BY <1>1, <1>2 DEF JobRow
<1>4. jobs[id].status \notin TERMINAL_STATUSES
  BY <1>2 DEF TERMINAL_STATUSES
<1> QED BY <1>2, <1>3, <1>4, EndRowIInv

\* A heartbeat composes four stages: leases, sweep, assignment, hand-out.
LEMMA HeartbeatIInv ==
  ASSUME IInv, NEW w \in Workers, NEW report \in Reports, NEW running,
         Heartbeat(w, report, running)
  PROVE  IInv'
<1>1. PICK tbl \in runScheduler(Progressed(w, running), online', metrics') :
        jobs' = startJobs(tbl, newlyAssigned(tbl, w, running))
  BY DEF Heartbeat
<1>2. Fleet(online', metrics') /\ jobs_enabled' \in [Workers -> BOOLEAN]
  BY DEF Heartbeat, Fleet, IInv, TypeOK
<1>3. Good(Progressed(w, running)) /\ Follows(jobs, Progressed(w, running))
  BY IInvGood, ProgressGood
<1>4. Good(tbl) /\ Follows(Progressed(w, running), tbl)
  BY <1>1, <1>2, <1>3, SchedulerGood
<1>5. Good(jobs') /\ Follows(tbl, jobs')
  <2>1. \A j \in newlyAssigned(tbl, w, running) : j \in DOMAIN tbl /\ tbl[j].status = "ASSIGNED"
    BY DEF newlyAssigned
  <2> QED BY <1>1, <1>4, <2>1, StartGood
<1>6. Follows(jobs, jobs')
  BY <1>3, <1>4, <1>5 DEF Follows
<1> QED BY <1>2, <1>5, <1>6, ForwardKeepsIInv DEF Heartbeat

\* Re-queuing a FAILED row frees its unit and keeps the table good.
LEMMA RequeueGood ==
  ASSUME IInv, NEW id \in DOMAIN jobs, jobs[id].status = "FAILED",
         jobs[id].retry_count < MaxRetries
  PROVE  Good([jobs EXCEPT ![id] = Requeued(@)])
<1> DEFINE base == [jobs EXCEPT ![id] = Requeued(@)]
<1>1. Good(jobs) /\ jobs[id] \in JobRow
  BY IInvGood DEF Good, Table
<1>2. /\ DOMAIN base = DOMAIN jobs
      /\ base[id] = Requeued(jobs[id])
      /\ \A j \in DOMAIN jobs : j # id => base[j] = jobs[j]
  OBVIOUS
<1>3. /\ base[id] \in JobRow
      /\ base[id].input = jobs[id].input
      /\ base[id].status = "QUEUED"
  <2>1. jobs[id].retry_count + 1 \in 0..MaxRetries
    BY <1>1, EngineAssumption DEF JobRow
  <2> QED BY <1>1, <1>2, <2>1 DEF Requeued, JobRow, Statuses
<1>4. Table(base)
  <2>1. base = [j \in DOMAIN jobs |-> base[j]]
    OBVIOUS
  <2>2. \A j \in DOMAIN jobs : base[j] \in JobRow
    BY <1>1, <1>2, <1>3 DEF Good, Table
  <2> QED BY <1>1, <1>2, <2>1, <2>2 DEF Good, Table
<1> HIDE DEF base
<1>5. Slots(base)
  BY <1>1, <1>2, <1>3 DEF Good, Slots, Busy
<1>6. Deps(base)
  BY <1>1, <1>2, <1>3 DEF Good, Deps, Busy, Settled
<1>7. Good(base)
  BY <1>4, <1>5, <1>6 DEF Good
<1> QED BY <1>7 DEF base

\* Re-queuing frees the unit; a job with a cleanup record is never re-queued,
\* because the record of a live job is a claim.
LEMMA RetryJobIInv ==
  ASSUME IInv, NEW id \in DOMAIN jobs, RetryJob(id)
  PROVE  IInv'
<1>1. CASE jobs[id].status = "QUEUED" /\ jobs' \in runScheduler(jobs, online, metrics)
  BY <1>1, RescheduleIInv DEF RetryJob
<1>2. CASE /\ jobs[id].status = "FAILED"
           /\ ~Claimed(id)
           /\ jobs[id].retry_count < MaxRetries
           /\ jobs' \in runScheduler([jobs EXCEPT ![id] = Requeued(@)], online, metrics)
  <2> DEFINE base == [jobs EXCEPT ![id] = Requeued(@)]
  <2>1. /\ DOMAIN base = DOMAIN jobs
        /\ \A j \in DOMAIN jobs : j # id => base[j] = jobs[j]
    OBVIOUS
  <2>2. base[id].input = jobs[id].input
    BY DEF Requeued, IInv, TypeOK, JobRow
  <2>3. Good(base) /\ Fleet(online, metrics)
    BY <1>2, RequeueGood DEF IInv, TypeOK, Fleet
  <2> HIDE DEF base
  <2>4. Good(jobs') /\ Follows(base, jobs')
    <3>1. jobs' \in runScheduler(base, online, metrics)
      BY <1>2 DEF base
    <3> QED BY <2>3, <3>1, SchedulerGood
  <2>5. UNCHANGED <<nextId, cleanup, requests, workerVars>>
    BY DEF RetryJob
  <2>6. TypeOK'
    <3>1. DOMAIN jobs' = DOMAIN jobs /\ jobs' \in [DOMAIN jobs' -> JobRow]
      BY <2>1, <2>4 DEF Follows, Good, Table
    <3> QED BY <2>5, <3>1 DEF IInv, TypeOK, workerVars
  <2>7. SlotExclusive' /\ DependencyHonoured'
    BY <2>4 DEF Good, Slots, Deps, SlotExclusive, DependencyHonoured
  <2>8. ReleasedStaysSettled'
    <3>1. id \notin DOMAIN cleanup
      BY <1>2 DEF IInv, ReleasedStaysSettled, Claimed
    <3> QED BY <2>1, <2>4, <2>5, <3>1
            DEF IInv, ReleasedStaysSettled, Follows, Settled, TERMINAL_STATUSES
  <2>9. OneJobPerKey'
    BY <2>1, <2>2, <2>4, <2>5 DEF IInv, OneJobPerKey, Follows
  <2> QED BY <2>6, <2>7, <2>8, <2>9 DEF IInv
<1> QED BY <1>1, <1>2 DEF RetryJob

\* The cleanup rows after retainCleanup(ids).
LEMMA RetainRows ==
  ASSUME IInv, NEW ids, ids \subseteq DOMAIN jobs
  PROVE  /\ DOMAIN cleanup \subseteq DOMAIN retainCleanup(ids)
         /\ DOMAIN retainCleanup(ids) \subseteq DOMAIN cleanup \cup ids
         /\ \A j \in DOMAIN retainCleanup(ids) :
              IF j \in ids /\ jobs[j].input.upload
              THEN retainCleanup(ids)[j] = [status |-> jobs[j].status, claimed |-> Claimed(j)]
              ELSE j \in DOMAIN cleanup /\ retainCleanup(ids)[j] = cleanup[j]
         /\ retainCleanup(ids) \in [DOMAIN retainCleanup(ids) -> CleanupRow]
<1> DEFINE new == retainCleanup(ids)
           kept == {j \in ids : jobs[j].input.upload}
<1>1. new = [j \in DOMAIN cleanup \cup kept |->
               IF j \in kept THEN [status |-> jobs[j].status, claimed |-> Claimed(j)]
                             ELSE cleanup[j]]
  BY DEF retainCleanup
<1>2. \A j \in kept : [status |-> jobs[j].status, claimed |-> Claimed(j)] \in CleanupRow
  <2> SUFFICES ASSUME NEW j \in kept
               PROVE  [status |-> jobs[j].status, claimed |-> Claimed(j)] \in CleanupRow
    OBVIOUS
  <2>1. jobs[j].status \in Statuses
    BY DEF IInv, TypeOK, JobRow
  <2>2. Claimed(j) \in BOOLEAN
    BY Zenon DEF Claimed, IInv, TypeOK, CleanupRow
  <2> QED BY <2>1, <2>2 DEF CleanupRow
<1>3. \A j \in DOMAIN cleanup : cleanup[j] \in CleanupRow
  BY DEF IInv, TypeOK
<1>4. new \in [DOMAIN cleanup \cup kept -> CleanupRow]
  BY <1>1, <1>2, <1>3
<1> QED BY <1>1, <1>4

\* Removing ended jobs that no remaining row depends on.
LEMMA RemoveIInv ==
  ASSUME IInv, NEW ids, ids \subseteq Terminal, RemoveRows(ids),
         \A i \in DOMAIN jobs \ ids : jobs[i].input.depends_on \notin ids,
         UNCHANGED <<nextId, requests, workerVars>>
  PROVE  IInv'
<1>1. ids \subseteq DOMAIN jobs /\ \A j \in ids : jobs[j].status \in TERMINAL_STATUSES
  BY DEF Terminal
<1>2. /\ DOMAIN jobs' = DOMAIN jobs \ ids
      /\ \A j \in DOMAIN jobs' : jobs'[j] = jobs[j]
      /\ jobs' = [j \in DOMAIN jobs' |-> jobs[j]]
      /\ cleanup' = retainCleanup(ids)
  BY DEF RemoveRows
<1>3. TypeOK'
  <2>1. jobs' \in [DOMAIN jobs' -> JobRow]
    BY <1>2 DEF IInv, TypeOK
  <2>2. /\ cleanup' \in [DOMAIN cleanup' -> CleanupRow]
        /\ DOMAIN cleanup' \subseteq DOMAIN cleanup \cup ids
    BY <1>1, <1>2, RetainRows
  <2> QED BY <1>1, <1>2, <2>1, <2>2 DEF IInv, TypeOK, workerVars
<1>4. SlotExclusive'
  BY <1>2 DEF IInv, SlotExclusive
<1>5. DependencyHonoured'
  BY <1>2 DEF IInv, DependencyHonoured
<1>6. ReleasedStaysSettled'
  <2> SUFFICES ASSUME NEW j \in DOMAIN cleanup'
               PROVE  /\ cleanup'[j].claimed => cleanup'[j].status \in Settled
                      /\ j \in DOMAIN jobs' =>
                           cleanup'[j].claimed /\ jobs'[j].status = cleanup'[j].status
    BY DEF ReleasedStaysSettled
  <2>1. CASE j \in ids /\ jobs[j].input.upload
    <3>1. cleanup'[j] = [status |-> jobs[j].status, claimed |-> Claimed(j)]
      BY <1>1, <1>2, <2>1, RetainRows
    <3>2. Claimed(j) => jobs[j].status \in Settled
      BY <1>1, <2>1 DEF Claimed, IInv, ReleasedStaysSettled
    <3> QED BY <1>2, <2>1, <3>1, <3>2
  <2>2. CASE ~(j \in ids /\ jobs[j].input.upload)
    <3>1. j \in DOMAIN cleanup /\ cleanup'[j] = cleanup[j]
      BY <1>1, <1>2, <2>2, RetainRows
    <3> QED BY <1>2, <3>1 DEF IInv, ReleasedStaysSettled
  <2> QED BY <2>1, <2>2
<1>7. OneJobPerKey'
  BY <1>2 DEF IInv, OneJobPerKey
<1> QED BY <1>3, <1>4, <1>5, <1>6, <1>7 DEF IInv

\* DELETE /api/jobs/:id: the foreign key leaves no dependent behind.
LEMMA DeleteJobIInv ==
  ASSUME IInv, NEW id \in DOMAIN jobs, DeleteJob(id)
  PROVE  IInv'
<1>1. /\ {id} \subseteq Terminal
      /\ RemoveRows({id})
      /\ UNCHANGED <<nextId, requests, workerVars>>
  BY DEF DeleteJob, Terminal
<1>2. \A i \in DOMAIN jobs \ {id} : jobs[i].input.depends_on \notin {id}
  BY DEF DeleteJob, DependsOn
<1> QED BY <1>1, <1>2, RemoveIInv

\* DELETE /api/jobs: a batch that commits leaves no dependent behind.
LEMMA ClearHistoryIInv ==
  ASSUME IInv, ClearHistory
  PROVE  IInv'
<1>1. RemoveRows(Terminal) /\ UNCHANGED <<nextId, requests, workerVars>>
  BY DEF ClearHistory
<1>2. \A i \in DOMAIN jobs \ Terminal : jobs[i].input.depends_on \notin Terminal
  BY DEF ClearHistory, HistoryDeletable, LeftWhenReached, DependsOn
<1> QED BY <1>1, <1>2, RemoveIInv

\* A claim archives the status the job has, which is a settled one.
LEMMA ClaimCleanupIInv ==
  ASSUME IInv, NEW id \in JobIds, ClaimCleanup(id)
  PROVE  IInv'
<1>1. UNCHANGED <<jobs, nextId, requests, workerVars>>
  BY DEF ClaimCleanup, jobVars
<1>2. /\ cleanup' \in [DOMAIN cleanup' -> CleanupRow]
      /\ DOMAIN cleanup' \subseteq DOMAIN cleanup \cup (DOMAIN jobs \cap {id})
      /\ ReleasedStaysSettled'
  <2>1. CASE /\ id \in DOMAIN jobs
             /\ jobs[id].input.upload
             /\ jobs[id].status \in Settled
             /\ cleanup' = [retainCleanup({id}) EXCEPT ![id].claimed = TRUE]
    <3> DEFINE kept == retainCleanup({id})
    <3>1. /\ DOMAIN kept \subseteq DOMAIN cleanup \cup {id}
          /\ kept \in [DOMAIN kept -> CleanupRow]
          /\ \A j \in DOMAIN kept : j # id => j \in DOMAIN cleanup /\ kept[j] = cleanup[j]
          /\ id \in DOMAIN kept => kept[id].status = jobs[id].status
      BY <2>1, RetainRows
    <3> HIDE DEF kept
    <3>2. /\ DOMAIN cleanup' = DOMAIN kept
          /\ cleanup' = [kept EXCEPT ![id] = [kept[id] EXCEPT !.claimed = TRUE]]
          /\ \A j \in DOMAIN kept : j # id => cleanup'[j] = kept[j]
          /\ id \in DOMAIN kept => cleanup'[id] = [kept[id] EXCEPT !.claimed = TRUE]
      BY <2>1 DEF kept
    <3>3. id \in DOMAIN kept =>
            /\ cleanup'[id] \in CleanupRow
            /\ cleanup'[id].status = jobs[id].status
            /\ cleanup'[id].claimed
      BY <3>1, <3>2 DEF CleanupRow
    <3>4. cleanup' \in [DOMAIN cleanup' -> CleanupRow]
      BY <3>1, <3>2, <3>3
    <3>5. ReleasedStaysSettled'
      <4> SUFFICES ASSUME NEW j \in DOMAIN cleanup'
                   PROVE  /\ cleanup'[j].claimed => cleanup'[j].status \in Settled
                          /\ j \in DOMAIN jobs' =>
                               cleanup'[j].claimed /\ jobs'[j].status = cleanup'[j].status
        BY DEF ReleasedStaysSettled
      <4>1. CASE j = id
        BY <1>1, <2>1, <3>2, <3>3, <4>1
      <4>2. CASE j # id
        <5>1. j \in DOMAIN cleanup /\ cleanup'[j] = cleanup[j]
          BY <3>1, <3>2, <4>2
        <5> QED BY <1>1, <5>1 DEF IInv, ReleasedStaysSettled
      <4> QED BY <4>1, <4>2
    <3> QED BY <2>1, <3>1, <3>2, <3>4, <3>5
  <2>2. CASE /\ id \in DOMAIN cleanup \ DOMAIN jobs
             /\ cleanup[id].status \in Settled
             /\ cleanup' = [cleanup EXCEPT ![id].claimed = TRUE]
    <3>1. cleanup \in [DOMAIN cleanup -> CleanupRow]
      BY DEF IInv, TypeOK
    <3>2. /\ DOMAIN cleanup' = DOMAIN cleanup
          /\ \A j \in DOMAIN cleanup : j # id => cleanup'[j] = cleanup[j]
          /\ cleanup'[id] = [cleanup[id] EXCEPT !.claimed = TRUE]
      BY <2>2
    <3>3. cleanup'[id] \in CleanupRow /\ cleanup'[id].status = cleanup[id].status
      <4>1. cleanup[id] \in CleanupRow
        BY <2>2, <3>1
      <4>2. cleanup'[id] = [cleanup[id] EXCEPT !.claimed = TRUE]
        BY <3>2
      <4> QED
        BY ONLY <4>1, <4>2 DEF CleanupRow
    <3>4. cleanup' \in [DOMAIN cleanup' -> CleanupRow]
      BY <2>2, <3>1, <3>2, <3>3
    <3>5. ReleasedStaysSettled'
      BY <1>1, <2>2, <3>2, <3>3 DEF IInv, ReleasedStaysSettled
    <3> QED BY <3>2, <3>4, <3>5
  <2> QED BY <2>1, <2>2 DEF ClaimCleanup
<1>3. TypeOK'
  BY <1>1, <1>2 DEF IInv, TypeOK, workerVars
<1>4. SlotExclusive' /\ DependencyHonoured' /\ OneJobPerKey'
  BY <1>1 DEF IInv, SlotExclusive, DependencyHonoured, OneJobPerKey
<1> QED BY <1>2, <1>3, <1>4 DEF IInv

\* The switch, the clock and a restart leave the tables alone.
LEMMA FleetIInv ==
  ASSUME IInv, UNCHANGED <<jobs, nextId, cleanup, requests>>,
         Fleet(online', metrics'), jobs_enabled' \in [Workers -> BOOLEAN]
  PROVE  IInv'
<1>1. Good(jobs') /\ Follows(jobs, jobs')
  BY IInvGood DEF Follows
<1> QED BY <1>1, ForwardKeepsIInv

\* The administrator's switch touches no table of jobs.
LEMMA SetJobsEnabledIInv ==
  ASSUME IInv, NEW w \in Workers, NEW enabled \in BOOLEAN, SetJobsEnabled(w, enabled)
  PROVE  IInv'
<1>1. UNCHANGED <<jobs, nextId, cleanup, requests, online, metrics>>
  BY DEF SetJobsEnabled, jobVars
<1>2. Fleet(online', metrics') /\ jobs_enabled' \in [Workers -> BOOLEAN]
  BY <1>1 DEF SetJobsEnabled, IInv, TypeOK, Fleet
<1> QED BY <1>1, <1>2, FleetIInv

\* Neither does a worker that stops sending heartbeats,
LEMMA GoesQuietIInv ==
  ASSUME IInv, NEW w \in Workers, GoesQuiet(w)
  PROVE  IInv'
<1>1. UNCHANGED <<jobs, nextId, cleanup, requests, metrics, jobs_enabled>>
  BY DEF GoesQuiet, jobVars
<1>2. Fleet(online', metrics') /\ jobs_enabled' \in [Workers -> BOOLEAN]
  BY <1>1 DEF GoesQuiet, IInv, TypeOK, Fleet
<1> QED BY <1>1, <1>2, FleetIInv

\* nor a restart, which empties the metrics cache.
LEMMA ServerRestartIInv ==
  ASSUME IInv, ServerRestart
  PROVE  IInv'
<1>1. UNCHANGED <<jobs, nextId, cleanup, requests, online, jobs_enabled>>
  BY DEF ServerRestart, jobVars
<1>2. Fleet(online', metrics') /\ jobs_enabled' \in [Workers -> BOOLEAN]
  BY <1>1 DEF ServerRestart, IInv, TypeOK, Fleet
<1> QED BY <1>1, <1>2, FleetIInv

\* Every step keeps the invariant.
LEMMA NextIInv == IInv /\ [Next]_vars => IInv'
<1> SUFFICES ASSUME IInv, [Next]_vars PROVE IInv'
  OBVIOUS
<1>1. CASE UserStep
  <2>1. ASSUME NEW input \in Inputs, CreateJob(input) PROVE IInv'
    BY <2>1, CreateJobIInv
  <2>2. ASSUME NEW key \in Keys, NEW input \in Inputs, CreateJobOnce(key, input) PROVE IInv'
    BY <2>2, CreateJobOnceIInv
  <2>3. ASSUME NEW key \in Keys, NEW input \in Inputs, RepeatCreate(key, input) PROVE IInv'
    BY <2>3, RescheduleIInv DEF RepeatCreate
  <2>4. ASSUME NEW id \in DOMAIN jobs, CancelJob(id) PROVE IInv'
    BY <2>4, CancelJobIInv
  <2>5. ASSUME NEW id \in DOMAIN jobs, RetryJob(id) PROVE IInv'
    BY <2>5, RetryJobIInv
  <2>6. ASSUME NEW id \in DOMAIN jobs, DeleteJob(id) PROVE IInv'
    BY <2>6, DeleteJobIInv
  <2>7. CASE ClearHistory
    BY <2>7, ClearHistoryIInv
  <2>8. ASSUME NEW id \in JobIds, ClaimCleanup(id) PROVE IInv'
    BY <2>8, ClaimCleanupIInv
  <2> QED BY <1>1, <2>1, <2>2, <2>3, <2>4, <2>5, <2>6, <2>7, <2>8 DEF UserStep
<1>2. CASE AgentStep
  <2>1. ASSUME NEW w \in Workers, NEW report \in Reports, NEW running \in SUBSET (1..(nextId - 1)),
               Heartbeat(w, report, running)
        PROVE  IInv'
    BY <2>1, HeartbeatIInv
  <2>2. ASSUME NEW w \in Workers, NEW id \in DOMAIN jobs, NEW ok \in BOOLEAN, JobResult(w, id, ok)
        PROVE  IInv'
    BY <2>2, JobResultIInv
  <2> QED BY <1>2, <2>1, <2>2 DEF AgentStep
<1>3. CASE Environment
  <2>1. ASSUME NEW w \in Workers, NEW enabled \in BOOLEAN, SetJobsEnabled(w, enabled) PROVE IInv'
    BY <2>1, SetJobsEnabledIInv
  <2>2. ASSUME NEW w \in Workers, GoesQuiet(w) PROVE IInv'
    BY <2>2, GoesQuietIInv
  <2>3. ASSUME NEW id \in DOMAIN jobs, LeaseExpires(id) PROVE IInv'
    BY <2>3, LeaseExpiresIInv
  <2>4. CASE ServerRestart
    BY <2>4, ServerRestartIInv
  <2> QED BY <1>3, <2>1, <2>2, <2>3, <2>4 DEF Environment
<1>4. CASE UNCHANGED vars
  BY <1>4 DEF vars, IInv, TypeOK, SlotExclusive, DependencyHonoured, ReleasedStaysSettled,
              OneJobPerKey
<1> QED BY <1>1, <1>2, <1>3, <1>4 DEF Next

------------------------------------------------------------------------------
(* The theorems.                                                           *)

\* The invariant holds in every reachable state.
THEOREM Inductive == Spec => []IInv
BY InitIInv, NextIInv, PTL DEF Spec

\* Every table is well formed in every reachable state.
THEOREM TypeCorrect == Spec => []TypeOK
<1>1. IInv => TypeOK
  BY DEF IInv
<1> QED BY <1>1, Inductive, PTL

\* The scheduler never gives one GPU slot to two jobs, for any number of
\* workers, GPUs and jobs.
THEOREM SlotExclusion == Spec => []SlotExclusive
<1>1. IInv => SlotExclusive
  BY DEF IInv
<1> QED BY <1>1, Inductive, PTL

\* A job is never handed out before its dependency is COMPLETED, and that
\* dependency outlives it.
THEOREM DependencyRespected == Spec => []DependencyHonoured
<1>1. IInv => DependencyHonoured
  BY DEF IInv
<1> QED BY <1>1, Inductive, PTL

\* A job whose files were released is never run again.
THEOREM ReleasedNeverRuns == Spec => []ReleasedStaysSettled
<1>1. IInv => ReleasedStaysSettled
  BY DEF IInv
<1> QED BY <1>1, Inductive, PTL

\* A repeated POST never creates a second job under one Idempotency-Key.
THEOREM KeyNamesOneJob == Spec => []OneJobPerKey
<1>1. IInv => OneJobPerKey
  BY DEF IInv
<1> QED BY <1>1, Inductive, PTL

\* Clearing the history fails only when an active job depends on a terminal
\* one: a dependency is older than its dependent, so the batch, which goes
\* from the highest id down, deletes every dependent first.
THEOREM HistoryNotSelfBlocking == Spec => []HistoryBlockedOnlyByActive
<1>1. IInv => HistoryBlockedOnlyByActive
  <2> SUFFICES ASSUME IInv, NEW id \in Terminal, NEW i \in LeftWhenReached(id), DependsOn(i, id)
               PROVE  i \in DOMAIN jobs \ Terminal
    BY DEF HistoryBlockedOnlyByActive, HistoryDeletable
  <2>1. CASE i < id
    <3>1. jobs[i].input.depends_on = id /\ i \in DOMAIN jobs /\ id # NoJob
      BY DEF DependsOn, Terminal, IInv, TypeOK, NoJob
    <3>2. id < i
      BY <3>1 DEF IInv, DependencyHonoured
    <3>3. i \in Nat /\ id \in Nat
      BY <3>1 DEF Terminal, IInv, TypeOK
    <3> QED BY <2>1, <3>2, <3>3
  <2>2. CASE i \notin Terminal
    BY <2>2 DEF DependsOn
  <2> QED BY <2>1, <2>2 DEF LeftWhenReached
<1> QED BY <1>1, Inductive, PTL

------------------------------------------------------------------------------
(* Proof that JobEngine implements JobLifecycle, for any constants.        *)
(*                                                                         *)
(* A run of the scheduler, a result or a lost lease moves statuses along   *)
(* ForwardMoves only, none of which leaves a terminal status; a retry, a   *)
(* creation, a removal and a claim are one more transition each.  That a   *)
(* released job makes none of these follows from the engine's invariant.   *)

ForwardMoves ==
  { <<"QUEUED", "ASSIGNED">>, <<"ASSIGNED", "RUNNING">>, <<"QUEUED", "RUNNING">>,
    <<"RUNNING", "COMPLETED">>, <<"RUNNING", "FAILED">>,
    <<"QUEUED", "CANCELLED">>, <<"ASSIGNED", "CANCELLED">>, <<"RUNNING", "CANCELLED">> }

Forward(old, new) == new = old \/ <<old, new>> \in ForwardMoves

Transitions == Lifecycle!Edges \cup Lifecycle!Shortcuts

LEMMA ForwardMovesAllowed == ForwardMoves \subseteq Transitions
BY DEF ForwardMoves, Transitions, Lifecycle!Edges, Lifecycle!Shortcuts

LEMMA ForwardLeavesActive ==
  ASSUME NEW old, NEW new, <<old, new>> \in ForwardMoves
  PROVE  old \notin TERMINAL_STATUSES
BY DEF ForwardMoves, TERMINAL_STATUSES

------------------------------------------------------------------------------
(* The stages of a handler.                                                *)

\* A scheduler run fails RUNNING rows and assigns QUEUED ones.
LEMMA SchedulerMoves ==
  ASSUME NEW tbl, Good(tbl), NEW on, NEW met, NEW new \in runScheduler(tbl, on, met)
  PROVE  /\ DOMAIN new = DOMAIN tbl
         /\ \A j \in DOMAIN tbl :
              \/ new[j].status = tbl[j].status
              \/ tbl[j].status = "QUEUED" /\ new[j].status = "ASSIGNED"
              \/ tbl[j].status = "RUNNING" /\ new[j].status = "FAILED"
<1> DEFINE swept == failStaleRunningJobs(tbl, on)
<1>1. PICK asg \in Assignments(swept, on, met) : new = Assign(swept, asg)
  BY DEF runScheduler
<1>2. Good(swept)
  BY SweepGood
<1>3. /\ DOMAIN swept = DOMAIN tbl
      /\ \A j \in DOMAIN tbl :
           \/ swept[j].status = tbl[j].status
           \/ tbl[j].status = "RUNNING" /\ swept[j].status = "FAILED"
  BY DEF failStaleRunningJobs, Stale, Good, Table, JobRow
<1> HIDE DEF swept
<1>4. /\ DOMAIN new = DOMAIN swept
      /\ \A j \in DOMAIN swept :
           \/ new[j] = swept[j]
           \/ swept[j].status = "QUEUED" /\ new[j].status = "ASSIGNED"
  BY <1>1, <1>2 DEF Assign, Ready, Good, Table, JobRow
<1> QED BY <1>3, <1>4

\* A heartbeat also hands out what is assigned.
LEMMA HeartbeatMoves ==
  ASSUME IInv, NEW w \in Workers, NEW report \in Reports, NEW running,
         Heartbeat(w, report, running)
  PROVE  /\ DOMAIN jobs' = DOMAIN jobs
         /\ \A j \in DOMAIN jobs : Forward(jobs[j].status, jobs'[j].status)
<1> DEFINE base == Progressed(w, running)
<1>1. PICK tbl \in runScheduler(base, online', metrics') :
        jobs' = startJobs(tbl, newlyAssigned(tbl, w, running))
  BY DEF Heartbeat
<1>2. /\ Good(base)
      /\ DOMAIN base = DOMAIN jobs
      /\ \A j \in DOMAIN jobs : base[j].status = jobs[j].status
  BY IInvGood, ProgressGood DEF Progressed, Good, Table, JobRow
<1>3. Fleet(online', metrics')
  BY DEF Heartbeat, Fleet, IInv, TypeOK
<1> HIDE DEF base
<1>4. Good(tbl)
  BY <1>1, <1>2, <1>3, SchedulerGood
<1>5. /\ DOMAIN tbl = DOMAIN base
      /\ \A j \in DOMAIN base :
           \/ tbl[j].status = base[j].status
           \/ base[j].status = "QUEUED" /\ tbl[j].status = "ASSIGNED"
           \/ base[j].status = "RUNNING" /\ tbl[j].status = "FAILED"
  BY <1>1, <1>2, SchedulerMoves
<1>6. /\ DOMAIN jobs' = DOMAIN tbl
      /\ \A j \in DOMAIN tbl :
           \/ jobs'[j] = tbl[j]
           \/ tbl[j].status = "ASSIGNED" /\ jobs'[j].status = "RUNNING"
  BY <1>1, <1>4 DEF startJobs, newlyAssigned, Good, Table, JobRow
<1> QED BY <1>2, <1>5, <1>6 DEF Forward, ForwardMoves

------------------------------------------------------------------------------
(* Steps of the life cycle.                                                *)

\* What LifecycleState says of an id.
LEMMA StateOf ==
  ASSUME IInv
  PROVE  \A j \in JobIds :
           /\ j \in DOMAIN jobs => LifecycleState[j] = jobs[j].status /\ j < nextId
           /\ j \notin DOMAIN jobs /\ j < nextId => LifecycleState[j] = "REMOVED"
           /\ j >= nextId => LifecycleState[j] = "NEW"
BY DEF IInv, TypeOK, LifecycleState, JobIds

\* A released job that still exists is settled.
LEMMA ReleasedSettled ==
  ASSUME IInv, NEW j \in DOMAIN jobs, j \in Released
  PROVE  jobs[j].status \in Settled
BY DEF IInv, ReleasedStaysSettled, Released

\* A row's status is neither of the two the life cycle adds.
LEMMA StatusNotNew == IInv => \A j \in DOMAIN jobs : jobs[j].status \notin {"NEW", "REMOVED"}
BY DEF IInv, TypeOK, JobRow, Statuses

\* A forward move of one job is a transition a released job never makes.
LEMMA ForwardStep ==
  ASSUME IInv, NEW j \in DOMAIN jobs, j \in JobIds,
         LifecycleState[j] = jobs[j].status, LifecycleState'[j] = jobs'[j].status,
         <<jobs[j].status, jobs'[j].status>> \in ForwardMoves
  PROVE  Lifecycle!Move(j)
<1>1. jobs[j].status \notin TERMINAL_STATUSES
  BY ForwardLeavesActive
<1>2. j \notin Released
  BY <1>1, ReleasedSettled DEF Settled, TERMINAL_STATUSES
<1> QED BY <1>2, StatusNotNew, ForwardMovesAllowed DEF Lifecycle!Move, Transitions

\* A handler that only moves jobs forward is a step of the life cycle.
LEMMA ForwardAdvances ==
  ASSUME IInv, IInv', UNCHANGED <<nextId, cleanup>>, DOMAIN jobs' = DOMAIN jobs,
         \A j \in DOMAIN jobs : Forward(jobs[j].status, jobs'[j].status)
  PROVE  Lifecycle!Next
<1> SUFFICES ASSUME NEW j \in JobIds, LifecycleState'[j] # LifecycleState[j]
             PROVE  Lifecycle!Move(j)
  BY DEF Lifecycle!Next, Lifecycle!Advance, Released
<1>1. j \in DOMAIN jobs
  BY DEF LifecycleState
<1>2. LifecycleState[j] = jobs[j].status /\ LifecycleState'[j] = jobs'[j].status
  BY <1>1, StateOf DEF LifecycleState
<1>3. <<jobs[j].status, jobs'[j].status>> \in ForwardMoves
  BY <1>1, <1>2 DEF Forward
<1> QED BY <1>1, <1>2, <1>3, ForwardStep

\* Creating a job issues the next id and moves the others forward.
LEMMA CreationAdvances ==
  ASSUME IInv, IInv', NEW input \in Inputs, Accepted(input), InsertJob(input),
         UNCHANGED cleanup
  PROVE  Lifecycle!Next
<1> DEFINE base == [j \in DOMAIN jobs \cup {nextId} |->
                      IF j = nextId THEN NewJob(input) ELSE jobs[j]]
<1>1. nextId \in JobIds /\ nextId \notin DOMAIN jobs /\ nextId' = nextId + 1
  BY DEF IInv, TypeOK, InsertJob, JobIds
<1>2. /\ DOMAIN base = DOMAIN jobs \cup {nextId}
      /\ base[nextId].status = "QUEUED"
      /\ \A j \in DOMAIN jobs : base[j] = jobs[j]
  BY <1>1 DEF NewJob
<1>3. Good(base)
  BY <1>1, NewRowGood
<1> HIDE DEF base
<1>4. /\ DOMAIN jobs' = DOMAIN base
      /\ \A j \in DOMAIN base :
           \/ jobs'[j].status = base[j].status
           \/ base[j].status = "QUEUED" /\ jobs'[j].status = "ASSIGNED"
           \/ base[j].status = "RUNNING" /\ jobs'[j].status = "FAILED"
  <2>1. jobs' \in runScheduler(base, online, metrics)
    BY DEF InsertJob, base
  <2> QED BY <1>3, <2>1, SchedulerMoves
<1> SUFFICES ASSUME NEW j \in JobIds, LifecycleState'[j] # LifecycleState[j]
             PROVE  Lifecycle!Move(j)
  BY DEF Lifecycle!Next, Lifecycle!Advance, Released
<1>5. CASE j = nextId
  <2>1. LifecycleState[j] = "NEW" /\ LifecycleState'[j] = jobs'[j].status
    BY <1>1, <1>2, <1>4, <1>5 DEF LifecycleState, JobIds
  <2>2. jobs'[j].status \in {"QUEUED", "ASSIGNED"}
    BY <1>2, <1>4, <1>5
  <2>3. j \notin Released
    BY <1>1, <1>5 DEF Released, IInv, TypeOK
  <2>4. \A i \in JobIds : i < j => LifecycleState[i] # "NEW"
    BY <1>5, StateOf, StatusNotNew DEF IInv, TypeOK, JobIds
  <2> QED BY <2>1, <2>2, <2>3, <2>4 DEF Lifecycle!Move, Lifecycle!Edges, Lifecycle!Shortcuts
<1>6. CASE j # nextId
  <2>1. j \in DOMAIN jobs
    BY <1>1, <1>2, <1>4, <1>6 DEF LifecycleState, JobIds, IInv, TypeOK
  <2>2. LifecycleState[j] = jobs[j].status /\ LifecycleState'[j] = jobs'[j].status
    BY <1>1, <1>2, <1>4, <2>1 DEF LifecycleState, JobIds, IInv, TypeOK
  <2>3. <<jobs[j].status, jobs'[j].status>> \in ForwardMoves
    BY <1>2, <1>4, <2>1, <2>2 DEF ForwardMoves
  <2> QED BY <2>1, <2>2, <2>3, ForwardStep
<1> QED BY <1>5, <1>6

\* A scheduler run alone moves jobs forward.
LEMMA RescheduleAdvances ==
  ASSUME IInv, IInv', jobs' \in runScheduler(jobs, online, metrics),
         UNCHANGED <<nextId, cleanup>>
  PROVE  Lifecycle!Next
<1>1. /\ DOMAIN jobs' = DOMAIN jobs
      /\ \A j \in DOMAIN jobs : Forward(jobs[j].status, jobs'[j].status)
  BY IInvGood, SchedulerMoves DEF Forward, ForwardMoves
<1> QED BY <1>1, ForwardAdvances

\* A retry takes one FAILED, unreleased job back; the others move forward.
LEMMA RetryAdvances ==
  ASSUME IInv, IInv', NEW id \in DOMAIN jobs, RetryJob(id)
  PROVE  Lifecycle!Next
<1>1. UNCHANGED <<nextId, cleanup>>
  BY DEF RetryJob
<1>2. CASE jobs' \in runScheduler(jobs, online, metrics)
  BY <1>1, <1>2, RescheduleAdvances
<1>3. CASE /\ jobs[id].status = "FAILED"
           /\ ~Claimed(id)
           /\ jobs[id].retry_count < MaxRetries
           /\ jobs' \in runScheduler([jobs EXCEPT ![id] = Requeued(@)], online, metrics)
  <2> DEFINE base == [jobs EXCEPT ![id] = Requeued(@)]
  <2>1. /\ DOMAIN base = DOMAIN jobs
        /\ base[id].status = "QUEUED"
        /\ \A j \in DOMAIN jobs : j # id => base[j] = jobs[j]
    BY DEF Requeued, IInv, TypeOK, JobRow
  <2>2. Good(base)
    BY <1>3, RequeueGood
  <2> HIDE DEF base
  <2>3. /\ DOMAIN jobs' = DOMAIN base
        /\ \A j \in DOMAIN base :
             \/ jobs'[j].status = base[j].status
             \/ base[j].status = "QUEUED" /\ jobs'[j].status = "ASSIGNED"
             \/ base[j].status = "RUNNING" /\ jobs'[j].status = "FAILED"
    <3>1. jobs' \in runScheduler(base, online, metrics)
      BY <1>3 DEF base
    <3> QED BY <2>2, <3>1, SchedulerMoves
  <2> SUFFICES ASSUME NEW j \in JobIds, LifecycleState'[j] # LifecycleState[j]
               PROVE  Lifecycle!Move(j)
    BY <1>1 DEF Lifecycle!Next, Lifecycle!Advance, Released
  <2>4. j \in DOMAIN jobs
    BY <1>1, <2>1, <2>3 DEF LifecycleState
  <2>5. LifecycleState[j] = jobs[j].status /\ LifecycleState'[j] = jobs'[j].status
    BY <1>1, <2>1, <2>3, <2>4, StateOf DEF LifecycleState
  <2>6. CASE j = id
    <3>1. jobs[j].status = "FAILED" /\ jobs'[j].status \in {"QUEUED", "ASSIGNED"}
      BY <1>3, <2>1, <2>3, <2>6
    <3>2. j \notin Released
      BY <1>3, <2>6 DEF Released, Claimed
    <3> QED BY <2>5, <3>1, <3>2 DEF Lifecycle!Move, Lifecycle!Edges, Lifecycle!Shortcuts
  <2>7. CASE j # id
    <3>1. <<jobs[j].status, jobs'[j].status>> \in ForwardMoves
      BY <2>1, <2>3, <2>4, <2>5, <2>7 DEF ForwardMoves
    <3> QED BY <2>4, <2>5, <3>1, ForwardStep
  <2> QED BY <2>6, <2>7
<1> QED BY <1>2, <1>3 DEF RetryJob

\* A cancellation, a result and a lost lease touch one active job.
LEMMA EditAdvances ==
  ASSUME IInv, IInv', NEW id \in DOMAIN jobs, DOMAIN jobs' = DOMAIN jobs,
         \A j \in DOMAIN jobs : j # id => jobs'[j] = jobs[j],
         Forward(jobs[id].status, jobs'[id].status),
         UNCHANGED <<nextId, cleanup>>
  PROVE  Lifecycle!Next
<1>1. \A j \in DOMAIN jobs : Forward(jobs[j].status, jobs'[j].status)
  BY DEF Forward
<1> QED BY <1>1, ForwardAdvances

LEMMA CancelAdvances ==
  ASSUME IInv, IInv', NEW id \in DOMAIN jobs, CancelJob(id)
  PROVE  Lifecycle!Next
<1>1. /\ DOMAIN jobs' = DOMAIN jobs
      /\ \A j \in DOMAIN jobs : j # id => jobs'[j] = jobs[j]
      /\ jobs'[id].status = "CANCELLED"
      /\ UNCHANGED <<nextId, cleanup>>
  BY DEF CancelJob, IInv, TypeOK, JobRow
<1>2. jobs[id].status \in {"QUEUED", "ASSIGNED", "RUNNING"}
  BY DEF CancelJob, TERMINAL_STATUSES, IInv, TypeOK, JobRow, Statuses
<1>3. Forward(jobs[id].status, jobs'[id].status)
  BY <1>1, <1>2 DEF Forward, ForwardMoves
<1> QED BY <1>1, <1>3, EditAdvances

LEMMA ResultAdvances ==
  ASSUME IInv, IInv', NEW w \in Workers, NEW id \in DOMAIN jobs, NEW ok \in BOOLEAN,
         JobResult(w, id, ok)
  PROVE  Lifecycle!Next
<1>1. /\ DOMAIN jobs' = DOMAIN jobs
      /\ \A j \in DOMAIN jobs : j # id => jobs'[j] = jobs[j]
      /\ jobs'[id].status \in {"COMPLETED", "FAILED"}
      /\ UNCHANGED <<nextId, cleanup>>
  BY DEF JobResult, IInv, TypeOK, JobRow
<1>2. jobs[id].status = "RUNNING"
  BY DEF JobResult, isJobStillRunning
<1>3. Forward(jobs[id].status, jobs'[id].status)
  BY <1>1, <1>2 DEF Forward, ForwardMoves
<1> QED BY <1>1, <1>3, EditAdvances

LEMMA LeaseAdvances ==
  ASSUME IInv, IInv', NEW id \in DOMAIN jobs, LeaseExpires(id)
  PROVE  Lifecycle!Next
<1>1. /\ DOMAIN jobs' = DOMAIN jobs
      /\ \A j \in DOMAIN jobs : j # id => jobs'[j] = jobs[j]
      /\ jobs'[id].status = jobs[id].status
      /\ UNCHANGED <<nextId, cleanup>>
  BY DEF LeaseExpires, IInv, TypeOK, JobRow
<1> QED BY <1>1, EditAdvances DEF Forward

\* Removing terminal rows ends their jobs' lives and releases nothing more.
LEMMA RemovalAdvances ==
  ASSUME IInv, IInv', NEW ids, ids \subseteq Terminal, RemoveRows(ids), UNCHANGED nextId
  PROVE  Lifecycle!Next
<1>1. /\ ids \subseteq DOMAIN jobs
      /\ \A j \in ids : jobs[j].status \in TERMINAL_STATUSES
  BY DEF Terminal
<1>2. /\ DOMAIN jobs' = DOMAIN jobs \ ids
      /\ \A j \in DOMAIN jobs' : jobs'[j] = jobs[j]
      /\ cleanup' = retainCleanup(ids)
  BY DEF RemoveRows
<1>3. Released' = Released
  <2>1. /\ DOMAIN cleanup \subseteq DOMAIN cleanup'
        /\ \A j \in DOMAIN cleanup' :
             IF j \in ids /\ jobs[j].input.upload
             THEN cleanup'[j] = [status |-> jobs[j].status, claimed |-> Claimed(j)]
             ELSE j \in DOMAIN cleanup /\ cleanup'[j] = cleanup[j]
    BY <1>1, <1>2, RetainRows
  <2>2. ASSUME NEW j \in DOMAIN cleanup' PROVE cleanup'[j].claimed <=> Claimed(j)
    <3>1. CASE j \in ids /\ jobs[j].input.upload
      <4>1. cleanup'[j] = [status |-> jobs[j].status, claimed |-> Claimed(j)]
        BY <2>1, <3>1
      <4>2. cleanup'[j].claimed = Claimed(j)
        BY <4>1
      <4> QED BY <4>2, Zenon
    <3>2. CASE ~(j \in ids /\ jobs[j].input.upload)
      BY <2>1, <3>2, Zenon DEF Claimed
    <3> QED BY <3>1, <3>2
  <2> QED BY <2>1, <2>2 DEF Released, Claimed
<1> SUFFICES ASSUME NEW j \in JobIds, LifecycleState'[j] # LifecycleState[j]
             PROVE  Lifecycle!Move(j)
  BY <1>3 DEF Lifecycle!Next, Lifecycle!Advance
<1>4. j \in ids
  BY <1>2 DEF LifecycleState
<1>5. LifecycleState[j] = jobs[j].status /\ LifecycleState'[j] = "REMOVED"
  BY <1>1, <1>2, <1>4, StateOf DEF LifecycleState
<1>6. jobs[j].status \in TERMINAL_STATUSES
  BY <1>1, <1>4
<1> QED BY <1>5, <1>6
        DEF Lifecycle!Move, Lifecycle!Edges, Lifecycle!Shortcuts, TERMINAL_STATUSES

\* A claim releases one settled or removed job.
LEMMA ClaimReleases ==
  ASSUME IInv, IInv', NEW id \in JobIds, ClaimCleanup(id)
  PROVE  Lifecycle!Next
<1>1. UNCHANGED <<jobs, nextId>>
  BY DEF ClaimCleanup, jobVars
<1>2. LifecycleState' = LifecycleState
  BY <1>1 DEF LifecycleState
<1>3. CASE /\ id \in DOMAIN jobs
           /\ jobs[id].input.upload
           /\ jobs[id].status \in Settled
           /\ cleanup' = [retainCleanup({id}) EXCEPT ![id].claimed = TRUE]
  <2> DEFINE kept == retainCleanup({id})
  <2>1. /\ DOMAIN kept = DOMAIN cleanup \cup {id}
        /\ \A j \in DOMAIN kept : j # id => j \in DOMAIN cleanup /\ kept[j] = cleanup[j]
        /\ kept[id] = [status |-> jobs[id].status, claimed |-> Claimed(id)]
    BY <1>3 DEF retainCleanup
  <2> HIDE DEF kept
  <2>2. /\ DOMAIN cleanup' = DOMAIN kept
        /\ \A j \in DOMAIN kept : j # id => cleanup'[j] = kept[j]
        /\ cleanup'[id] = [kept[id] EXCEPT !.claimed = TRUE]
    BY <1>3, <2>1 DEF kept
  <2>3. cleanup'[id].claimed
    BY <2>1, <2>2
  <2>4. Released' = Released \cup {id}
    BY <2>1, <2>2, <2>3 DEF Released
  <2>5. LifecycleState[id] \in {"COMPLETED", "FAILED"}
    BY <1>3, StateOf DEF Settled
  <2> QED BY <1>2, <2>4, <2>5 DEF Lifecycle!Next, Lifecycle!Release
<1>4. CASE /\ id \in DOMAIN cleanup \ DOMAIN jobs
           /\ cleanup[id].status \in Settled
           /\ cleanup' = [cleanup EXCEPT ![id].claimed = TRUE]
  <2>1. /\ DOMAIN cleanup' = DOMAIN cleanup
        /\ \A j \in DOMAIN cleanup : j # id => cleanup'[j] = cleanup[j]
        /\ cleanup'[id] = [cleanup[id] EXCEPT !.claimed = TRUE]
        /\ cleanup[id] \in CleanupRow
    BY <1>4 DEF IInv, TypeOK
  <2>2. cleanup'[id].claimed
    BY <2>1 DEF CleanupRow
  <2>3. Released' = Released \cup {id}
    BY <1>4, <2>1, <2>2 DEF Released
  <2>4. LifecycleState[id] = "REMOVED"
    BY <1>4, StateOf DEF IInv, TypeOK
  <2> QED BY <1>2, <2>3, <2>4 DEF Lifecycle!Next, Lifecycle!Release
<1> QED BY <1>3, <1>4 DEF ClaimCleanup

------------------------------------------------------------------------------
(* The theorem.                                                            *)

\* No id is issued and no file released at the start.
LEMMA InitLives == Init => Lifecycle!Init
<1> SUFFICES ASSUME Init PROVE Lifecycle!Init
  OBVIOUS
<1>1. LifecycleState = [j \in JobIds |-> "NEW"]
  BY EngineAssumption DEF Init, LifecycleState, JobIds
<1>2. Released = {}
  BY DEF Init, Released, EmptyTable
<1> QED BY <1>1, <1>2 DEF Lifecycle!Init

\* Every step of the engine is a step of the life cycle or a stutter.
LEMMA StepLives ==
  IInv /\ IInv' /\ [Next]_vars => [Lifecycle!Next]_<<LifecycleState, Released>>
<1> SUFFICES ASSUME IInv, IInv', [Next]_vars
             PROVE  Lifecycle!Next \/ UNCHANGED <<LifecycleState, Released>>
  OBVIOUS
<1>1. CASE UserStep
  <2>1. ASSUME NEW input \in Inputs, CreateJob(input) PROVE Lifecycle!Next
    BY <2>1, CreationAdvances DEF CreateJob
  <2>2. ASSUME NEW key \in Keys, NEW input \in Inputs, CreateJobOnce(key, input)
        PROVE  Lifecycle!Next
    BY <2>2, CreationAdvances DEF CreateJobOnce
  <2>3. ASSUME NEW key \in Keys, NEW input \in Inputs, RepeatCreate(key, input)
        PROVE  Lifecycle!Next
    BY <2>3, RescheduleAdvances DEF RepeatCreate
  <2>4. ASSUME NEW id \in DOMAIN jobs, CancelJob(id) PROVE Lifecycle!Next
    BY <2>4, CancelAdvances
  <2>5. ASSUME NEW id \in DOMAIN jobs, RetryJob(id) PROVE Lifecycle!Next
    BY <2>5, RetryAdvances
  <2>6. ASSUME NEW id \in DOMAIN jobs, DeleteJob(id) PROVE Lifecycle!Next
    <3>1. {id} \subseteq Terminal /\ RemoveRows({id}) /\ UNCHANGED nextId
      BY <2>6 DEF DeleteJob, Terminal
    <3> QED BY <3>1, RemovalAdvances
  <2>7. CASE ClearHistory
    <3>1. RemoveRows(Terminal) /\ UNCHANGED nextId
      BY <2>7 DEF ClearHistory
    <3> QED BY <3>1, RemovalAdvances
  <2>8. ASSUME NEW id \in JobIds, ClaimCleanup(id) PROVE Lifecycle!Next
    BY <2>8, ClaimReleases
  <2> QED BY <1>1, <2>1, <2>2, <2>3, <2>4, <2>5, <2>6, <2>7, <2>8 DEF UserStep
<1>2. CASE AgentStep
  <2>1. ASSUME NEW w \in Workers, NEW report \in Reports,
               NEW running \in SUBSET (1..(nextId - 1)), Heartbeat(w, report, running)
        PROVE  Lifecycle!Next
    <3>1. UNCHANGED <<nextId, cleanup>>
      BY <2>1 DEF Heartbeat
    <3> QED BY <2>1, <3>1, HeartbeatMoves, ForwardAdvances
  <2>2. ASSUME NEW w \in Workers, NEW id \in DOMAIN jobs, NEW ok \in BOOLEAN,
               JobResult(w, id, ok)
        PROVE  Lifecycle!Next
    BY <2>2, ResultAdvances
  <2> QED BY <1>2, <2>1, <2>2 DEF AgentStep
<1>3. CASE \E id \in DOMAIN jobs : LeaseExpires(id)
  BY <1>3, LeaseAdvances
<1>4. CASE UNCHANGED <<jobs, nextId, cleanup>>
  BY <1>4 DEF LifecycleState, Released
<1>5. Environment => (\E id \in DOMAIN jobs : LeaseExpires(id))
                       \/ UNCHANGED <<jobs, nextId, cleanup>>
  BY DEF Environment, SetJobsEnabled, GoesQuiet, ServerRestart, jobVars
<1>6. CASE UNCHANGED vars
  BY <1>4, <1>6 DEF vars
<1> QED BY <1>1, <1>2, <1>3, <1>4, <1>5, <1>6 DEF Next

\* The engine implements the life cycle, for any number of workers, jobs and
\* keys: no request, result, lost lease or scheduler run takes a job along a
\* transition JobLifecycle.tla does not have.
THEOREM LifecycleImplemented == Spec => LifecycleSpec
<1>1. Init => Lifecycle!Init
  BY InitLives
<1>2. IInv /\ IInv' /\ [Next]_vars => [Lifecycle!Next]_<<LifecycleState, Released>>
  BY StepLives
<1> QED BY <1>1, <1>2, Inductive, PTL DEF Spec, LifecycleSpec, Lifecycle!Spec

------------------------------------------------------------------------------
(* Proof that JobEngine implements KeyedJobs for the keys of uploads.      *)
(*                                                                         *)
(* What the life cycle says of the job's id is most of it.  The rest is    *)
(* that a request record never changes, and that a job of an upload which  *)
(* is gone has left its status in a cleanup record (Archived).             *)

Archived ==
  \A k \in UploadKeys : requests[k].job \notin DOMAIN jobs => requests[k].job \in DOMAIN cleanup

\* What a step leaves of the two kinds of records.
RequestsKept ==
  \A k \in DOMAIN requests : k \in DOMAIN requests' /\ requests'[k] = requests[k]

RequestsNew ==
  \A k \in DOMAIN requests' \ DOMAIN requests :
    /\ requests'[k].job = nextId /\ nextId \in DOMAIN jobs'
    /\ \A m \in DOMAIN requests' \ DOMAIN requests : m = k

CleanupKept ==
  /\ \A j \in DOMAIN jobs \ DOMAIN jobs' : jobs[j].input.upload =>
       j \in DOMAIN cleanup' /\ cleanup'[j].status = jobs[j].status
  /\ \A j \in DOMAIN cleanup \ DOMAIN jobs :
       j \in DOMAIN cleanup' /\ cleanup'[j].status = cleanup[j].status

RecordsKept == RequestsKept /\ RequestsNew /\ CleanupKept

\* A handler that writes neither kind of record and removes no job.
LEMMA UntouchedKeeps ==
  ASSUME UNCHANGED <<requests, cleanup>>, DOMAIN jobs \subseteq DOMAIN jobs'
  PROVE  RecordsKept
BY DEF RecordsKept, RequestsKept, RequestsNew, CleanupKept

\* A scheduler run keeps the jobs there are.
LEMMA RunKeepsJobs ==
  ASSUME NEW tbl, NEW on, NEW met, NEW new \in runScheduler(tbl, on, met)
  PROVE  DOMAIN new = DOMAIN tbl
BY DEF runScheduler, Assign, failStaleRunningJobs

LEMMA InsertKeepsJobs ==
  ASSUME NEW input \in Inputs, InsertJob(input)
  PROVE  DOMAIN jobs' = DOMAIN jobs \cup {nextId}
<1> DEFINE base == [j \in DOMAIN jobs \cup {nextId} |->
                      IF j = nextId THEN NewJob(input) ELSE jobs[j]]
<1>1. jobs' \in runScheduler(base, online, metrics)
  BY DEF InsertJob
<1>2. DOMAIN base = DOMAIN jobs \cup {nextId}
  OBVIOUS
<1> HIDE DEF base
<1> QED BY <1>1, <1>2, RunKeepsJobs

LEMMA CreateOnceKeeps ==
  ASSUME IInv, NEW key \in Keys, NEW input \in Inputs, CreateJobOnce(key, input)
  PROVE  RecordsKept
<1>1. /\ DOMAIN requests' = DOMAIN requests \cup {key}
      /\ requests'[key] = [input |-> input, job |-> nextId]
      /\ \A k \in DOMAIN requests : k # key /\ requests'[k] = requests[k]
      /\ UNCHANGED cleanup
  BY DEF CreateJobOnce
<1>2. DOMAIN jobs' = DOMAIN jobs \cup {nextId}
  BY InsertKeepsJobs DEF CreateJobOnce
<1> QED BY <1>1, <1>2 DEF RecordsKept, RequestsKept, RequestsNew, CleanupKept

LEMMA RemovalKeeps ==
  ASSUME IInv, NEW ids, ids \subseteq Terminal, RemoveRows(ids), UNCHANGED requests
  PROVE  RecordsKept
<1>1. ids \subseteq DOMAIN jobs
  BY DEF Terminal
<1>2. /\ DOMAIN jobs' = DOMAIN jobs \ ids
      /\ cleanup' = [j \in DOMAIN cleanup \cup {i \in ids : jobs[i].input.upload} |->
                      IF j \in {i \in ids : jobs[i].input.upload}
                      THEN [status |-> jobs[j].status, claimed |-> Claimed(j)] ELSE cleanup[j]]
  BY DEF RemoveRows, retainCleanup
<1>3. CleanupKept
  BY <1>1, <1>2 DEF CleanupKept
<1> QED BY <1>3 DEF RecordsKept, RequestsKept, RequestsNew

LEMMA ClaimKeeps ==
  ASSUME IInv, NEW id \in JobIds, ClaimCleanup(id)
  PROVE  RecordsKept
<1>1. UNCHANGED <<jobs, nextId, requests>>
  BY DEF ClaimCleanup, jobVars
<1>2. \A j \in DOMAIN cleanup \ DOMAIN jobs :
        j \in DOMAIN cleanup' /\ cleanup'[j].status = cleanup[j].status
  <2>1. CASE id \in DOMAIN jobs /\ cleanup' = [retainCleanup({id}) EXCEPT ![id].claimed = TRUE]
    BY <2>1 DEF retainCleanup
  <2>2. CASE cleanup' = [cleanup EXCEPT ![id].claimed = TRUE]
    BY <2>2 DEF IInv, TypeOK, CleanupRow
  <2>3. \/ id \in DOMAIN jobs /\ cleanup' = [retainCleanup({id}) EXCEPT ![id].claimed = TRUE]
        \/ cleanup' = [cleanup EXCEPT ![id].claimed = TRUE]
    BY DEF ClaimCleanup
  <2> QED BY <2>1, <2>2, <2>3
<1> QED BY <1>1, <1>2 DEF RecordsKept, RequestsKept, RequestsNew, CleanupKept

\* Every step keeps the records.
LEMMA StepKeeps == IInv /\ [Next]_vars => RecordsKept
<1> SUFFICES ASSUME IInv, [Next]_vars PROVE RecordsKept
  OBVIOUS
<1>1. CASE UserStep
  <2>1. ASSUME NEW input \in Inputs, CreateJob(input) PROVE RecordsKept
    BY <2>1, InsertKeepsJobs, UntouchedKeeps DEF CreateJob
  <2>2. ASSUME NEW key \in Keys, NEW input \in Inputs, CreateJobOnce(key, input)
        PROVE  RecordsKept
    BY <2>2, CreateOnceKeeps
  <2>3. ASSUME NEW key \in Keys, NEW input \in Inputs, RepeatCreate(key, input)
        PROVE  RecordsKept
    BY <2>3, RunKeepsJobs, UntouchedKeeps DEF RepeatCreate
  <2>4. ASSUME NEW id \in DOMAIN jobs, CancelJob(id) PROVE RecordsKept
    BY <2>4, UntouchedKeeps DEF CancelJob
  <2>5. ASSUME NEW id \in DOMAIN jobs, RetryJob(id) PROVE RecordsKept
    <3>1. DOMAIN [jobs EXCEPT ![id] = Requeued(@)] = DOMAIN jobs
      OBVIOUS
    <3> QED BY <2>5, <3>1, RunKeepsJobs, UntouchedKeeps DEF RetryJob
  <2>6. ASSUME NEW id \in DOMAIN jobs, DeleteJob(id) PROVE RecordsKept
    <3>1. {id} \subseteq Terminal /\ RemoveRows({id}) /\ UNCHANGED requests
      BY <2>6 DEF DeleteJob, Terminal
    <3> QED BY <3>1, RemovalKeeps
  <2>7. CASE ClearHistory
    <3>1. RemoveRows(Terminal) /\ UNCHANGED requests
      BY <2>7 DEF ClearHistory
    <3> QED BY <3>1, RemovalKeeps
  <2>8. ASSUME NEW id \in JobIds, ClaimCleanup(id) PROVE RecordsKept
    BY <2>8, ClaimKeeps
  <2> QED BY <1>1, <2>1, <2>2, <2>3, <2>4, <2>5, <2>6, <2>7, <2>8 DEF UserStep
<1>2. CASE AgentStep
  <2>1. ASSUME NEW w \in Workers, NEW report \in Reports,
               NEW running \in SUBSET (1..(nextId - 1)), Heartbeat(w, report, running)
        PROVE  RecordsKept
    <3>1. UNCHANGED <<requests, cleanup>>
      BY <2>1 DEF Heartbeat
    <3> QED BY <2>1, <3>1, HeartbeatMoves, UntouchedKeeps
  <2>2. ASSUME NEW w \in Workers, NEW id \in DOMAIN jobs, NEW ok \in BOOLEAN,
               JobResult(w, id, ok)
        PROVE  RecordsKept
    BY <2>2, UntouchedKeeps DEF JobResult
  <2> QED BY <1>2, <2>1, <2>2 DEF AgentStep
<1>3. CASE Environment
  BY <1>3, UntouchedKeeps
     DEF Environment, SetJobsEnabled, GoesQuiet, ServerRestart, LeaseExpires, jobVars
<1>4. CASE UNCHANGED vars
  BY <1>4, UntouchedKeeps DEF vars
<1> QED BY <1>1, <1>2, <1>3, <1>4 DEF Next

Folded(status) == IF status \in TERMINAL_STATUSES THEN status ELSE "ACTIVE"

SeenRows == [id: JobIds, status: {"ACTIVE"} \cup TERMINAL_STATUSES, live: BOOLEAN, claimed: BOOLEAN]

\* What the owner of a key sees, by the life cycle of the job's id.
SeenRight ==
  \A k \in UploadKeys :
    LET j == requests[k].job
        seen == KeyedJob[k]
    IN  /\ k \in Keys /\ j \in JobIds /\ j < nextId
        /\ seen \in SeenRows /\ seen.id = j
        /\ seen.live <=> j \in DOMAIN jobs
        /\ seen.claimed <=> j \in Released
        /\ j \in DOMAIN jobs =>
             /\ jobs[j].input.upload
             /\ LifecycleState[j] = jobs[j].status /\ jobs[j].status \notin {"NEW", "REMOVED"}
             /\ seen.status = Folded(jobs[j].status)
        /\ j \notin DOMAIN jobs =>
             LifecycleState[j] = "REMOVED" /\ seen.status = Folded(cleanup[j].status)

LEMMA SeenOf == IInv => SeenRight
<1> SUFFICES ASSUME IInv, NEW k \in UploadKeys
             PROVE  LET j == requests[k].job
                        seen == KeyedJob[k]
                    IN  /\ k \in Keys /\ j \in JobIds /\ j < nextId
                        /\ seen \in SeenRows /\ seen.id = j
                        /\ seen.live <=> j \in DOMAIN jobs
                        /\ seen.claimed <=> j \in Released
                        /\ j \in DOMAIN jobs =>
                             /\ jobs[j].input.upload
                             /\ LifecycleState[j] = jobs[j].status
                             /\ jobs[j].status \notin {"NEW", "REMOVED"}
                             /\ seen.status = Folded(jobs[j].status)
                        /\ j \notin DOMAIN jobs =>
                             /\ LifecycleState[j] = "REMOVED"
                             /\ seen.status = Folded(cleanup[j].status)
  BY DEF SeenRight
<1> DEFINE j == requests[k].job
           seen == KeyedJob[k]
           status == IF j \in DOMAIN jobs THEN jobs[j].status ELSE cleanup[j].status
<1>1. k \in Keys /\ k \in DOMAIN requests /\ requests[k].input.upload /\ j \in JobIds /\ j < nextId
  BY DEF UploadKeys, IInv, TypeOK, RequestRow, OneJobPerKey
<1>2. seen = [id |-> j, status |-> Folded(status), live |-> j \in DOMAIN jobs,
              claimed |-> j \in Released]
  BY <1>1 DEF KeyedJob, JobOfKey, Folded
<1>3. Folded(status) \in {"ACTIVE"} \cup TERMINAL_STATUSES
  BY DEF Folded
<1>4. seen \in SeenRows
  BY <1>1, <1>2, <1>3 DEF SeenRows
<1> HIDE DEF seen, status
<1>5. /\ seen.id = j /\ seen.status = Folded(status)
      /\ seen.live <=> j \in DOMAIN jobs
      /\ seen.claimed <=> j \in Released
  BY <1>2
<1> USE DEF seen, status
<1>6. /\ j \in DOMAIN jobs => LifecycleState[j] = jobs[j].status
      /\ j \notin DOMAIN jobs => LifecycleState[j] = "REMOVED"
  BY <1>1, StateOf
<1>7. j \in DOMAIN jobs => jobs[j].input.upload /\ jobs[j].status \notin {"NEW", "REMOVED"}
  BY <1>1, StatusNotNew DEF IInv, OneJobPerKey
<1> QED BY <1>1, <1>4, <1>5, <1>6, <1>7

LEMMA SeenNext == IInv' => SeenRight'
BY SeenOf, PTL

\* What makes one row seen of another.
LEMMA SeenMoves ==
  ASSUME NEW old \in SeenRows, NEW new \in SeenRows, new.id = old.id
  PROVE  /\ /\ new.status = old.status
            /\ new.live <=> old.live
            /\ new.claimed <=> old.claimed
            => new = old
         /\ new.status = old.status /\ (new.live <=> old.live) /\ new.claimed
            => new = [old EXCEPT !.claimed = TRUE]
         /\ new.status = old.status /\ ~ new.live /\ (new.claimed <=> old.claimed)
            => new = [old EXCEPT !.live = FALSE]
         /\ (new.live <=> old.live) /\ (new.claimed <=> old.claimed)
            => new = [old EXCEPT !.status = new.status]
<1>1. ASSUME new.status = old.status, new.live <=> old.live, new.claimed <=> old.claimed
      PROVE  new = old
  BY <1>1 DEF SeenRows
<1>2. ASSUME new.status = old.status, new.live <=> old.live, new.claimed
      PROVE  new = [old EXCEPT !.claimed = TRUE]
  BY <1>2 DEF SeenRows
<1>3. ASSUME new.status = old.status, ~ new.live, new.claimed <=> old.claimed
      PROVE  new = [old EXCEPT !.live = FALSE]
  BY <1>3 DEF SeenRows
<1>4. ASSUME new.live <=> old.live, new.claimed <=> old.claimed
      PROVE  new = [old EXCEPT !.status = new.status]
  BY <1>4 DEF SeenRows
<1> QED BY <1>1, <1>2, <1>3, <1>4

Empty == [id |-> NoJob, status |-> "none", live |-> FALSE, claimed |-> FALSE]

\* Any other key of the table of keys is seen as never used.
LEMMA EmptyOf == \A k \in Keys \ UploadKeys : KeyedJob[k] = Empty
BY DEF KeyedJob, Empty

\* A key that is new stands for the job that was just created.
LEMMA NewKeyCreates ==
  ASSUME IInv, IInv', RecordsKept, [Lifecycle!Next]_<<LifecycleState, Released>>,
         NEW k \in UploadKeys', k \notin DOMAIN requests
  PROVE  Keyed!Create(k)
<1> DEFINE j == nextId
           seen == KeyedJob'[k]
<1>1. /\ k \in Keys /\ k \in DOMAIN requests' /\ requests'[k].job = j /\ j \in DOMAIN jobs'
      /\ \A m \in DOMAIN requests' : requests'[m].job = j => m = k
  BY DEF UploadKeys, RecordsKept, RequestsNew, IInv, TypeOK, OneJobPerKey
<1>2. j \in JobIds /\ j # NoJob /\ LifecycleState[j] = "NEW"
  BY <1>1, StateOf DEF IInv, TypeOK, RequestRow, JobIds, NoJob
<1>3. /\ LifecycleState'[j] = jobs'[j].status /\ jobs'[j].status # "NEW"
      /\ seen \in SeenRows /\ seen.id = j /\ seen.live /\ seen.status = Folded(jobs'[j].status)
      /\ seen.claimed <=> j \in Released'
  BY <1>1, SeenNext DEF SeenRight
<1>4. Lifecycle!Advance /\ Lifecycle!Move(j)
  BY <1>2, <1>3 DEF Lifecycle!Next, Lifecycle!Advance, Lifecycle!Release
<1>5. jobs'[j].status \in {"QUEUED", "ASSIGNED"} /\ j \notin Released'
  <2>1. j \notin Released
    BY <1>2 DEF Released, IInv, TypeOK
  <2>2. Released' = Released
    BY <1>4 DEF Lifecycle!Advance
  <2>3. <<"NEW", jobs'[j].status>> \in Lifecycle!Edges \cup Lifecycle!Shortcuts
    BY <1>2, <1>3, <1>4 DEF Lifecycle!Move
  <2> QED BY <2>1, <2>2, <2>3 DEF Lifecycle!Edges, Lifecycle!Shortcuts
<1>6. seen.status = "ACTIVE" /\ ~ seen.claimed
  BY <1>3, <1>5 DEF Folded, TERMINAL_STATUSES
<1>7. seen = [id |-> seen.id, status |-> "ACTIVE", live |-> TRUE, claimed |-> FALSE]
  BY <1>3, <1>6 DEF SeenRows
<1>8. KeyedJob[k] = Empty
  BY <1>1, EmptyOf DEF UploadKeys
<1>9. ASSUME NEW m \in Keys \ {k} PROVE KeyedJob'[m].id # j
  <2>1. CASE m \in UploadKeys'
    <3>1. KeyedJob'[m].id = requests'[m].job
      BY <2>1, SeenNext DEF SeenRight
    <3> QED BY <1>1, <2>1, <3>1 DEF UploadKeys
  <2>2. CASE m \notin UploadKeys'
    <3>1. KeyedJob'[m] = Empty
      BY <2>2 DEF KeyedJob, Empty
    <3> QED BY <1>2, <3>1 DEF Empty
  <2> QED BY <2>1, <2>2
<1> QED BY <1>2, <1>3, <1>7, <1>8, <1>9 DEF Keyed!Create, Keyed!NotCreated, Empty, NoJob

\* What a step of its job's life, a release or a removal among them, shows the
\* owner of a key.
LEMMA OldKeyMoves ==
  ASSUME IInv, IInv', Archived, RecordsKept, [Lifecycle!Next]_<<LifecycleState, Released>>,
         NEW k \in UploadKeys
  PROVE  KeyedJob'[k] = KeyedJob[k] \/ Keyed!Move(k)
<1> DEFINE j == requests[k].job
           old == KeyedJob[k]
           new == KeyedJob'[k]
           was == LifecycleState[j]
           is  == LifecycleState'[j]
<1>1. k \in UploadKeys' /\ requests'[k].job = j /\ j \in JobIds
  BY SeenOf DEF SeenRight, UploadKeys, RecordsKept, RequestsKept
<1>2. /\ old \in SeenRows /\ old.id = j
      /\ old.live <=> j \in DOMAIN jobs
      /\ old.claimed <=> j \in Released
      /\ j \in DOMAIN jobs =>
           /\ jobs[j].input.upload /\ was = jobs[j].status /\ was \notin {"NEW", "REMOVED"}
           /\ old.status = Folded(was)
      /\ j \notin DOMAIN jobs =>
           was = "REMOVED" /\ j \in DOMAIN cleanup /\ old.status = Folded(cleanup[j].status)
  BY SeenOf DEF SeenRight, Archived
<1>3. /\ new \in SeenRows /\ new.id = j
      /\ new.live <=> j \in DOMAIN jobs'
      /\ new.claimed <=> j \in Released'
      /\ j \in DOMAIN jobs' => is \notin {"NEW", "REMOVED"} /\ new.status = Folded(is)
      /\ j \notin DOMAIN jobs' => is = "REMOVED" /\ new.status = Folded(cleanup'[j].status)
  BY <1>1, SeenNext DEF SeenRight
<1>4. /\ j \in DOMAIN jobs \ DOMAIN jobs' => cleanup'[j].status = was
      /\ j \in DOMAIN cleanup \ DOMAIN jobs => cleanup'[j].status = cleanup[j].status
  BY <1>2 DEF RecordsKept, CleanupKept
<1> HIDE DEF old, new, was, is
<1>5. CASE is = was
  <2>1. /\ j \in DOMAIN jobs <=> j \in DOMAIN jobs'
        /\ new.status = old.status /\ (new.live <=> old.live)
    BY <1>2, <1>3, <1>4, <1>5
  <2>2. CASE j \in Released' <=> j \in Released
    <3>1. new = old
      BY <1>2, <1>3, <2>1, <2>2, SeenMoves
    <3> QED BY <3>1 DEF old, new
  <2>3. CASE ~ (j \in Released' <=> j \in Released)
    <3>1. j \in Released' /\ was \in {"COMPLETED", "FAILED", "REMOVED"}
      BY <1>1, <2>3 DEF was, Lifecycle!Next, Lifecycle!Advance, Lifecycle!Release
    <3>2. new = [old EXCEPT !.claimed = TRUE]
      BY <1>2, <1>3, <2>1, <3>1, SeenMoves
    <3>3. j \in DOMAIN cleanup' /\ cleanup'[j].status \in Settled
      BY <3>1 DEF Released, IInv, ReleasedStaysSettled
    <3>4. old.status \in {"COMPLETED", "FAILED"}
      BY <1>2, <1>4, <2>1, <3>1, <3>3 DEF Folded, TERMINAL_STATUSES, Settled
    <3> QED BY <3>2, <3>4 DEF old, new, Keyed!Move, Keyed!Release
  <2> QED BY <2>2, <2>3
<1>6. CASE is # was
  <2>1. Lifecycle!Move(j) /\ Released' = Released
    BY <1>1, <1>6 DEF was, is, Lifecycle!Next, Lifecycle!Advance, Lifecycle!Release
  <2>2. <<was, is>> \in Lifecycle!Edges \cup Lifecycle!Shortcuts
    BY <2>1 DEF was, is, Lifecycle!Move
  <2>3. was # "REMOVED" /\ j \in DOMAIN jobs /\ (new.claimed <=> old.claimed)
    BY <1>2, <1>3, <2>1, <2>2 DEF Lifecycle!Edges, Lifecycle!Shortcuts
  <2>4. CASE is = "REMOVED"
    <3>1. j \notin DOMAIN jobs' /\ was \in TERMINAL_STATUSES
      BY <1>3, <2>2, <2>4 DEF Lifecycle!Edges, Lifecycle!Shortcuts, TERMINAL_STATUSES
    <3>2. new.status = old.status /\ old.live /\ ~ new.live
      BY <1>2, <1>3, <1>4, <2>3, <3>1
    <3>3. new = [old EXCEPT !.live = FALSE]
      BY <1>2, <1>3, <2>3, <3>2, SeenMoves
    <3>4. old.status \in Keyed!Ended
      BY <1>2, <2>3, <3>1 DEF Folded, TERMINAL_STATUSES, Keyed!Ended
    <3> QED BY <3>2, <3>3, <3>4 DEF old, new, Keyed!Move, Keyed!Remove
  <2>5. CASE is # "REMOVED"
    <3>1. /\ old.status = Folded(was) /\ new.status = Folded(is)
          /\ old.live /\ new.live
      BY <1>2, <1>3, <2>3, <2>5
    <3>2. new = [old EXCEPT !.status = new.status]
      BY <1>2, <1>3, <2>3, <3>1, SeenMoves
    <3>3. CASE was \notin TERMINAL_STATUSES /\ is \notin TERMINAL_STATUSES
      <4>1. new = old
        BY <1>2, <1>3, <2>3, <3>1, <3>3, SeenMoves DEF Folded
      <4> QED BY <4>1 DEF old, new
    <3>4. CASE was \notin TERMINAL_STATUSES /\ is \in TERMINAL_STATUSES
      <4>1. old.status = "ACTIVE" /\ new.status \in Keyed!Ended
        BY <3>1, <3>4 DEF Folded, TERMINAL_STATUSES, Keyed!Ended
      <4> QED BY <3>2, <4>1 DEF old, new, Keyed!Move, Keyed!End
    <3>5. CASE was \in TERMINAL_STATUSES
      <4>1. was = "FAILED" /\ is \in {"QUEUED", "ASSIGNED"} /\ j \notin Released
        BY <2>1, <2>2, <2>5, <3>5
           DEF was, is, Lifecycle!Edges, Lifecycle!Shortcuts, Lifecycle!Move, TERMINAL_STATUSES
      <4>2. old.status = "FAILED" /\ new.status = "ACTIVE" /\ ~ old.claimed
        BY <1>2, <3>1, <4>1 DEF Folded, TERMINAL_STATUSES
      <4> QED BY <3>1, <3>2, <4>2 DEF old, new, Keyed!Move, Keyed!Retry
    <3> QED BY <3>3, <3>4, <3>5
  <2> QED BY <2>4, <2>5
<1> QED BY <1>5, <1>6

LEMMA ArchivedNext ==
  ASSUME IInv, IInv', Archived, RecordsKept
  PROVE  Archived'
<1> SUFFICES ASSUME NEW k \in UploadKeys', requests'[k].job \notin DOMAIN jobs'
             PROVE  requests'[k].job \in DOMAIN cleanup'
  BY DEF Archived
<1>1. k \in DOMAIN requests /\ requests'[k] = requests[k] /\ k \in UploadKeys
  BY DEF UploadKeys, RecordsKept, RequestsKept, RequestsNew
<1>2. CASE requests[k].job \in DOMAIN jobs
  <2>1. jobs[requests[k].job].input.upload
    BY <1>1, <1>2, SeenOf DEF SeenRight
  <2> QED BY <1>1, <1>2, <2>1 DEF RecordsKept, CleanupKept
<1>3. CASE requests[k].job \notin DOMAIN jobs
  BY <1>1, <1>3 DEF Archived, RecordsKept, CleanupKept
<1> QED BY <1>2, <1>3

\* Every step of the engine is a step of KeyedJobs or a stutter.
LEMMA StepKeyed ==
  Archived /\ IInv /\ IInv' /\ [Next]_vars => Archived' /\ [Keyed!Next]_KeyedJob
<1> SUFFICES ASSUME Archived, IInv, IInv', [Next]_vars
             PROVE  Archived' /\ Keyed!Next
  OBVIOUS
<1>1. RecordsKept
  BY StepKeeps
<1>2. [Lifecycle!Next]_<<LifecycleState, Released>>
  BY StepLives
<1>3. ASSUME NEW k \in Keys PROVE KeyedJob'[k] = KeyedJob[k] \/ Keyed!Move(k)
  <2>1. CASE k \in UploadKeys
    BY <1>1, <1>2, <2>1, OldKeyMoves
  <2>2. CASE k \in UploadKeys' /\ k \notin DOMAIN requests
    BY <1>1, <1>2, <2>2, NewKeyCreates DEF Keyed!Move
  <2>3. CASE k \notin UploadKeys /\ k \notin UploadKeys'
    BY <2>3 DEF KeyedJob
  <2>4. k \in UploadKeys' /\ k \in DOMAIN requests => k \in UploadKeys
    BY <1>1 DEF UploadKeys, RecordsKept, RequestsKept
  <2> QED BY <2>1, <2>2, <2>3, <2>4
<1> QED BY <1>1, <1>3, ArchivedNext DEF Keyed!Next

\* The engine implements KeyedJobs, for any constants: whoever else retries,
\* cancels, deletes or clears, and whatever the Agents report, the portal's key
\* names one job, whose files stay released once they are, and the portal is
\* told how the job ended after its row is gone (idempotency.ts, repository.ts).
THEOREM KeyedImplemented == Spec => KeyedSpec
<1>1. Init => Archived /\ Keyed!Init
  BY DEF Init, Archived, UploadKeys, EmptyTable, KeyedJob, Keyed!Init, Keyed!NotCreated, NoJob
<1>2. Archived /\ IInv /\ IInv' /\ [Next]_vars => Archived' /\ [Keyed!Next]_KeyedJob
  BY StepKeyed
<1> QED BY <1>1, <1>2, Inductive, PTL DEF Spec, KeyedSpec, Keyed!Spec
==============================================================================
