------------------------------ MODULE UploadLife ------------------------------
(***************************************************************************)
(* What the portal promises about one upload, from its first byte to the   *)
(* removal of its files: what its row says, whether its source is there,   *)
(* what its job at the engine has come to, and who reads the result.       *)
(* UploadPortal.tla implements this specification (LifeSpec there) as long *)
(* as its cleanups act on current records.                                 *)
(***************************************************************************)
EXTENDS Naturals

CONSTANTS
  Ids,         \* ids of uploads
  Size         \* the units of a file

VARIABLES
  phase,       \* per id: new, the state of its row, or removed
  stored,      \* per id: the units that are committed
  kept,        \* per id: the finished source is there
  job,         \* per id: the status of its job at the engine
  claimed,     \* per id: the engine has given its files up
  reading      \* per id: its result is being downloaded

lifeVars == <<phase, stored, kept, job, claimed, reading>>

\* A new session, in the order of ids.
Open(u) ==
  /\ phase[u] = "new" /\ \A v \in Ids : v < u => phase[v] # "new"
  /\ phase' = [phase EXCEPT ![u] = "uploading"]
  /\ UNCHANGED <<stored, kept, job, claimed, reading>>

\* What is committed only grows.
Commit(u) ==
  /\ phase[u] = "uploading"
  /\ \E n \in stored[u] + 1 .. Size : stored' = [stored EXCEPT ![u] = n]
  /\ UNCHANGED <<phase, kept, job, claimed, reading>>

\* A source is finished when all of it is committed.
Finish(u) ==
  /\ phase[u] = "uploading" /\ stored[u] = Size
  /\ kept' = [kept EXCEPT ![u] = TRUE]
  /\ UNCHANGED <<phase, stored, job, claimed, reading>>

\* From then on it is submitted, and its row says so before the engine is asked.
Forward(u) ==
  /\ \/ phase[u] = "uploading" /\ kept[u] /\ phase' = [phase EXCEPT ![u] = "ready"]
     \/ phase[u] = "ready" /\ phase' = [phase EXCEPT ![u] = "submitting"]
     \/ phase[u] = "submitting" /\ job[u] # "none" /\ phase' = [phase EXCEPT ![u] = "submitted"]
  /\ UNCHANGED <<stored, kept, job, claimed, reading>>

\* One job, and only for a submission that is under way and has its source.
CreateJob(u) ==
  /\ phase[u] = "submitting" /\ kept[u] /\ job[u] = "none"
  /\ job' = [job EXCEPT ![u] = "ACTIVE"]
  /\ UNCHANGED <<phase, stored, kept, claimed, reading>>

\* Its job ends, and a failed one may be run again until it is given up.
JobMoves(u) ==
  /\ \/ /\ job[u] = "ACTIVE"
        /\ \E end \in {"COMPLETED", "FAILED", "CANCELLED"} : job' = [job EXCEPT ![u] = end]
     \/ /\ job[u] = "FAILED" /\ ~ claimed[u]
        /\ job' = [job EXCEPT ![u] = "ACTIVE"]
  /\ UNCHANGED <<phase, stored, kept, claimed, reading>>

Claim(u) ==
  /\ job[u] \in {"COMPLETED", "FAILED"}
  /\ claimed' = [claimed EXCEPT ![u] = TRUE]
  /\ UNCHANGED <<phase, stored, kept, job, reading>>

\* Nobody needs the files: nothing was submitted, or the job is given up.
Disposable(u) ==
  /\ phase[u] = "uploading" \/ (phase[u] = "submitted" /\ claimed[u])
  /\ ~ reading[u]

RemoveSource(u) ==
  /\ Disposable(u)
  /\ kept' = [kept EXCEPT ![u] = FALSE]
  /\ UNCHANGED <<phase, stored, job, claimed, reading>>

\* The row goes last, so that no file is left without one.
Remove(u) ==
  /\ Disposable(u) /\ ~ kept[u]
  /\ phase' = [phase EXCEPT ![u] = "removed"]
  /\ stored' = [stored EXCEPT ![u] = 0]
  /\ UNCHANGED <<kept, job, claimed, reading>>

\* What is downloaded is the result of a job that the row knows.
Read(u) ==
  /\ phase[u] = "submitted" /\ job[u] = "COMPLETED"
  /\ reading' = [reading EXCEPT ![u] = TRUE]
  /\ UNCHANGED <<phase, stored, kept, job, claimed>>

\* Downloads end, when the portal dies several at once.
EndReading ==
  /\ \E us \in SUBSET Ids : reading' = [u \in Ids |-> reading[u] /\ u \notin us]
  /\ UNCHANGED <<phase, stored, kept, job, claimed>>

Init ==
  /\ phase = [u \in Ids |-> "new"] /\ stored = [u \in Ids |-> 0]
  /\ kept = [u \in Ids |-> FALSE] /\ reading = [u \in Ids |-> FALSE]
  /\ job = [u \in Ids |-> "none"] /\ claimed = [u \in Ids |-> FALSE]

Next ==
  \/ EndReading
  \/ \E u \in Ids :
       \/ Open(u) \/ Commit(u) \/ Finish(u) \/ Forward(u) \/ CreateJob(u) \/ JobMoves(u)
       \/ Claim(u) \/ RemoveSource(u) \/ Remove(u) \/ Read(u)

Spec == Init /\ [][Next]_lifeVars

\* What follows for anyone who relies on it: a source stays as long as a
\* submission or a job may still need it; a job that runs belongs to a row that
\* knows of it or will; a file belongs to a row; and a result that is read stays.
Safe ==
  \A u \in Ids :
    /\ job[u] \in {"ACTIVE", "CANCELLED"} \/ phase[u] \in {"ready", "submitting"} => kept[u]
    /\ job[u] = "ACTIVE" => phase[u] \in {"submitting", "submitted"}
    /\ kept[u] => phase[u] \notin {"new", "removed"}
    /\ reading[u] => phase[u] = "submitted" /\ job[u] # "none"
===============================================================================
