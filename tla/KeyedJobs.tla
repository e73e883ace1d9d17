------------------------------ MODULE KeyedJobs ------------------------------
(***************************************************************************)
(* What the engine promises a client that creates its jobs under           *)
(* Idempotency-Keys and releases their files: the life of the one job of a *)
(* key.  It is the interface at which the portal and the engine meet:      *)
(* JobEngine.tla implements this specification for the keys of uploads,    *)
(* and so does the small engine of UploadPortal.tla (KeyedSpec in both).   *)
(***************************************************************************)
CONSTANT Keys

VARIABLE job   \* per key: its job's id and status, whether it is listed, its files released

Ended      == {"COMPLETED", "FAILED", "CANCELLED"}
NotCreated == [id |-> 0, status |-> "none", live |-> FALSE, claimed |-> FALSE]

\* A key names one job, of its own, for ever.
Create(k) ==
  /\ job[k] = NotCreated
  /\ job'[k] = [id |-> job'[k].id, status |-> "ACTIVE", live |-> TRUE, claimed |-> FALSE]
  /\ job'[k].id # 0 /\ \A m \in Keys \ {k} : job'[m].id # job'[k].id

End(k) ==
  /\ job[k].status = "ACTIVE"
  /\ \E end \in Ended : job'[k] = [job[k] EXCEPT !.status = end]

\* Whoever retries a job finds it listed and its files not released.
Retry(k) ==
  /\ job[k].status = "FAILED" /\ job[k].live /\ ~ job[k].claimed
  /\ job'[k] = [job[k] EXCEPT !.status = "ACTIVE"]

Remove(k) ==
  /\ job[k].status \in Ended /\ job[k].live
  /\ job'[k] = [job[k] EXCEPT !.live = FALSE]

Release(k) ==
  /\ job[k].status \in {"COMPLETED", "FAILED"}
  /\ job'[k] = [job[k] EXCEPT !.claimed = TRUE]

Move(k) == Create(k) \/ End(k) \/ Retry(k) \/ Remove(k) \/ Release(k)

Init == job = [k \in Keys |-> NotCreated]

\* One run of the scheduler and one clearing of the history move many jobs.
Next == \A k \in Keys : job'[k] = job[k] \/ Move(k)

Spec == Init /\ [][Next]_job
==============================================================================
