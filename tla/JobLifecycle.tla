----------------------------- MODULE JobLifecycle -----------------------------
(***************************************************************************)
(* What the job engine promises about one job, as its users see it: the    *)
(* life cycle of a job id from before it is issued until its history is    *)
(* removed, and the release of its files for cleanup.  JobEngine.tla        *)
(* implements this specification (LifecycleSpec there).                    *)
(***************************************************************************)
EXTENDS Naturals

CONSTANT JobIds

VARIABLES
  state,      \* per id: where the job is in its life cycle
  released    \* the ids whose files were released for cleanup

\* The life cycle, one transition at a time.
Edges ==
  { <<"NEW", "QUEUED">>,        \* created
    <<"QUEUED", "ASSIGNED">>,   \* given a unit
    <<"ASSIGNED", "RUNNING">>,  \* handed to the worker
    <<"RUNNING", "COMPLETED">>, <<"RUNNING", "FAILED">>,
    <<"QUEUED", "CANCELLED">>, <<"ASSIGNED", "CANCELLED">>, <<"RUNNING", "CANCELLED">>,
    <<"FAILED", "QUEUED">>,     \* retried
    <<"COMPLETED", "REMOVED">>, <<"FAILED", "REMOVED">>, <<"CANCELLED", "REMOVED">> }

\* A request that queues a job runs the scheduler before it answers, and a
\* heartbeat hands out what its own scheduler run assigned.
Shortcuts ==
  { <<"NEW", "ASSIGNED">>, <<"FAILED", "ASSIGNED">>, <<"QUEUED", "RUNNING">> }

\* A released job may only be forgotten; ids are issued in order.
Move(j) ==
  /\ <<state[j], state'[j]>> \in Edges \cup Shortcuts
  /\ j \in released => state'[j] = "REMOVED"
  /\ state[j] = "NEW" => \A i \in JobIds : i < j => state[i] # "NEW"

Advance ==
  /\ \A j \in JobIds : state'[j] # state[j] => Move(j)
  /\ UNCHANGED released

\* Files are released once the job has COMPLETED or FAILED, or was removed.
Release ==
  /\ \E j \in JobIds :
       /\ state[j] \in {"COMPLETED", "FAILED", "REMOVED"}
       /\ released' = released \cup {j}
  /\ UNCHANGED state

Init ==
  /\ state = [j \in JobIds |-> "NEW"]
  /\ released = {}

Next == Advance \/ Release

Spec == Init /\ [][Next]_<<state, released>>
==============================================================================
