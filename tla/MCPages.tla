-------------------------------- MODULE MCPages --------------------------------
(***************************************************************************)
(* The pages of the web application for TLC, in one state space.  They     *)
(* share the router and nothing else: what is not of the open page rests   *)
(* in one initial state.  The previews, kept by remote pages and shown by  *)
(* the dashboards of all tabs, go with the remote page.                    *)
(***************************************************************************)
EXTENDS Dashboard, QueuePage, AuditPage, RemotePreview

First    == CHOOSE j \in Jobs : TRUE
AnAction == CHOOSE a \in Actions : TRUE

-------------------------------------------------------------------------------
(* What each page begins with, and how much may happen to it from outside    *)
(* and how many of its requests may fail.                                    *)

Queue(table, others, failures) == queue = table /\ elsewhere = others /\ faults = failures

OneJob(state) == [j \in Jobs |-> IF j = First THEN state ELSE "gone"]

\* A job to come, a failed one that others retry or that is left alone, an ended history.
SomeQueue ==
  \/ Queue(OneJob("new"), 0, MaxFaults)
  \/ Queue(OneJob("FAILED"), MaxElsewhere, 0)
  \/ Queue(OneJob("FAILED"), 0, MaxFaults)
  \/ Queue([j \in Jobs |-> "final"], 0, MaxFaults)

\* A log that more rows come to, or as long as it gets; its rows are not all of one action.
SomeLog ==
  /\ \/ written = MaxRows - 1 /\ faults = 0
     \/ written = MaxRows     /\ faults = MaxFaults
  /\ \A i \in 1..written : log[i].action = AnAction <=> i # 2

Init ==
  /\ WebAppInit /\ DashboardInit /\ QueueInit /\ AuditInit /\ PreviewInit
  /\ IF Mounted("/") THEN faults = MaxFaults ELSE registry = [m \in Machines |-> "absent"]
  /\ IF Mounted("/jobs") THEN SomeQueue ELSE queue = OneJob("gone") /\ elsewhere = 0
  /\ IF Mounted("/audit") THEN SomeLog ELSE written = 0
  /\ Mounted("/remote/:id") => faults = 0

dashboardOnly == <<registry, news, shown, errors, flights, toggle, adding, changes>>
queueOnly     == <<server, list, buttons, form, creating>>
auditOnly     == <<log, written, selection, auditShown, auditError, loading, requests>>

vars == <<page, faults, dashboardOnly, queueOnly, auditOnly, previewVars>>

Next ==
  \/ Mounted("/") /\ DashboardNext /\ UNCHANGED <<page, queueOnly, auditOnly, previewVars>>
  \/ Mounted("/jobs") /\ QueueNext /\ UNCHANGED <<page, dashboardOnly, auditOnly, previewVars>>
  \/ Mounted("/audit") /\ AuditNext /\ UNCHANGED <<page, dashboardOnly, queueOnly, previewVars>>
  \/ /\ Mounted("/remote/:id") /\ PreviewNext
     /\ UNCHANGED <<page, faults, dashboardOnly, queueOnly, auditOnly>>

Spec == Init /\ [][Next]_vars

LiveSpec == Spec /\ DashboardFairness /\ QueueFairness /\ AuditFairness
===============================================================================
