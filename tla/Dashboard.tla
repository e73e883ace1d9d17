------------------------------- MODULE Dashboard -------------------------------
(***************************************************************************)
(* The dashboard: one page that polls three lists, and the two things a    *)
(* user changes from it, the render pool of a machine and the list of      *)
(* machines itself.                                                        *)
(*                                                                         *)
(* The server's answers are read at different moments and arrive in any    *)
(* order; an error is any failure of a request.  A machine is absent, or   *)
(* in or out of the render pool; statuses and jobs are a count of news.    *)
(***************************************************************************)
EXTENDS WebApp, FiniteSets

CONSTANTS
  Machines,
  MaxChanges,      \* bounds on changes of the registry,
  MaxNews          \* and on news

ASSUME DashboardAssumption == {MaxChanges, MaxNews} \subseteq Nat

Lists == {"machines", "statuses", "jobs"}
Pools == {"absent", "in", "out"}

VARIABLES
  registry,    \* server: the machines
  news,        \* server: how much has happened
  shown,       \* page: per list, what it shows
  errors,      \* page: the lists whose last request failed
  flights,     \* page: refreshes under way, with the answer to each request
  toggle,      \* page: per machine, the pool it is being put in, or None
  adding,      \* page: the machine the dialog is saving, or None
  changes

dashboardVars == <<registry, news, shown, errors, flights, toggle, adding, changes, faults>>

DashboardInit ==
  /\ registry \in [Machines -> Pools] /\ news = 0
  /\ shown = [l \in Lists |-> None] /\ errors = {} /\ flights = {}
  /\ toggle = [m \in Machines |-> None] /\ adding = None
  /\ changes = 0

inFlight == flights # {}

\* refresh(): nothing, if one is under way.
refresh == flights' = IF inFlight THEN flights ELSE flights \cup {[l \in Lists |-> Pending]}

\* The timer, and the button.
PollDashboard ==
  /\ Mounted("/") /\ refresh
  /\ UNCHANGED <<registry, news, shown, errors, toggle, adding, changes, faults>>

\* GET of one list: what the server has at this moment.
Current(l) == IF l = "machines" THEN registry ELSE news

Answer(f, l) ==
  /\ f[l] = Pending
  /\ flights' = (flights \ {f}) \cup {[f EXCEPT ![l] = Current(l)]}
  /\ UNCHANGED <<registry, news, shown, errors, toggle, adding, changes, faults>>

Fail(f, l) ==
  /\ f[l] = Pending /\ Fault
  /\ flights' = (flights \ {f}) \cup {[f EXCEPT ![l] = Failed]}
  /\ UNCHANGED <<registry, news, shown, errors, toggle, adding, changes>>

\* Mutant: inFlight is reset only after a refresh without failures.
LandedUnlessFailed(f) == IF \E l \in Lists : f[l] = Failed THEN flights ELSE flights \ {f}

\* finally: inFlight.current = false.
Landed(f) == flights \ {f}

\* Promise.allSettled: the lists that arrived are shown, the others keep what they show.
Settle(f) ==
  /\ \A l \in Lists : f[l] # Pending
  /\ shown' = [l \in Lists |-> IF f[l] = Failed THEN shown[l] ELSE f[l]]
  /\ errors' = {l \in Lists : f[l] = Failed}
  /\ flights' = Landed(f)
  /\ UNCHANGED <<registry, news, toggle, adding, changes, faults>>

\* toggleRenderPool: the other pool than the one the card shows.
ClickToggle(m) ==
  /\ toggle[m] = None /\ shown["machines"] # None /\ shown["machines"][m] # "absent"
  /\ toggle' = [toggle EXCEPT ![m] = IF shown["machines"][m] = "in" THEN "out" ELSE "in"]
  /\ UNCHANGED <<registry, news, shown, errors, flights, adding, changes, faults>>

\* PATCH /api/workstations/:id
ServeToggle(m) ==
  /\ toggle[m] \in {"in", "out"}
  /\ IF registry[m] = "absent"
     THEN toggle' = [toggle EXCEPT ![m] = None] /\ UNCHANGED <<registry, changes>>
     ELSE /\ changes < MaxChanges /\ changes' = changes + 1
          /\ registry' = [registry EXCEPT ![m] = toggle[m]]
          /\ toggle' = [toggle EXCEPT ![m] = "done"]
  /\ UNCHANGED <<news, shown, errors, flights, adding, faults>>

\* The answer: the notice is shown and onChanged refreshes the dashboard.
Toggled(m) ==
  /\ toggle[m] = "done"
  /\ toggle' = [toggle EXCEPT ![m] = None] /\ refresh
  /\ UNCHANGED <<registry, news, shown, errors, adding, changes, faults>>

\* The dialog's submit, served: a name of no machine.
ServeAdd(m) ==
  /\ adding = None /\ registry[m] = "absent" /\ changes < MaxChanges
  /\ registry' = [registry EXCEPT ![m] = "in"] /\ changes' = changes + 1
  /\ adding' = m
  /\ UNCHANGED <<news, shown, errors, flights, toggle, faults>>

\* onCreated: the machine is put on the page at once, and the page is refreshed.
Added ==
  /\ adding # None
  /\ shown' = [shown EXCEPT !["machines"] =
       [m \in Machines |-> IF m = adding THEN "in" ELSE IF @ = None THEN "absent" ELSE @[m]]]
  /\ adding' = None /\ refresh
  /\ UNCHANGED <<registry, news, errors, toggle, changes, faults>>

OtherChanges(m, pool) ==
  /\ changes < MaxChanges /\ registry[m] # pool
  /\ registry' = [registry EXCEPT ![m] = pool] /\ changes' = changes + 1
  /\ UNCHANGED <<news, shown, errors, flights, toggle, adding, faults>>

News ==
  /\ news < MaxNews /\ news' = news + 1
  /\ UNCHANGED <<registry, shown, errors, flights, toggle, adding, changes, faults>>

DashboardNext ==
  \/ PollDashboard \/ Added \/ News
  \/ \E f \in flights : Settle(f) \/ \E l \in Lists : Answer(f, l) \/ Fail(f, l)
  \/ \E m \in Machines :
       ClickToggle(m) \/ ServeToggle(m) \/ Toggled(m) \/ ServeAdd(m)
       \/ \E pool \in Pools : OtherChanges(m, pool)

DashboardSpec == WebAppInit /\ DashboardInit /\ [][DashboardNext /\ UNCHANGED page]_<<page, dashboardVars>>

\* setInterval goes on; every request is answered, or fails, and is taken.  One refresh is under
\* way at a time, so that its steps need no fairness of their own.
DashboardFairness ==
  /\ WF_dashboardVars(PollDashboard
                      \/ \E f \in flights : Settle(f) \/ \E l \in Lists : Answer(f, l))
  /\ WF_dashboardVars(Added)
  /\ \A m \in Machines : WF_dashboardVars(Toggled(m))

-------------------------------------------------------------------------------
(* Well formed; a list is shown from the first answer on.                    *)
DashboardTypeOK ==
  /\ registry \in [Machines -> Pools] /\ news \in 0..MaxNews
  /\ shown["machines"] \in [Machines -> Pools] \cup {None}
  /\ shown["statuses"] \in 0..news \cup {None} /\ shown["jobs"] \in 0..news \cup {None}
  /\ errors \subseteq Lists /\ Cardinality(flights) <= 1
  /\ toggle \in [Machines -> {None, "in", "out", "done"}] /\ adding \in Machines \cup {None}

(* Statuses and jobs never go back to something older, though the three      *)
(* requests of a refresh overtake each other and some of them fail.          *)
ForwardOnly ==
  [][\A l \in {"statuses", "jobs"} :
       shown[l] # None => shown'[l] # None /\ shown'[l] >= shown[l]]_dashboardVars

(* When the server has come to rest the page shows what there is, also if    *)
(* refreshes failed before, or were left out because one was under way.      *)
EventuallyFresh ==
  <>[](Mounted("/") => errors = {} /\ \A l \in Lists : shown[l] = Current(l))

(* The dashboard only goes forward, and arrives.                             *)
DashboardCurrent == []DashboardTypeOK /\ ForwardOnly /\ EventuallyFresh
===============================================================================
