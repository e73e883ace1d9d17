------------------------------- MODULE QueuePage -------------------------------
(***************************************************************************)
(* The job queue page: a list polled every three seconds by requests that  *)
(* do not wait for one another, a retry or cancel button per row, and the  *)
(* deletions, of one job or of the history, that ask for the password.     *)
(*                                                                         *)
(* A job is "active" while QUEUED, ASSIGNED or RUNNING, and "final" when   *)
(* COMPLETED, CANCELLED or PAUSED.  The buttons under the offline banner   *)
(* are reached by keyboard, also while the password dialog is open.  A     *)
(* password is right or wrong.                                             *)
(***************************************************************************)
EXTENDS WebApp, FiniteSets

CONSTANTS
  Jobs,
  History,         \* what the dialog of the Clear history button is about
  MaxPolls,        \* bounds on the poll requests under way at once,
  MaxActs,         \* on the row buttons' handlers under way at once,
  MaxElsewhere     \* and on what happens to the jobs elsewhere

ASSUME QueuePageAssumption == {MaxPolls, MaxActs, MaxElsewhere} \subseteq Nat

States   == {"new", "active", "FAILED", "final", "gone"}
JobLists == [Jobs -> States \ {"new"}]
Polls    == 1..MaxPolls

VARIABLES
  queue,       \* server: the jobs
  jobs,        \* page: the list shown, or None
  error,       \* page: whether the last poll failed
  polls,       \* page: the poll requests under way, with their answers
  act,         \* page: per job, the retry or cancel under way
  busy,        \* page: the job whose row shows that it is busy, or None
  dialog,      \* page: what the password dialog is about, or None
  submit,      \* page: the dialog's submission under way
  confirming, clearing,
  creating,    \* page: the demo job being created, or None
  elsewhere    \* how much is still to happen to the jobs elsewhere

server  == <<queue, elsewhere>>
list    == <<jobs, error, polls>>
buttons == <<act, busy>>
form    == <<dialog, submit, confirming, clearing>>
queueVars == <<server, list, buttons, form, creating, faults>>

NoAct    == [at |-> "idle"]
NoSubmit == [at |-> "idle"]

QueueInit ==
  /\ queue \in [Jobs -> States]
  /\ jobs = None /\ error = FALSE /\ polls = [p \in Polls |-> None]
  /\ act = [j \in Jobs |-> NoAct] /\ busy = None
  /\ dialog = None /\ submit = NoSubmit /\ confirming = FALSE /\ clearing = FALSE
  /\ creating = None /\ elsewhere \in 0..MaxElsewhere

\* listJobs: a job that is not listed looks the same before and after its time.
Listed == [j \in Jobs |-> IF queue[j] = "new" THEN "gone" ELSE queue[j]]

-------------------------------------------------------------------------------
(* The list.                                                                 *)

\* The interval runs as long as the page is open, whatever its requests do.
Timer == Mounted("/jobs")

PollQueue(p) ==
  /\ Timer /\ polls[p] = None
  /\ polls' = [polls EXCEPT ![p] = Pending]
  /\ UNCHANGED <<server, jobs, error, buttons, form, creating, faults>>

AnswerPoll(p) ==
  /\ polls[p] = Pending
  /\ \/ polls' = [polls EXCEPT ![p] = Listed] /\ UNCHANGED faults
     \/ polls' = [polls EXCEPT ![p] = Failed] /\ Fault
  /\ UNCHANGED <<server, jobs, error, buttons, form, creating>>

\* Answers are taken in the order in which they arrive.
Polled(p) ==
  /\ polls[p] \notin {None, Pending}
  /\ polls' = [polls EXCEPT ![p] = None]
  /\ error' = (polls[p] = Failed)
  /\ jobs' = IF polls[p] = Failed THEN jobs ELSE polls[p]
  /\ UNCHANGED <<server, buttons, form, creating, faults>>

-------------------------------------------------------------------------------
(* Retry and cancel.                                                         *)

Shows(j, states) == jobs # None /\ jobs[j] \in states
Free == busy = None

\* The button does what the row showed when it was drawn.
handleAction(j) ==
  /\ Free /\ Shows(j, {"active", "FAILED"}) /\ act[j] = NoAct
  /\ Cardinality({k \in Jobs : act[k] # NoAct}) < MaxActs
  /\ busy' = j
  /\ act' = [act EXCEPT ![j] = [at |-> "sent", retry |-> jobs[j] = "FAILED"]]
  /\ UNCHANGED <<server, list, form, creating, faults>>

EndAct(j) == act' = [act EXCEPT ![j] = NoAct] /\ busy' = None

\* A retry of a job that is not FAILED is refused, unless it is queued already;
\* a cancel of an ended one changes nothing.  A job that is gone is not found.
ServeAct(j) ==
  /\ act[j].at = "sent"
  /\ LET refused == queue[j] = "gone" \/ (act[j].retry /\ queue[j] = "final")
     IN  \/ /\ ~ refused
            /\ queue' = [queue EXCEPT ![j] =
                 CASE act[j].retry /\ @ = "FAILED" -> "active"
                   [] ~ act[j].retry /\ @ = "active" -> "final"
                   [] OTHER -> @]
            /\ act' = [act EXCEPT ![j] = [at |-> "listing"]]
            /\ UNCHANGED busy
         \/ /\ refused \/ (act[j].retry /\ queue[j] = "active")
            /\ EndAct(j) /\ UNCHANGED queue
  /\ UNCHANGED <<elsewhere, list, form, creating, faults>>

ListAfterAct(j) ==
  /\ act[j].at = "listing"
  /\ act' = [act EXCEPT ![j] = [at |-> "listed", list |-> Listed]]
  /\ UNCHANGED <<server, list, busy, form, creating, faults>>

Acted(j) ==
  /\ act[j].at = "listed"
  /\ jobs' = act[j].list /\ EndAct(j)
  /\ UNCHANGED <<server, error, polls, form, creating, faults>>

ActFails(j) ==
  /\ act[j].at \in {"sent", "listing"} /\ Fault /\ EndAct(j)
  /\ UNCHANGED <<server, list, form, creating>>

-------------------------------------------------------------------------------
(* Deletions.                                                                *)

handleDelete(j) ==
  /\ Free /\ Shows(j, {"FAILED", "final"})
  /\ dialog' = j
  /\ UNCHANGED <<server, list, buttons, submit, confirming, clearing, creating, faults>>

handleClearAll ==
  /\ ~ clearing /\ dialog' = History
  /\ UNCHANGED <<server, list, buttons, submit, confirming, clearing, creating, faults>>

CancelDialog ==
  /\ dialog # None /\ ~ confirming /\ dialog' = None
  /\ UNCHANGED <<server, list, buttons, submit, confirming, clearing, creating, faults>>

\* The handler keeps the dialog it was called in, whatever is opened meanwhile.
submitPasswordConfirm ==
  /\ dialog # None /\ ~ confirming
  /\ confirming' = TRUE
  /\ \E right \in BOOLEAN : submit' = [at |-> "login", about |-> dialog, right |-> right]
  /\ UNCHANGED <<server, list, buttons, dialog, clearing, creating, faults>>

Refused == confirming' = FALSE

\* Mutant: the deletion is of what the dialog is about by now.
AboutNow == dialog

About == submit.about

LoggedIn ==
  /\ submit.at = "login" /\ submit.right
  /\ submit' = [submit EXCEPT !.at = "sent"]
  /\ IF submit.about = History THEN clearing' = TRUE /\ UNCHANGED busy
                               ELSE busy' = submit.about /\ UNCHANGED clearing
  /\ UNCHANGED <<server, list, act, dialog, confirming, creating, faults>>

LoginRefused ==
  /\ submit.at = "login"
  /\ \/ ~ submit.right /\ UNCHANGED faults
     \/ submit.right /\ Fault
  /\ submit' = NoSubmit /\ Refused
  /\ UNCHANGED <<server, list, buttons, dialog, clearing, creating>>

\* The finally block.
EndSubmit == submit' = NoSubmit /\ busy' = None /\ clearing' = FALSE /\ confirming' = FALSE

\* What the deletion removes; a job that a remaining one depends on may stay.
Removed(gone) == queue' = [j \in Jobs |-> IF j \in gone THEN "gone" ELSE queue[j]]

ServeDeletion ==
  /\ submit.at = "sent"
  /\ LET ended == {j \in Jobs : queue[j] \in {"FAILED", "final"}}
     IN  \/ /\ \/ About = History /\ \E gone \in SUBSET ended : Removed(gone)
               \/ About \in ended /\ Removed({About})
            /\ submit' = [submit EXCEPT !.at = "listing"]
            /\ UNCHANGED <<busy, clearing, confirming>>
         \/ /\ About # History       \* 404, or 409
            /\ EndSubmit /\ UNCHANGED queue
  /\ UNCHANGED <<elsewhere, list, act, dialog, creating, faults>>

ListAfterDeletion ==
  /\ submit.at = "listing"
  /\ submit' = [at |-> "listed", list |-> Listed]
  /\ UNCHANGED <<server, list, buttons, dialog, confirming, clearing, creating, faults>>

Deleted ==
  /\ submit.at = "listed"
  /\ jobs' = submit.list /\ dialog' = None /\ EndSubmit
  /\ UNCHANGED <<server, error, polls, act, creating, faults>>

\* The dialog stays open, over the alert.
DeletionFails ==
  /\ submit.at \in {"sent", "listing"} /\ Fault /\ EndSubmit
  /\ UNCHANGED <<server, list, act, dialog, creating>>

-------------------------------------------------------------------------------
(* The demo buttons, and everyone else.                                      *)

handleCreate(j) ==
  /\ creating = None /\ queue[j] = "new" /\ creating' = j
  /\ UNCHANGED <<server, list, buttons, form, faults>>

ServeCreate ==
  /\ creating # None /\ queue[creating] = "new"
  /\ queue' = [queue EXCEPT ![creating] = "active"]
  /\ UNCHANGED <<elsewhere, list, buttons, form, creating, faults>>

Created ==
  /\ creating # None
  /\ \/ queue[creating] # "new" /\ UNCHANGED faults
     \/ Fault
  /\ creating' = None
  /\ UNCHANGED <<server, list, buttons, form>>

\* Workers, and other users' buttons.
Elsewhere(j) ==
  /\ elsewhere > 0 /\ elsewhere' = elsewhere - 1
  /\ \/ queue[j] = "active" /\ \E s \in {"FAILED", "final"} : queue' = [queue EXCEPT ![j] = s]
     \/ queue[j] = "FAILED" /\ queue' = [queue EXCEPT ![j] = "active"]
  /\ UNCHANGED <<list, buttons, form, creating, faults>>

QueueNext ==
  \/ \E p \in Polls : PollQueue(p) \/ AnswerPoll(p) \/ Polled(p)
  \/ \E j \in Jobs : handleAction(j) \/ ServeAct(j) \/ ListAfterAct(j) \/ Acted(j) \/ ActFails(j)
                     \/ handleDelete(j) \/ handleCreate(j) \/ Elsewhere(j)
  \/ handleClearAll \/ CancelDialog \/ submitPasswordConfirm
  \/ LoggedIn \/ LoginRefused \/ ServeDeletion \/ ListAfterDeletion \/ Deleted \/ DeletionFails
  \/ ServeCreate \/ Created

QueueSpec == WebAppInit /\ QueueInit /\ [][QueueNext /\ UNCHANGED page]_<<page, queueVars>>

\* Every request is answered, and the timer runs.  A poll, a handler and a submission have one
\* step to take at a time.
QueueFairness ==
  /\ \A p \in Polls : WF_queueVars(PollQueue(p) \/ AnswerPoll(p) \/ Polled(p))
  /\ \A j \in Jobs : WF_queueVars(ServeAct(j) \/ ListAfterAct(j) \/ Acted(j))
  /\ WF_queueVars(LoggedIn \/ LoginRefused \/ ServeDeletion \/ ListAfterDeletion \/ Deleted)

-------------------------------------------------------------------------------
(* The state is well formed, and a handler under way shows: the form is held *)
(* exactly while a submission runs.                                          *)
QueueTypeOK ==
  /\ queue \in [Jobs -> States] /\ jobs \in JobLists \cup {None} /\ error \in BOOLEAN
  /\ polls \in [Polls -> JobLists \cup {None, Pending, Failed}]
  /\ \A j \in Jobs : act[j].at \in {"idle", "sent", "listing", "listed"}
  /\ busy \in Jobs \cup {None} /\ dialog \in Jobs \cup {None, History}
  /\ submit.at \in {"idle", "login", "sent", "listing", "listed"}
  /\ {confirming, clearing} \subseteq BOOLEAN /\ creating \in Jobs \cup {None}
  /\ elsewhere \in 0..MaxElsewhere
  /\ confirming <=> submit # NoSubmit

(* A job removed from this page is one whose dialog the password was typed   *)
(* in, or the history was: a dialog opened by keyboard while the submission  *)
(* runs does not redirect it, whatever the order of the answers.             *)
RemovesWhatWasConfirmed ==
  [][\A j \in Jobs : queue[j] # "gone" /\ queue'[j] = "gone"
       => submit.right /\ submit.about \in {j, History}]_queueVars

(* The row buttons and the form come back: handlers overlap, since one that  *)
(* ends frees the buttons for all, and every branch of every handler,        *)
(* failures included, must give up what it took.                             *)
ButtonsFree ==
  /\ (submit = NoSubmit => ~ clearing)
  /\ (submit = NoSubmit /\ \A j \in Jobs : act[j] = NoAct) => busy = None

(* If the jobs stop changing, the page ends up showing them, and no error:   *)
(* although polls overtake one another and the lists fetched by the handlers,*)
(* and some fail.                                                            *)
EventuallyCurrent ==
  <>[][UNCHANGED queue]_queueVars => <>[](Mounted("/jobs") => jobs = Listed /\ ~ error)

(* Handlers and polls that overlap give back what they take, remove what the *)
(* user meant, and leave the page showing the queue.                         *)
QueueInOrder == [](QueueTypeOK /\ ButtonsFree) /\ RemovesWhatWasConfirmed /\ EventuallyCurrent
===============================================================================
