------------------------------- MODULE AuditPage -------------------------------
(***************************************************************************)
(* The audit log and the page that reads it: rows newest first, a page of  *)
(* them at a time, for one action or for all; a request on every change of *)
(* the selection, from a timer and from a button, none of which waits for  *)
(* or cancels another.                                                     *)
(*                                                                         *)
(* Rows are ordered by their time, then by id, and the clock may step      *)
(* back: a new row may be placed before older ones.                        *)
(***************************************************************************)
EXTENDS WebApp, Integers, Sequences, FiniteSets

CONSTANTS
  Actions,
  All,             \* the filter that is no action
  PAGE_SIZE,
  MaxRows,         \* bounds on the rows ever written,
  MaxRequests      \* and on the requests under way

ASSUME AuditPageAssumption ==
  PAGE_SIZE \in Nat \ {0} /\ {MaxRows, MaxRequests} \subseteq Nat

Filters    == Actions \cup {All}
Selections == [action : Filters, page : 0..MaxRows]
Requests   == 1..MaxRequests

VARIABLES
  log,         \* server: the rows, newest first
  written,     \* server: how many were ever written
  selection,   \* page: the filter and the page asked for
  auditShown,  \* page: the entries and the total shown, or None
  auditError, loading,
  requests     \* page: per request, what it asks for and its answer

auditVars == <<log, written, selection, auditShown, auditError, loading, requests, faults>>

Smaller(a, b) == IF a < b THEN a ELSE b
Larger(a, b)  == IF a < b THEN b ELSE a

FirstPage == [action |-> All, page |-> 0]
Ask(s)    == [asks |-> s, answer |-> None]

AuditInit ==
  /\ written \in 0..MaxRows
  /\ \E action \in [1..written -> Actions] :
       log = [i \in 1..written |-> [id |-> written + 1 - i, action |-> action[i]]]
  /\ selection = FirstPage /\ auditShown = None /\ auditError = FALSE /\ loading = TRUE
  /\ requests = [r \in Requests |->
                   IF Mounted("/audit") /\ r = 1 THEN Ask(FirstPage) ELSE None]

-------------------------------------------------------------------------------
(* The log.                                                                  *)

\* WHERE: the positions of an action's rows, which ORDER BY has put in order.
Matching(rows, f) == {i \in DOMAIN rows : f \in {All, rows[i].action}}

Place(rows, f, i) == Cardinality({j \in Matching(rows, f) : j <= i})

\* LIMIT and OFFSET.  What is on a page has the order of the log, which no row changes.
Between(rows, f, low, high) ==
  {rows[i] : i \in {j \in Matching(rows, f) : Place(rows, f, j) \in low + 1 .. high}}

listAudit(s) ==
  [entries |-> Between(log, s.action, s.page * PAGE_SIZE, (s.page + 1) * PAGE_SIZE),
   total   |-> Cardinality(Matching(log, s.action))]

recordAudit(a) ==
  /\ written < MaxRows /\ written' = written + 1
  /\ \E k \in 0..Len(log) :
       log' = SubSeq(log, 1, k) \o <<[id |-> written', action |-> a]>>
              \o SubSeq(log, k + 1, Len(log))
  /\ UNCHANGED <<selection, auditShown, auditError, loading, requests, faults>>

\* Mutant: the rows since a time are removed.
Since(k) == SubSeq(log, k + 1, Len(log))

\* What is left when the rows before a time are removed.
Before(k) == SubSeq(log, 1, k)

\* An operator trims the table.
deleteAuditBefore ==
  /\ \E k \in 0..Len(log) - 1 : log' = Before(k)
  /\ UNCHANGED <<written, selection, auditShown, auditError, loading, requests, faults>>

-------------------------------------------------------------------------------
(* The page.                                                                 *)

\* load(): one more request, for the given selection.
load(s) ==
  /\ \E r \in Requests : requests[r] = None /\ requests' = [requests EXCEPT ![r] = Ask(s)]
  /\ loading' = TRUE

\* The effect is renewed with load, which is renewed with the selection.
Renewed == selection

AuditTimer ==
  /\ Mounted("/audit") /\ load(Renewed)
  /\ UNCHANGED <<log, written, selection, auditShown, auditError, faults>>

Refresh ==
  /\ ~ loading /\ load(selection)
  /\ UNCHANGED <<log, written, selection, auditShown, auditError, faults>>

Select(s) ==
  /\ selection' = s /\ s # selection
  /\ load(s)
  /\ UNCHANGED <<log, written, auditShown, auditError, faults>>

setAction(f) == Select([action |-> f, page |-> 0])

lastPage(total) == Larger(0, ((total + PAGE_SIZE - 1) \div PAGE_SIZE) - 1)

Total == IF auditShown = None THEN 0 ELSE auditShown.total

PreviousPage == Select([selection EXCEPT !.page = Larger(0, @ - 1)])

\* The total shown may be another filter's.
NextPage ==
  /\ selection.page < lastPage(Total)
  /\ Select([selection EXCEPT !.page = Smaller(lastPage(Total), @ + 1)])

ServeAudit(r) ==
  /\ requests[r] # None /\ requests[r].answer = None
  /\ \/ /\ requests' = [requests EXCEPT ![r].answer = listAudit(requests[r].asks)]
        /\ UNCHANGED faults
     \/ /\ requests' = [requests EXCEPT ![r].answer = Failed]
        /\ Fault
  /\ UNCHANGED <<log, written, selection, auditShown, auditError, loading>>

\* An answer is shown whatever has been selected since.
Loaded(r) ==
  /\ requests[r] # None /\ requests[r].answer # None
  /\ auditError' = (requests[r].answer = Failed)
  /\ auditShown' = IF auditError' THEN auditShown ELSE requests[r].answer
  /\ loading' = FALSE
  /\ requests' = [requests EXCEPT ![r] = None]
  /\ UNCHANGED <<log, written, selection, faults>>

AuditNext ==
  \/ \E a \in Actions : recordAudit(a)
  \/ deleteAuditBefore
  \/ AuditTimer \/ Refresh \/ PreviousPage \/ NextPage
  \/ \E f \in Filters : setAction(f)
  \/ \E r \in Requests : ServeAudit(r) \/ Loaded(r)

AuditSpec == WebAppInit /\ AuditInit /\ [][AuditNext /\ UNCHANGED page]_<<page, auditVars>>

\* The timer runs and every request is answered, or fails, and is taken.
AuditFairness ==
  /\ WF_auditVars(AuditTimer)
  /\ \A r \in Requests : WF_auditVars(ServeAudit(r) \/ Loaded(r))

-------------------------------------------------------------------------------
(* The state is well formed, no row is listed twice, and the page's number   *)
(* is one that the rows ever written can fill.                               *)
AuditTypeOK ==
  /\ log \in Seq([id : 1..MaxRows, action : Actions]) /\ written \in 0..MaxRows
  /\ \A i, j \in DOMAIN log : log[i].id <= written /\ (i # j => log[i].id # log[j].id)
  /\ selection \in Selections /\ selection.page <= lastPage(written)
  /\ auditShown # None => Cardinality(auditShown.entries) <= PAGE_SIZE
  /\ {auditError, loading} \subseteq BOOLEAN
  /\ \A r \in Requests : requests[r] # None => requests[r].asks \in Selections

(* A reader who turns the pages misses nothing: while rows are added, even   *)
(* with times in the past, and old ones are trimmed, a row moves to a later  *)
(* page or stays, never to one already turned, under every filter.           *)
Rows(rows) == {rows[i] : i \in DOMAIN rows}
Beyond(rows, f, p) == Between(rows, f, p * PAGE_SIZE, Len(rows))
NothingSkipped ==
  [][\A f \in Filters, p \in 0..MaxRows :
       Beyond(log, f, p) \cap Rows(log') \subseteq Beyond(log', f, p)]_log

(* Every row of a filter is on one of the pages that its total gives.        *)
EveryRowOnAPage ==
  \A f \in Filters :
    {log[i] : i \in Matching(log, f)} =
      UNION {listAudit([action |-> f, page |-> p]).entries
               : p \in 0..lastPage(Cardinality(Matching(log, f)))}

(* When the log and the selection come to rest, the page ends up showing     *)
(* just that selection, although nothing keeps a late answer to an earlier   *)
(* one from being shown first, and a failed request leaves an error.         *)
Resting == <>[][UNCHANGED <<log, selection>>]_auditVars
ShowsSelection ==
  Resting => <>[](Mounted("/audit") => auditShown = listAudit(selection) /\ ~ auditError)

(* Every entry can be reached by turning the pages, none slips past a reader *)
(* who does, and the page settles on what was selected last.                 *)
AuditReadable == [](AuditTypeOK /\ EveryRowOnAPage) /\ NothingSkipped /\ ShowsSelection
===============================================================================
