---------------------------- MODULE CommandDelivery ----------------------------
(***************************************************************************)
(* What the server promises about one restart or shutdown command: where   *)
(* it is, from the click to the workstation, and what its row in the log   *)
(* shows.  AgentControl.tla implements this specification (DeliverySpec    *)
(* there).                                                                 *)
(***************************************************************************)
EXTENDS Naturals

CONSTANTS
  RowIds,      \* ids of command_log
  Stations     \* workstation records

VARIABLES
  place,       \* per id: where the command is
  shown,       \* per id: the status the log shows
  record       \* per id: the record it was queued for

deliveryVars == <<place, shown, record>>

WaitingFor(s) == {r \in RowIds : place[r] = "waiting" /\ record[r] = s}

\* A row of its own, in the order of ids; it replaces what waits for the record.
Queue(s) ==
  \E r \in RowIds :
    /\ place[r] = "new" /\ \A q \in RowIds : q < r => place[q] # "new"
    /\ place' = [q \in RowIds |-> IF q = r THEN "waiting"
                                  ELSE IF q \in WaitingFor(s) THEN "superseded" ELSE place[q]]
    /\ shown' = [q \in RowIds |-> IF q = r THEN "pending"
                                  ELSE IF q \in WaitingFor(s) THEN "superseded" ELSE shown[q]]
    /\ record' = [record EXCEPT ![r] = s]

\* It leaves the server once: a machine gets it, or nobody does.
Deliver ==
  \E r \in RowIds :
    /\ place[r] = "waiting"
    /\ \E p \in {"held", "gone"} : place' = [place EXCEPT ![r] = p]
    /\ shown' = [shown EXCEPT ![r] = "sent"]
    /\ UNCHANGED record

\* The server restarts: what waits is never delivered and its row stays.
Forget ==
  /\ place' = [r \in RowIds |-> IF place[r] = "waiting" THEN "forgotten" ELSE place[r]]
  /\ UNCHANGED <<shown, record>>

\* The machine that has it carries it out, once, or does not.
Act ==
  \E r \in RowIds :
    /\ place[r] = "held"
    /\ \E p \in {"carried", "gone"} : place' = [place EXCEPT ![r] = p]
    /\ UNCHANGED <<shown, record>>

\* A result comes for a row that was sent.  Which one it is, is not promised.
Report ==
  \E r \in RowIds :
    /\ shown[r] = "sent"
    /\ \E status \in {"ok", "failed"} : shown' = [shown EXCEPT ![r] = status]
    /\ UNCHANGED <<place, record>>

Init ==
  /\ place = [r \in RowIds |-> "new"]
  /\ shown = [r \in RowIds |-> "none"]
  /\ record = [r \in RowIds |-> "none"]

Next == Deliver \/ Forget \/ Act \/ Report \/ \E s \in Stations : Queue(s)

Spec == Init /\ [][Next]_deliveryVars
==============================================================================
