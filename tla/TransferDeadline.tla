--------------------------- MODULE TransferDeadline ---------------------------
(***************************************************************************)
(* The two deadlines of an upload chunk: one for a stream that has gone    *)
(* silent, re-armed by every piece of data, and one for the whole transfer.*)
(*                                                                         *)
(* Time is a number of units and timers are punctual: time does not pass   *)
(* while a timer is due.  Both timers due together fire in either order.   *)
(* receiveChunk is reduced to what the deadlines see of it; UploadPortal   *)
(* models the rest.                                                        *)
(***************************************************************************)
EXTENDS Integers

CONSTANTS CHUNK_MAX_MS, CHUNK_IDLE_MS

ASSUME DeadlineAssumption ==
  CHUNK_MAX_MS \in Nat /\ CHUNK_IDLE_MS \in Nat /\ 0 < CHUNK_IDLE_MS /\ CHUNK_IDLE_MS < CHUNK_MAX_MS

Off == -1

VARIABLES
  phase,      \* of receiveChunk
  idle,       \* time left on the two timers, or Off
  total,
  closed,
  expired,    \* history: calls of expire
  silent,     \* history: time since data came, and since the transfer began,
  age         \* as long as the deadline is open

deadlineVars == <<phase, idle, total, closed, expired, silent, age>>

DeadlineInit ==
  /\ phase = "streaming" /\ idle = CHUNK_IDLE_MS /\ total = CHUNK_MAX_MS
  /\ closed = FALSE /\ expired = 0 /\ silent = 0 /\ age = 0

close == closed' = TRUE /\ idle' = Off /\ total' = Off

Closing == close

stop ==
  /\ IF closed THEN UNCHANGED <<closed, idle, total, expired>>
     ELSE Closing /\ expired' = expired + 1
  /\ UNCHANGED <<phase, silent, age>>

TotalFires == total = 0 /\ stop
IdleFires == idle = 0 /\ stop

\* Mutant: data does not put the idle timer off.
ProgressForgets == silent' = 0 /\ UNCHANGED <<idle, total>>

progress ==
  IF closed THEN UNCHANGED <<idle, total, silent>>
  ELSE idle' = CHUNK_IDLE_MS /\ silent' = 0 /\ UNCHANGED total

\* A buffer that is not empty; one may still come after the request is destroyed.
Data ==
  /\ phase = "streaming" /\ progress
  /\ UNCHANGED <<phase, closed, expired, age>>

\* The stream ends in order: the file is synced, with the deadline still open.
LastByte ==
  /\ phase = "streaming" /\ expired = 0
  /\ phase' = "syncing"
  /\ UNCHANGED <<idle, total, closed, expired, silent, age>>

\* The browser aborts, a piece is refused, or expire has destroyed the request.
Fail ==
  /\ phase \in {"streaming", "syncing"}
  /\ phase' = "failed"
  /\ UNCHANGED <<idle, total, closed, expired, silent, age>>

\* The finally block, after the commit or the truncation.
Finally ==
  /\ phase \in {"syncing", "failed"}
  /\ phase' = "ended" /\ close
  /\ UNCHANGED <<expired, silent, age>>

TimePasses ==
  /\ phase # "ended" /\ idle # 0 /\ total # 0 /\ ~closed
  /\ idle' = idle - 1 /\ total' = total - 1
  /\ silent' = silent + 1 /\ age' = age + 1
  /\ UNCHANGED <<phase, closed, expired>>

DeadlineNext == TotalFires \/ IdleFires \/ Data \/ LastByte \/ Fail \/ Finally \/ TimePasses

DeadlineSpec == DeadlineInit /\ [][DeadlineNext]_deadlineVars

\* Mutant: expire reports the reason and leaves the request alone.
Reported == FALSE

\* expire: request.destroy, which ends the stream with an error.
Destroyed == expired > 0

\* Time passes, timers fire, a destroyed request fails, the file system answers.
DeadlineFairness ==
  /\ WF_deadlineVars(TimePasses) /\ WF_deadlineVars(TotalFires) /\ WF_deadlineVars(IdleFires)
  /\ WF_deadlineVars(Destroyed /\ Fail) /\ WF_deadlineVars(Finally)

DeadlineLiveSpec == DeadlineSpec /\ DeadlineFairness

-------------------------------------------------------------------------------
(* Well formed; a closed deadline has no timer left, whatever comes late.    *)
DeadlineTypeOK ==
  /\ phase \in {"streaming", "syncing", "failed", "ended"}
  /\ idle \in 0..CHUNK_IDLE_MS \cup {Off} /\ total \in 0..CHUNK_MAX_MS \cup {Off}
  /\ closed \in BOOLEAN /\ expired \in Nat /\ silent \in Nat /\ age \in Nat
  /\ IF closed THEN idle = Off /\ total = Off ELSE idle # Off /\ total # Off

(* The transfer is torn down at most once, and never after it was closed.    *)
ExpiresOnce == expired <= 1 /\ (expired = 1 => closed)

(* transferDeadline.ts:4: a slow stream lives on while it makes progress, but *)
(* neither silence nor the transfer outlasts its limit.                      *)
Bounded == silent <= CHUNK_IDLE_MS /\ age <= CHUNK_MAX_MS

(* A deadline fires only for a stream silent, or alive, for all of its limit. *)
FiresOnTime == expired > 0 => silent = CHUNK_IDLE_MS \/ age = CHUNK_MAX_MS

(* The slot of a transfer comes free, though data may trickle in for ever.   *)
SlotReturned == <>[](phase = "ended")

(* A transfer is torn down at its limit: not twice, not late and not early.  *)
DeadlineKept == DeadlineTypeOK /\ ExpiresOnce /\ Bounded /\ FiresOnTime
===============================================================================
