----------------------------- MODULE UploadClient -----------------------------
(***************************************************************************)
(* The upload page of the browser, in several tabs, against the portal.    *)
(*                                                                         *)
(* An attempt opens or finds its session, checks that the file is the      *)
(* session's, sends pieces from the offset it knows, asks again after an   *)
(* error, completes, and asks for the list.  It keeps its own locals and   *)
(* only writes what its page shows: while a page does not say it is        *)
(* sending, another attempt may begin beside one that still waits.  A      *)
(* request gets lost, or its answer does; one that an attempt has given up *)
(* on may still be served.                                                 *)
(*                                                                         *)
(* The portal is what its answers show; UploadPortal has the whole.  Sizes *)
(* are in units of the smallest piece, 4 MiB; a unit of a file is the name *)
(* of the file and its place.  Left out: the speed display, login and the  *)
(* list of jobs.                                                           *)
(***************************************************************************)
EXTENDS SequencesExt

CONSTANTS
  Tabs,
  Files,         \* files of one name and size
  Size,          \* their size
  ChunkBytes,    \* the largest piece of a session
  Pieces,        \* what a measured speed may suggest
  MaxRetries,    \* 6 in the code
  MaxAttempts,   \* bound: attempts under way at a time, in all tabs
  MaxUploads,    \* bound: upload ids ever issued
  MaxLate        \* bound: requests given up on that are still on their way

ASSUME ClientAssumption ==
  /\ Size \in Nat \ {0} /\ ChunkBytes \in Nat \ {0} /\ MaxRetries \in Nat
  /\ {MaxAttempts, MaxUploads, MaxLate} \subseteq Nat
  /\ Pieces \subseteq Nat \ {0} /\ Pieces # {} /\ Files # {}

VARIABLES
  rows,       \* the uploads table: id -> session
  lastId,     \* ids ever issued
  serving,    \* the chunk requests that hold the lock of their upload
  requests,   \* requests on their way
  answers,    \* per attempt: the answer that has come, if any
  attempt,    \* per attempt under way: its locals
  tab         \* per tab: what its page shows, and the attempt its button cuts

clientVars == <<rows, lastId, serving, requests, answers, attempt, tab>>

UploadIds == 1..MaxUploads
NoId      == 0
Attempts  == 1..MaxAttempts
NoControl == 0
Sending   == {"checking", "uploading", "retrying", "submitting"}
CallKinds == {"open", "chunk", "sync", "complete", "list"}
Awaits    == CallKinds \cup {"delay"}

UploadRow == [file: Files, state: {"uploading", "submitting", "submitted"},
              data: Seq(Files \X (1..Size))]
Attempt   == [tab: Tabs, awaits: Awaits, id: UploadIds \cup {NoId}, file: Files, offset: 0..Size,
              state: {"uploading", "submitting", "submitted"}, bytes: 1..ChunkBytes,
              retries: 0..MaxRetries, aborted: BOOLEAN]
Tab       == [phase: Sending \cup {"idle", "paused", "done"}, file: Files,
              id: UploadIds \cup {NoId}, control: Attempts \cup {NoControl}]

\* An attempt that is over, or has not begun.
NoAttempt == [awaits |-> "none"]

\* Answers: a session; 401, 403, 404, 413, 415 and 507; 400; any other error, or none.
View(id, row) ==
  [kind |-> "ok", id |-> id, file |-> row.file, state |-> row.state, offset |-> Len(row.data)]
NoAnswer  == [kind |-> "none"]
Fatal     == [kind |-> "fatal"]
BadLength == [kind |-> "length"]
Refused   == [kind |-> "refused"]

Offset(id) == Len(rows[id].data)
Locked(id) == \E r \in serving : r.id = id
Bytes(f, from, n) == [i \in 1..n |-> <<f, from + i>>]

NewTab(f) == [phase |-> "idle", file |-> f, id |-> NoId, control |-> NoControl]

ClientInit ==
  /\ rows = <<>> /\ lastId = 0 /\ serving = {} /\ requests = {}
  /\ answers = [a \in Attempts |-> NoAnswer]
  /\ attempt = [a \in Attempts |-> NoAttempt]
  /\ tab \in [Tabs -> {NewTab(f) : f \in Files}]

-------------------------------------------------------------------------------
(* The portal.                                                               *)

\* An answer reaches its attempt unless that has given the request up.
Give(r, answer) ==
  /\ requests' = requests \ {r}
  /\ answers' = IF r.live THEN [answers EXCEPT ![r.by] = answer] ELSE answers
  /\ UNCHANGED <<attempt, tab>>

\* The unsubmitted session of the same file: also what a lost create left.
Previous(f) == {id \in DOMAIN rows : rows[id].file = f /\ rows[id].state # "submitted"}

\* GET of a known session, or POST of a new one.
ServeOpen(r) ==
  /\ r.kind \in {"open", "sync"}
  /\ LET found == IF r.id # NoId THEN {r.id} \cap DOMAIN rows ELSE Previous(r.file)
         new   == [file |-> r.file, state |-> "uploading", data |-> <<>>]
     IN  \/ /\ \E id \in found : Give(r, View(id, rows[id]))
            /\ UNCHANGED <<rows, lastId>>
         \/ /\ found = {} /\ r.id = NoId /\ lastId < MaxUploads
            /\ lastId' = lastId + 1
            /\ rows' = [id \in DOMAIN rows \cup {lastId'} |-> IF id = lastId' THEN new ELSE rows[id]]
            /\ Give(r, View(lastId', new))
         \/ /\ found = {} /\ r.id # NoId
            /\ Give(r, Fatal)
            /\ UNCHANGED <<rows, lastId>>
  /\ UNCHANGED serving

\* receiveChunk's bounds; a piece is at least one unit.
Fits(r) == r.n \in 1..Min({ChunkBytes, Size - r.offset})

ServeChunk(r) ==
  /\ r.kind = "chunk"
  /\ IF r.id \notin DOMAIN rows THEN Give(r, Fatal) /\ UNCHANGED serving
     ELSE IF Locked(r.id) \/ rows[r.id].state # "uploading" \/ r.offset # Offset(r.id)
     THEN Give(r, Refused) /\ UNCHANGED serving
     ELSE IF ~ Fits(r) THEN Give(r, BadLength) /\ UNCHANGED serving
     ELSE /\ serving' = serving \cup {r}
          /\ requests' = requests \ {r}
          /\ UNCHANGED <<answers, attempt, tab>>
  /\ UNCHANGED <<rows, lastId>>

\* The piece is committed, or cut off, corrupted or refused by the disk.
EndChunk(r) ==
  /\ serving' = serving \ {r}
  /\ \/ /\ rows' = [rows EXCEPT ![r.id].data = @ \o Bytes(r.file, r.offset, r.n)]
        /\ Give(r, View(r.id, rows'[r.id]))
     \/ Give(r, Refused) /\ UNCHANGED rows
  /\ UNCHANGED lastId

\* A submission the engine does not confirm at once stays submitting.
ServeComplete(r) ==
  /\ r.kind = "complete"
  /\ IF r.id \notin DOMAIN rows THEN Give(r, Fatal) /\ UNCHANGED rows
     ELSE IF Locked(r.id) \/ Offset(r.id) # Size THEN Give(r, Refused) /\ UNCHANGED rows
     ELSE \E state \in {"submitting", "submitted"} :
            /\ rows[r.id].state = "submitted" => state = "submitted"
            /\ rows' = [rows EXCEPT ![r.id].state = state]
            /\ Give(r, View(r.id, rows'[r.id]))
  /\ UNCHANGED <<lastId, serving>>

ServeList(r) ==
  r.kind = "list" /\ Give(r, [kind |-> "listed"]) /\ UNCHANGED <<rows, lastId, serving>>

ServeRequest(r) == ServeOpen(r) \/ ServeChunk(r) \/ ServeComplete(r) \/ ServeList(r)

\* Maintenance confirms a submission; an abandoned or finished session is removed.
Confirm(id) ==
  /\ rows[id].state = "submitting" /\ ~ Locked(id)
  /\ rows' = [rows EXCEPT ![id].state = "submitted"]
  /\ UNCHANGED <<lastId, serving, requests, answers, attempt, tab>>

RemoveSession(id) ==
  /\ rows[id].state # "submitting" /\ ~ Locked(id)
  /\ rows' = [i \in DOMAIN rows \ {id} |-> rows[i]]
  /\ UNCHANGED <<lastId, serving, requests, answers, attempt, tab>>

-------------------------------------------------------------------------------
(* The page and its attempts.                                                *)

\* Attempt `a' goes on as `new', which may send a request; its page is now `page'.
Goes(a, new, t, page) ==
  /\ attempt' = [attempt EXCEPT ![a] = new]
  /\ tab' = [tab EXCEPT ![t] = page]
  /\ requests' = requests \cup
       {[kind |-> new.awaits, by |-> a, id |-> new.id, file |-> new.file, offset |-> new.offset,
         n |-> Min({new.bytes, Size - new.offset}), live |-> TRUE]
          : k \in {new.awaits} \cap CallKinds}
  /\ answers' = [answers EXCEPT ![a] = NoAnswer]
  /\ UNCHANGED <<rows, lastId, serving>>

\* The loop's head: one more piece, or complete.
Continue(w) ==
  CASE w.aborted -> NoAttempt
    [] ~ w.aborted /\ w.state = "uploading" /\ w.offset < Size -> [w EXCEPT !.awaits = "chunk"]
    [] OTHER -> [w EXCEPT !.awaits = "complete"]

\* select(): a file, for the session whose button was pressed or for none.
Select(t, f, id) ==
  /\ tab[t].phase \notin Sending
  /\ id # NoId => rows[id].state = "uploading"
  /\ tab' = [tab EXCEPT ![t].phase = "idle", ![t].file = f, ![t].id = id]
  /\ UNCHANGED <<rows, lastId, serving, requests, answers, attempt>>

Begun(t) == [tab |-> t, awaits |-> "open", id |-> tab[t].id, file |-> tab[t].file, offset |-> 0,
             state |-> "uploading", bytes |-> 1, retries |-> 0, aborted |-> FALSE]

\* The button is there when the page is idle or paused; an earlier attempt may still wait.
start(t) ==
  /\ tab[t].phase \in {"idle", "paused"}
  /\ \E a \in Attempts :
       /\ attempt[a] = NoAttempt /\ \A b \in 1..(a - 1) : attempt[b] # NoAttempt
       /\ Goes(a, Begun(t), t, [tab[t] EXCEPT !.phase = "checking", !.control = a])

\* Mutant: the session found is not compared with the file.
AnyFile(w, a) == a.kind = "ok"

\* The session must be the file's: its fingerprint is compared.
SameFile(w, a) == a.kind = "ok" /\ a.file = w.file

Learns(w, a) == [w EXCEPT !.id = a.id, !.offset = a.offset, !.state = a.state]

Opened(w, a) == IF SameFile(w, a) THEN Continue(Learns(w, a)) ELSE NoAttempt

\* nextTransferBytes: what the speed suggests, within the session's limit.
nextTransferBytes(piece) == Min({piece, ChunkBytes})

\* Mutant: retries are counted only while the session answers.
RetriedForEver(w) == w.retries

Retries(w) == w.retries + 1

\* A piece was not acknowledged: wait and ask, unless that is hopeless.
Unacknowledged(w, a) ==
  IF w.aborted \/ a = Fatal \/ Retries(w) > MaxRetries THEN NoAttempt
  ELSE [w EXCEPT !.awaits = "delay", !.retries = Retries(w), !.bytes = 1]

ChunkAnswered(w, a) ==
  IF a.kind = "ok"
  THEN {Continue([Learns(w, a) EXCEPT !.retries = 0, !.bytes = nextTransferBytes(p)])
          : p \in Pieces}
  ELSE {Unacknowledged(w, a)}

\* Without an answer the attempt goes on with the offset it knew.
Synced(w, a) ==
  CASE a.kind = "ok" -> Continue(Learns(w, a)) [] a = Fatal -> NoAttempt [] OTHER -> Continue(w)

\* The locals of the loop are gone.
Completed(w, a) ==
  IF a.kind = "ok" THEN [Learns(w, a) EXCEPT !.awaits = "list", !.retries = 0, !.bytes = 1]
  ELSE NoAttempt

Reactions(w, a) ==
  CASE w.awaits = "open"     -> {Opened(w, a)}
    [] w.awaits = "chunk"    -> ChunkAnswered(w, a)
    [] w.awaits = "sync"     -> {Synced(w, a)}
    [] w.awaits = "complete" -> {Completed(w, a)}
    [] w.awaits = "list"     -> {NoAttempt}

\* What the page is told by an attempt that goes on as `new': the last one to speak is shown.
\* A list that has come says nothing; one that has not says paused, whatever is going on.
Phase == [open |-> "checking", chunk |-> "uploading", delay |-> "retrying",
          complete |-> "submitting", list |-> "done", none |-> "paused"]

Released(page, a, new) ==
  IF new = NoAttempt /\ page.control = a THEN [page EXCEPT !.control = NoControl] ELSE page

Shown(page, a, new) ==
  LET w == attempt[a]
      answer == answers[a]
  IN  [Released(page, a, new) EXCEPT
         !.phase = IF answer.kind = "listed" THEN @ ELSE Phase[new.awaits],
         !.id    = IF SameFile(w, answer) /\ w.awaits # "sync" THEN answer.id ELSE @]

Receive(a) ==
  /\ answers[a] # NoAnswer
  /\ LET t == attempt[a].tab
     IN  \E new \in Reactions(attempt[a], answers[a]) : Goes(a, new, t, Shown(tab[t], a, new))

\* The delay is over.
Resync(a) ==
  /\ attempt[a].awaits = "delay"
  /\ LET t == attempt[a].tab IN Goes(a, [attempt[a] EXCEPT !.awaits = "sync"], t, tab[t])

Effective(r) == r.kind \in {"chunk", "complete"} \/ (r.kind = "open" /\ r.id = NoId)

\* An attempt gives its request up: it is gone, or it may still be served, which
\* matters only if it changes something.
GivenUp(a, set) == {[r EXCEPT !.live = r.live /\ r.by # a] : r \in set}
GiveUp(a) ==
  /\ \E lost \in SUBSET {r \in requests : r.by = a /\ r.live} :
       /\ requests' = GivenUp(a, requests \ lost)
       /\ \A r \in requests' : r.live \/ Effective(r)
  /\ Cardinality({r \in requests' : ~ r.live}) <= MaxLate
  /\ serving' = GivenUp(a, serving)
  /\ UNCHANGED <<rows, lastId>>

\* The connection breaks, or the request times out.
Lose(a) ==
  /\ attempt[a].awaits \in CallKinds /\ answers[a] = NoAnswer
  /\ GiveUp(a)
  /\ answers' = [answers EXCEPT ![a] = Refused]
  /\ UNCHANGED <<attempt, tab>>

\* The button, or the page's unmount: of the attempt that was begun last it cuts a piece
\* and a delay, nothing else.
Pause(t) ==
  /\ tab[t].phase \in Sending \ {"submitting"} /\ tab[t].control # NoControl
  /\ LET a == tab[t].control
         w == attempt[a]
     IN  /\ ~ w.aborted
         /\ IF w.awaits \in {"chunk", "delay"}
            THEN /\ attempt' = [attempt EXCEPT ![a] = NoAttempt]
                 /\ tab' = [tab EXCEPT ![t].phase = "paused", ![t].control = NoControl]
                 /\ answers' = [answers EXCEPT ![a] = NoAnswer]
                 /\ GiveUp(a)
            ELSE /\ attempt' = [attempt EXCEPT ![a].aborted = TRUE]
                 /\ UNCHANGED <<rows, lastId, serving, requests, answers, tab>>

ClientNext ==
  \/ \E t \in Tabs :
       \/ start(t) \/ Pause(t)
       \/ \E f \in Files, id \in DOMAIN rows \cup {NoId} : Select(t, f, id)
  \/ \E a \in Attempts : Receive(a) \/ Resync(a) \/ Lose(a)
  \/ \E r \in requests : ServeRequest(r)
  \/ \E r \in serving : EndChunk(r)
  \/ \E id \in DOMAIN rows : Confirm(id) \/ RemoveSession(id)

ClientSpec == ClientInit /\ [][ClientNext]_clientVars

Served(a) == \E r \in requests : r.by = a /\ r.live /\ ServeRequest(r)
Ended(a)  == \E r \in serving : r.by = a /\ r.live /\ EndChunk(r)

\* An attempt goes on when it can, and every request is answered or times out.
ClientFairness ==
  \A a \in Attempts : /\ WF_clientVars(Receive(a)) /\ WF_clientVars(Resync(a))
                      /\ WF_clientVars(Served(a) \/ Ended(a) \/ Lose(a))

ClientLiveSpec == ClientSpec /\ ClientFairness

-------------------------------------------------------------------------------
(* The state is well formed.                                                 *)
ClientTypeOK ==
  /\ DOMAIN rows \subseteq 1..lastId /\ lastId \in 0..MaxUploads
  /\ \A id \in DOMAIN rows : rows[id] \in UploadRow
  /\ \A r, s \in serving : r.id = s.id => r = s
  /\ attempt \in [Attempts -> Attempt \cup {NoAttempt}]
  /\ tab \in [Tabs -> Tab]

(* However pages pause, lose answers, resume, pick another file of that name *)
(* or meet in one session: what it holds is one file's beginning, in order.  *)
OneFileInOrder ==
  \A id \in DOMAIN rows : rows[id].data = Bytes(rows[id].file, 0, Offset(id))

(* A file has one unsubmitted session, also after a lost create answer.      *)
OneSessionPerFile ==
  \A i, j \in DOMAIN rows :
    rows[i].file = rows[j].file /\ "submitted" \notin {rows[i].state, rows[j].state} => i = j

(* An attempt never believes more than is durable, so that nothing is        *)
(* skipped; and a page says done only of a session that has every byte.      *)
NeverAhead ==
  /\ \A a \in Attempts :
       attempt[a] # NoAttempt /\ attempt[a].id \in DOMAIN rows =>
         attempt[a].offset <= Offset(attempt[a].id)
  /\ \A t \in Tabs : tab[t].phase = "done" /\ tab[t].id \in DOMAIN rows =>
       rows[tab[t].id].state # "uploading" /\ Offset(tab[t].id) = Size

(* Whichever attempt spoke last, a page says that it is sending only while   *)
(* one of its attempts is.                                                   *)
SendingIsTrue ==
  \A t \in Tabs : tab[t].phase \in Sending =>
    \E a \in Attempts : attempt[a].awaits \notin {"none", "list"} /\ attempt[a].tab = t

(* The two sides' arithmetic agrees: a piece of the size the attempt has     *)
(* chosen, sent at the right offset, is never refused for its length.        *)
PiecesFit == \A a \in Attempts : answers[a] # BadLength

(* Every attempt ends, done or paused, whatever others and losses do.        *)
AttemptsEnd == \A a \in Attempts : []<>(attempt[a] = NoAttempt)

(* What the portal stores of a file is that file, once and from its start.   *)
UploadInv == ClientTypeOK /\ OneFileInOrder /\ OneSessionPerFile /\ PiecesFit

(* An attempt goes on until it is done or paused, never past what is stored, *)
(* and the page says so.                                                     *)
UploadsAdvance == [](NeverAhead /\ SendingIsTrue) /\ AttemptsEnd
===============================================================================
