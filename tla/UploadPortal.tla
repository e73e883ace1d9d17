----------------------------- MODULE UploadPortal -----------------------------
(***************************************************************************)
(* The upload portal: its table, its files, and its client of the engine.  *)
(*                                                                         *)
(* The portal is one Node process.  A handler runs undisturbed up to an    *)
(* await; from there to its next await, other handlers and the engine go   *)
(* on.  A handler is therefore a state machine whose stages are the awaits *)
(* of the code.  The locks (`locked'), the registered downloads and the    *)
(* transfer counter are released in finally blocks and once-only callbacks:*)
(* they are functions of the handlers in progress, and a crash clears them.*)
(*                                                                         *)
(* A file is a sequence of units, each as its sender meant it or not.  The *)
(* engine is as small as a client can see it: JobEngine has the whole.     *)
(*                                                                         *)
(* Left out: sessions and login, quotas in bytes, symbolic links, the 5 s  *)
(* cache of job states, and what a handler whose client has gone away      *)
(* still does, which changes nothing but an empty folder.                  *)
(***************************************************************************)
EXTENDS SequencesExt

CONSTANTS
  MaxUploads,     \* bound: upload ids ever issued
  Files,          \* what a client uploads: name, size, fingerprint and preset
  Size,           \* the units of a file
  MaxActive,      \* config.maxActive
  MaxTransfers,   \* config.maxTransfers
  Requests,       \* slots for the clients' concurrent requests
  Maintenance     \* the slot of the timer's maintenance run

ASSUME PortalAssumption ==
  /\ MaxUploads \in Nat /\ Size \in Nat \ {0} /\ MaxActive \in Nat /\ MaxTransfers \in Nat
  /\ IsFiniteSet(Requests) /\ Maintenance \notin Requests

VARIABLES
  rows,       \* the uploads table
  order,      \* its ids by updated_at
  issued,     \* number of ids issued
  part,       \* per id: the contents of source.part; empty when absent
  source,     \* per id: the contents of the renamed source; empty when absent
  engine,     \* per id: the job of key upload-<id>, as the engine has it
  late,       \* engine requests given up on that the engine may still serve
  handlers    \* per slot: the handler that runs there, at its current await

files == <<part, source>>
table == <<rows, order, issued>>
vars  == <<rows, order, issued, part, source, engine, late, handlers>>

Ids   == 1..MaxUploads
Slots == Requests \cup {Maintenance}

States      == {"uploading", "ready", "submitting", "submitted"}
Row         == [file: Files, state: States, offset: 0..Size, job: BOOLEAN]
Units       == {"ok", "bad"}
EngineJob   == [status: {"none", "ACTIVE", "COMPLETED", "FAILED", "CANCELLED"},
                live: BOOLEAN, claimed: BOOLEAN]
Effective   == {"create", "claim", "cancel"}
Operations  == Effective \cup {"status"}

\* What a handler works on: an id, with the row as it was when it was read.
Item        == [u: Ids, state: States, job: BOOLEAN]
Snapshot(u) == [u |-> u, state |-> rows[u].state, job |-> rows[u].job]

Local   == {"open", "writing", "check", "ready", "submit", "created",
            "access", "remove", "removed"}
Serving == {"locate", "stream"}
Stages  == Local \cup Serving \cup Operations

Idle    == [at |-> "idle"]
Expire  == [at |-> "expire"]
Working == [at: Stages, item: Item, n: 0..Size, rest: Seq(Item)]
Work(stage, item, n, rest) == [at |-> stage, item |-> item, n |-> n, rest |-> rest]

At(s, stages) == handlers[s].at \in stages
Busy(s)       == handlers[s] \notin {Idle, Expire}
On(s, u)      == Busy(s) /\ handlers[s].item.u = u
Upload(s)     == handlers[s].item.u

Locks(s)       == Busy(s) /\ ~ At(s, Serving \cup {"status"})
Locked(u)      == \E s \in Slots : Locks(s) /\ On(s, u)
Downloading(u) == \E s \in Slots : At(s, Serving \cup {"status"}) /\ On(s, u)
Transfers      == Cardinality({s \in Slots : At(s, {"open", "writing", "stream"})})

Become(s, state) == handlers' = [handlers EXCEPT ![s] = state]
Advance(s, stage) == Become(s, [handlers[s] EXCEPT !.at = stage])

\* The ids by updated_at without u, which is there once if at all.
Without(u) ==
  IF u \in Range(order) THEN RemoveAt(order, CHOOSE i \in DOMAIN order : order[i] = u)
                        ELSE order

\* An UPDATE that sets updated_at.
Update(u, row) ==
  /\ rows' = [rows EXCEPT ![u] = row]
  /\ order' = Append(Without(u), u)
  /\ UNCHANGED issued

------------------------------------------------------------------------------
(* The engine, and the portal's requests to it.                            *)

NoEngineJob == [status |-> "none", live |-> FALSE, claimed |-> FALSE]
Accepted(op, u) ==
  CASE op = "create" -> engine[u].live \/ engine[u] = NoEngineJob
    [] op = "claim"  -> engine[u].status \in {"COMPLETED", "FAILED"}
    [] op = "cancel" -> engine[u].live
    [] op = "status" -> engine[u].status = "COMPLETED"

\* Mutant: cleanup asked of the engine with claim = false.
ServedUnclaimed(op, u) ==
  CASE op = "create" /\ engine[u] = NoEngineJob ->
         [status |-> "ACTIVE", live |-> TRUE, claimed |-> FALSE]
    [] op = "cancel" /\ engine[u].live /\ engine[u].status = "ACTIVE" ->
         [engine[u] EXCEPT !.status = "CANCELLED"]
    [] OTHER -> engine[u]

\* The key makes a repeated create find its job; a removed job refuses it.
Served(op, u) ==
  CASE op = "create" /\ engine[u] = NoEngineJob ->
         [status |-> "ACTIVE", live |-> TRUE, claimed |-> FALSE]
    [] op = "claim" /\ Accepted(op, u) -> [engine[u] EXCEPT !.claimed = TRUE]
    [] op = "cancel" /\ engine[u].live /\ engine[u].status = "ACTIVE" ->
         [engine[u] EXCEPT !.status = "CANCELLED"]
    [] OTHER -> engine[u]

Serve(op, u) == engine' = [engine EXCEPT ![u] = Served(op, u)]

\* Workers, users and administrators act on the job without the portal.
EngineMoves(u) ==
  /\ \/ /\ engine[u].status = "ACTIVE"
        /\ \E end \in {"COMPLETED", "FAILED", "CANCELLED"} :
             engine' = [engine EXCEPT ![u].status = end]
     \/ /\ engine[u].status = "FAILED" /\ engine[u].live /\ ~ engine[u].claimed
        /\ engine' = [engine EXCEPT ![u].status = "ACTIVE"]
     \/ /\ engine[u].status \in {"COMPLETED", "FAILED", "CANCELLED"} /\ engine[u].live
        /\ engine' = [engine EXCEPT ![u].live = FALSE]
  /\ UNCHANGED <<table, files, late, handlers>>

ServeLate(request) ==
  /\ late' = late \ {request}
  /\ Serve(request.op, request.u)
  /\ UNCHANGED <<table, files, handlers>>

------------------------------------------------------------------------------
(* One handler takes its items one by one.                                 *)

\* Skip the items another handler has locked, go on with the next, or finish.
NextItem(s, rest) ==
  LET free == {i \in DOMAIN rest : \A t \in Slots \ {s} : ~ (Locks(t) /\ On(t, rest[i].u))}
  IN  \/ free = {} /\ Become(s, Idle)
      \/ \E i \in free :
           /\ \A j \in free : i <= j
           /\ Become(s, Work(IF s = Maintenance THEN "remove" ELSE "access",
                             rest[i], 0, SubSeq(rest, i + 1, Len(rest))))

\* An error: a batch goes on with its next item, maintenance with its second
\* half unless it is there already, and any other handler ends.
Abandon(s) ==
  IF s = Maintenance THEN Become(s, IF At(s, {"create"}) THEN Expire ELSE Idle)
  ELSE IF At(s, {"access", "claim", "remove", "removed"}) THEN NextItem(s, handlers[s].rest)
  ELSE Become(s, Idle)

\* Errors that leave everything as it is, the end of a download among them.
Fails(s) ==
  /\ At(s, {"open", "check", "access", "remove", "removed"} \cup Serving)
  /\ Abandon(s)
  /\ UNCHANGED <<table, files, engine, late>>

Answered(s) ==
  /\ At(s, Operations)
  /\ LET op == handlers[s].at
     IN  /\ Accepted(op, Upload(s))
         /\ Serve(op, Upload(s))
         /\ CASE op = "create" -> Advance(s, "created")
              [] op = "claim"  -> Advance(s, "remove")
              [] op = "cancel" -> Become(s, Idle)
              [] op = "status" -> IF Transfers < MaxTransfers THEN Advance(s, "locate")
                                                              ELSE Become(s, Idle)
  /\ UNCHANGED <<table, files, late>>

\* The engine refuses, or serves the request and its answer is lost.
NotAnswered(s) ==
  /\ At(s, Operations)
  /\ Serve(handlers[s].at, Upload(s))
  /\ Abandon(s)
  /\ UNCHANGED <<table, files, late>>

\* Requests that may reach the engine after these handlers have given them up.
GivenUp(slots) ==
  {[op |-> handlers[s].at, u |-> Upload(s)] : s \in {t \in slots : At(t, Effective)}}

TimesOut(s) ==
  /\ At(s, Operations)
  /\ \E sent \in SUBSET GivenUp({s}) : late' = late \cup sent
  /\ Abandon(s)
  /\ UNCHANGED <<table, files, engine>>

------------------------------------------------------------------------------
(* Receiving a file.                                                       *)

Open(s, u)   == s \in Requests /\ handlers[s] = Idle /\ u \in DOMAIN rows
Begin(s, stage, u) == Become(s, Work(stage, Snapshot(u), 0, <<>>))

\* A create that finds its file's unsubmitted session returns that session.
Create(f) ==
  /\ \A u \in DOMAIN rows : rows[u].file = f => rows[u].state = "submitted"
  /\ Cardinality({u \in DOMAIN rows : rows[u].state # "submitted"}) < MaxActive
  /\ issued < MaxUploads
  /\ issued' = issued + 1
  /\ LET new == [file |-> f, state |-> "uploading", offset |-> 0, job |-> FALSE]
     IN  rows' = [u \in DOMAIN rows \cup {issued'} |-> IF u = issued' THEN new ELSE rows[u]]
  /\ order' = Append(order, issued')
  /\ UNCHANGED <<files, engine, late, handlers>>

\* The lengths a chunk may have.
Lengths(u) == 1 .. Size - rows[u].offset

BeginChunk(s, u) ==
  /\ Open(s, u) /\ ~ Locked(u) /\ Transfers < MaxTransfers
  /\ rows[u].state = "uploading"
  /\ \E n \in Lengths(u) : Become(s, Work("open", Snapshot(u), n, <<>>))
  /\ UNCHANGED <<table, files, engine, late>>

Truncate(u) == part' = [part EXCEPT ![u] = SubSeq(@, 1, rows[u].offset)]

OpenPart(s) ==
  /\ At(s, {"open"})
  /\ Len(part[Upload(s)]) >= rows[Upload(s)].offset
  /\ Truncate(Upload(s))
  /\ Advance(s, "writing")
  /\ UNCHANGED <<table, source, engine, late>>

Received(u) == Len(part[u]) - rows[u].offset

WriteUnit(s) ==
  /\ At(s, {"writing"}) /\ Received(Upload(s)) < handlers[s].n
  /\ \E x \in Units : part' = [part EXCEPT ![Upload(s)] = Append(@, x)]
  /\ UNCHANGED <<table, source, engine, late, handlers>>

\* Mutant: the digest is not compared.
LengthMatches(u) == Received(u) >= 0

\* The digest of what arrived is the one the client declared.
DigestMatches(u) == \A i \in rows[u].offset + 1 .. Len(part[u]) : part[u][i] = "ok"

CommitChunk(s) ==
  /\ At(s, {"writing"}) /\ Received(Upload(s)) = handlers[s].n
  /\ DigestMatches(Upload(s))
  /\ Update(Upload(s), [rows[Upload(s)] EXCEPT !.offset = Len(part[Upload(s)])])
  /\ Become(s, Idle)
  /\ UNCHANGED <<files, engine, late>>

FailChunk(s) ==
  /\ At(s, {"writing"})
  /\ Truncate(Upload(s))
  /\ Become(s, Idle)
  /\ UNCHANGED <<table, source, engine, late>>

------------------------------------------------------------------------------
(* Completing and submitting.                                              *)

\* submit() up to its request: the state is stored before the request is sent.
Submit(s, u) ==
  /\ Update(u, [rows[u] EXCEPT !.state = "submitting"])
  /\ Begin(s, "create", u)

BeginComplete(s, u) ==
  /\ Open(s, u) /\ ~ Locked(u)
  /\ \/ rows[u].state = "uploading" /\ Begin(s, "check", u) /\ UNCHANGED table
     \/ rows[u].state # "uploading" /\ ~ rows[u].job /\ Submit(s, u)
  /\ UNCHANGED <<files, engine, late>>

\* completeFile up to its rename; a repeat finds the file renamed already.
CheckFile(s) ==
  LET u == Upload(s)
      file == IF source[u] # <<>> THEN source[u] ELSE part[u]
  IN
  /\ At(s, {"check"})
  /\ rows[u].offset = Size /\ Len(file) = Size
  /\ source' = [source EXCEPT ![u] = file]
  /\ part' = IF source[u] # <<>> THEN part ELSE [part EXCEPT ![u] = <<>>]
  /\ Advance(s, "ready")
  /\ UNCHANGED <<table, engine, late>>

MarkReady(s) ==
  /\ At(s, {"ready"})
  /\ Update(Upload(s), [rows[Upload(s)] EXCEPT !.state = "ready"])
  /\ Advance(s, "submit")
  /\ UNCHANGED <<files, engine, late>>

SubmitReady(s) ==
  /\ At(s, {"submit"})
  /\ Submit(s, Upload(s))
  /\ UNCHANGED <<files, engine, late>>

\* Mutant: the new state is stored, its job_id keeps the old value.
StoreState(s) ==
  /\ At(s, {"created"})
  /\ Update(Upload(s), [rows[Upload(s)] EXCEPT !.state = "submitted"])
  /\ Become(s, IF s = Maintenance THEN Expire ELSE Idle)
  /\ UNCHANGED <<files, engine, late>>

StoreJob(s) ==
  /\ At(s, {"created"})
  /\ Update(Upload(s), [rows[Upload(s)] EXCEPT !.state = "submitted", !.job = TRUE])
  /\ Become(s, IF s = Maintenance THEN Expire ELSE Idle)
  /\ UNCHANGED <<files, engine, late>>

BeginCancel(s, u) ==
  /\ Open(s, u) /\ ~ Locked(u) /\ rows[u].job
  /\ Begin(s, "cancel", u)
  /\ UNCHANGED <<table, files, engine, late>>

------------------------------------------------------------------------------
(* Cleaning up.                                                            *)

\* Every record of a batch is read here; DELETE is the batch of one.
BeginDelete(s, us) ==
  /\ s \in Requests /\ handlers[s] = Idle
  /\ us \in Seq(DOMAIN rows) /\ IsInjective(us)
  /\ NextItem(s, [i \in DOMAIN us |-> Snapshot(us[i])])
  /\ UNCHANGED <<table, files, engine, late>>

\* Mutant: downloads are not asked about.
Decided(item) == item.state \notin {"ready", "submitting"}

\* cleanupAccess decides on the record the batch has read.
Deletable(item) == item.state \notin {"ready", "submitting"} /\ ~ Downloading(item.u)

CheckAccess(s) ==
  /\ At(s, {"access"})
  /\ Deletable(handlers[s].item)
  /\ Advance(s, IF handlers[s].item.job THEN "claim" ELSE "remove")
  /\ UNCHANGED <<table, files, engine, late>>

RemoveFiles(s) ==
  /\ At(s, {"remove"})
  /\ part' = [part EXCEPT ![Upload(s)] = <<>>]
  /\ source' = [source EXCEPT ![Upload(s)] = <<>>]
  /\ Advance(s, "removed")
  /\ UNCHANGED <<table, engine, late>>

DeleteRow(s) ==
  /\ At(s, {"removed"})
  /\ rows' = [u \in DOMAIN rows \ {Upload(s)} |-> rows[u]]
  /\ order' = Without(Upload(s))
  /\ NextItem(s, handlers[s].rest)
  /\ UNCHANGED <<issued, files, engine, late>>

------------------------------------------------------------------------------
(* Downloading.                                                            *)

BeginDownload(s, u) ==
  /\ Open(s, u) /\ ~ Locked(u) /\ rows[u].job
  /\ Begin(s, "status", u)
  /\ UNCHANGED <<table, files, engine, late>>

\* The limit is checked again: other transfers may have begun meanwhile.
StartStream(s) ==
  /\ At(s, {"locate"})
  /\ IF Transfers < MaxTransfers THEN Advance(s, "stream") ELSE Become(s, Idle)
  /\ UNCHANGED <<table, files, engine, late>>

------------------------------------------------------------------------------
(* Maintenance: every 30 s, one run at a time.                             *)

\* Mutant: maintenance retries what was sent, not what was only ready.
Sent == {"submitting"}

Retried == {"submitting", "ready"}

\* The oldest by updated_at of those, when nobody has it locked.
Due(u) ==
  \E i \in DOMAIN order :
    /\ order[i] = u /\ rows[u].state \in Retried /\ ~ Locked(u)
    /\ \A j \in 1..i - 1 : rows[order[j]].state \notin Retried

MaintenanceSubmits(u) ==
  /\ handlers[Maintenance] = Idle
  /\ Due(u)
  /\ Submit(Maintenance, u)
  /\ UNCHANGED <<files, engine, late>>

\* Run after a submission, or at once when none is due.  Time is not modelled:
\* any session still uploading may have expired.
RemoveExpired(us) ==
  /\ \/ handlers[Maintenance] = Expire
     \/ handlers[Maintenance] = Idle /\ \A u \in Ids : ~ Due(u)
  /\ us \in Seq({u \in DOMAIN rows : rows[u].state = "uploading"})
  /\ Len(us) <= 2 /\ IsInjective(us)
  /\ NextItem(Maintenance, [i \in DOMAIN us |-> Snapshot(us[i])])
  /\ UNCHANGED <<table, files, engine, late>>

\* The process dies; what its requests to the engine still do is open.
Restart ==
  /\ handlers' = [s \in Slots |-> Idle]
  /\ \E sent \in SUBSET GivenUp(Slots) : late' = late \cup sent
  /\ UNCHANGED <<table, files, engine>>

------------------------------------------------------------------------------
Init ==
  /\ rows = <<>> /\ order = <<>> /\ issued = 0
  /\ part = [u \in Ids |-> <<>>] /\ source = [u \in Ids |-> <<>>]
  /\ engine = [u \in Ids |-> NoEngineJob] /\ late = {}
  /\ handlers = [s \in Slots |-> Idle]

Selections == SeqOf(DOMAIN rows, MaxUploads)

Begins ==
  \/ \E f \in Files : Create(f)
  \/ \E s \in Requests, u \in DOMAIN rows :
       BeginChunk(s, u) \/ BeginComplete(s, u) \/ BeginCancel(s, u) \/ BeginDownload(s, u)
  \/ \E s \in Requests, us \in Selections : BeginDelete(s, us)

\* What handler s does of itself, with or without an answer.
Proceeds(s) ==
  \/ Fails(s) \/ NotAnswered(s) \/ TimesOut(s)
  \/ OpenPart(s) \/ CommitChunk(s) \/ FailChunk(s)
  \/ CheckFile(s) \/ MarkReady(s) \/ SubmitReady(s) \/ StoreJob(s)
  \/ CheckAccess(s) \/ RemoveFiles(s) \/ DeleteRow(s) \/ StartStream(s)

Maintains ==
  \/ \E u \in Ids : MaintenanceSubmits(u)
  \/ \E us \in Selections : RemoveExpired(us)

Next ==
  \/ Begins \/ Maintains \/ Restart
  \/ \E s \in Slots : Proceeds(s) \/ WriteUnit(s) \/ Answered(s)
  \/ \E u \in Ids : EngineMoves(u)
  \/ \E request \in late : ServeLate(request)

Spec == Init /\ [][Next]_vars

JobCreated(u) == \E s \in Slots : At(s, {"create"}) /\ On(s, u) /\ Answered(s)
JobStored(u)  == \E s \in Slots : On(s, u) /\ StoreJob(s)

\* Every wait ends (each has a deadline) and the timer keeps firing.  Timer
\* ticks do not for ever coincide with a client's lock, answers are not for
\* ever lost, and the process does not for ever die at the same place.
Fairness ==
  /\ \A s \in Slots : WF_vars(Proceeds(s))
  /\ WF_vars(Maintains)
  /\ \A u \in Ids : /\ SF_vars(MaintenanceSubmits(u))
                    /\ SF_vars(JobCreated(u)) /\ SF_vars(JobStored(u))

LiveSpec == Spec /\ Fairness

------------------------------------------------------------------------------
(* Properties.                                                             *)

Unconfirmed == {"submitting", "ready"}

\* The table, the files and the handlers are well formed.
TypeOK ==
  /\ issued \in 0..MaxUploads /\ DOMAIN rows \subseteq 1..issued
  /\ rows \in [DOMAIN rows -> Row]
  /\ order \in Seq(DOMAIN rows) /\ IsInjective(order) /\ Range(order) = DOMAIN rows
  /\ part \in [Ids -> Seq(Units)] /\ source \in [Ids -> Seq(Units)]
  /\ engine \in [Ids -> EngineJob]
  /\ late \subseteq [op: Effective, u: Ids]
  /\ handlers \in [Slots -> Working \cup {Idle, Expire}]

\* docs/UPLOAD_PORTAL.md: queued, assigned, running, cancelled and unconfirmed
\* submissions stay protected.  The source of an upload is never removed while
\* its job may still need it, or while its submission is undecided.
ProtectedKept ==
  \A u \in Ids :
    \/ engine[u].status \in {"ACTIVE", "CANCELLED"}
    \/ u \in DOMAIN rows /\ rows[u].state \in Unconfirmed
    => source[u] # <<>>

\* Whatever crashed, was cut off or was sent again: the committed prefix of a
\* partial file and the whole of a renamed one are what the client declared.
CommittedIntact ==
  \A u \in DOMAIN rows :
    /\ Len(part[u]) >= rows[u].offset => \A i \in 1..rows[u].offset : part[u][i] = "ok"
    /\ source[u] # <<>> => source[u] = [i \in 1..Size |-> "ok"]

\* Files are never removed under a result that is being read.
DownloadUndisturbed ==
  \A s, t \in Slots :
    At(s, Serving) => /\ Upload(s) \in DOMAIN rows
                      /\ ~ (At(t, {"remove", "removed"}) /\ Upload(t) = Upload(s))

\* Uploads and downloads together never exceed the configured transfers.
TransfersBounded == Transfers <= MaxTransfers

\* Transfers go on side by side: within the limit, and each to its end.
TransfersKept == DownloadUndisturbed /\ TransfersBounded

\* One upload, one encode: a job nobody recorded belongs to a session that
\* will still find it, so no job runs that the portal cannot name.
JobsAccounted ==
  \A u \in Ids : engine[u].status = "ACTIVE" =>
    /\ u \in DOMAIN rows
    /\ rows[u].job \/ rows[u].state \in Unconfirmed

\* Over crashes and lost answers, an unconfirmed submission is confirmed in the
\* end, unless its job was already removed from the engine's history.
SubmissionSettles ==
  \A u \in Ids :
    (u \in DOMAIN rows /\ rows[u].state \in Unconfirmed)
      ~> \/ u \notin DOMAIN rows
         \/ rows[u].state = "submitted"
         \/ engine[u] # NoEngineJob /\ ~ engine[u].live
------------------------------------------------------------------------------
(* Refinement.                                                             *)

\* What UploadLife sees of an upload: its row, or why it has none.
PhaseOf(u) == IF u > issued THEN "new" ELSE IF u \in DOMAIN rows THEN rows[u].state ELSE "removed"

phase   == [u \in Ids |-> PhaseOf(u)]
stored  == [u \in Ids |-> IF u \in DOMAIN rows THEN rows[u].offset ELSE 0]
kept    == [u \in Ids |-> source[u] # <<>>]
job     == [u \in Ids |-> engine[u].status]
claimed == [u \in Ids |-> engine[u].claimed]
reading == [u \in Ids |-> \E s \in Slots : At(s, Serving) /\ Upload(s) = u]

Life == INSTANCE UploadLife

\* Handlers, crashes, lost answers, late requests and the engine together move
\* an upload only as UploadLife says: its job is created once, with its source,
\* and nothing is removed that a submission, a job or a reader still needs.
LifeSpec == Life!Spec

\* The engine of this module, seen through the keys upload-<id>.
KeyedEngine ==
  [u \in Ids |-> [id      |-> IF engine[u] = NoEngineJob THEN 0 ELSE u,
                  status  |-> engine[u].status,
                  live    |-> engine[u].live,
                  claimed |-> engine[u].claimed]]

Keyed == INSTANCE KeyedJobs WITH Keys <- Ids, job <- KeyedEngine

\* Whatever the portal asks, in time or late, and whatever others do to its
\* jobs, the engine assumed here does nothing but what JobEngine.tla, which
\* implements KeyedJobs too, promises of an upload's key.
KeyedSpec == Keyed!Spec
==============================================================================
