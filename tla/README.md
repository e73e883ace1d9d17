# Dreamers Remote: TLA+ verification

Dreamers Remote runs render and video jobs of a studio on its workstations. One
Node/TypeScript server keeps the queue in SQLite and serves the web front end;
a C# Agent on every workstation asks the server for work by heartbeat and runs
ffmpeg or Topaz; a second Node process, the upload portal, takes files from
outside and turns each into one job of the server; the browser polls, uploads
and opens remote desktops.

This directory holds TLA+ models of the parts of that system whose correctness
depends on order, concurrency and failure, the TLC configurations that check
them, and TLAPS proofs. `PROJECT.json` is the machine-readable index: which
definition models which lines, which run checks what, which deliberate bug each
property catches, and the hazards the properties are aimed at.

- [Inventory](#inventory)
- [Modules](#modules)
- [How the models abstract](#how-the-models-abstract)
- [Runs](#runs)
- [Proofs](#proofs)
- [What the code does otherwise than it says](#what-the-code-does-otherwise-than-it-says)
- [Not modelled](#not-modelled)
- [Plan](#plan)

## Inventory

Paths are under `src/server/src/` (server and portal), `src/agent/` (Agent) and
`src/web/src/` (browser).

| Component | State | Operations | Interacts with |
|---|---|---|---|
| Job engine: `job/repository.ts`, `job/idempotency.ts`, `api/jobs.ts`, `database/db.ts` | tables `jobs`, `job_requests`, `job_file_cleanup` (SQLite, foreign key on `depends_on`, AUTOINCREMENT) | create (with or without Idempotency-Key), cancel, retry, delete one, clear history, claim files for cleanup, record progress, start, complete, fail stale | users and portal by HTTP; scheduler and Agent endpoints by call |
| Scheduler: `job/scheduler.ts`, `job/workers.ts` | none of its own; reads jobs, workers and the metrics cache | `runScheduler`: fail stale rows, then walk the queue, first eligible unit for each job | called at the end of create, retry, every heartbeat |
| Agent endpoints: `api/agent.ts`, `agent/` | `last_seen`, metrics cache (memory), pending commands (memory) | register, heartbeat, job-result, command-result | Agents by HTTP |
| Agent worker loop: `Dreamers.Agent/Worker.cs`, `Core/Server/ServerClient.cs`, `ServerConnection.cs` | per tick: list of unfinished jobs, the reply, the reports due | heartbeat, cancel and start what the reply says, report what finished | server by HTTP; runners by call |
| Job runners: `Core/Jobs/*JobRunner.cs` | executions by job id, registered processes | Start, Cancel, RunAsync, snapshots, Reset | the operating system |
| Agent commands: `agent/commands.ts`, `Core/Commands/` | pending slot per worker (memory), command rows | enqueue, supersede, deliver, result | heartbeat |
| Registration and pairing: `agent/registrationTokens.ts`, `agentRepository.ts` | tokens, `agent_id`, credential hash | issue, consume, pair, unpair | Agent setup |
| Job ownership: `Worker.cs`, `AgentConfig*.cs` | which of two servers may hand out jobs | claim-jobs, release-jobs, revert at restart | two servers |
| Job validation: `job/*Validation.ts`, `Core/Ffmpeg/PathValidator.cs`, `Core/{Ffmpeg,Topaz}/*JobInput.cs` | none | judge and normalise a request | job API, runners |
| Upload portal: `upload/app.ts`, `store.ts`, `files.ts`, `engine.ts` | table `uploads`, files `source.part`/source/result, in-memory locks, downloads and transfer counter; sessions, login budget, verifier | login, logout, create, chunk, complete, submit, cancel, delete, batch cleanup, download, maintenance | clients by HTTP; engine by HTTP with deadline and a shared login |
| Transfer deadline: `upload/transferDeadline.ts` | two timers | progress, stop, expire, close | `receiveChunk` |
| Remote desktop bridge: `remote/wsProxy.ts`, `pages/RemotePage.tsx` | the two connections of a session, the bytes held back, its audit rows | upgrade, message, data, cleanup; connect, reconnect, leave | browser by WebSocket, VNC server by TCP |
| Workstations, audit log, Wake-on-LAN: `workstation/`, `api/workstations.ts`, `audit/`, `wol/` | table `workstations`, table `audit_log` (trimmed) | create, edit, delete, token, wake; record, list | every handler records what it did |
| Users and sessions: `auth/`, `index.ts` | table `users`; session store in memory | seed at start, log in, expire | the portal logs in as a user of its own |
| Web front end: `App.tsx`, `pages/`, `upload/main.tsx`, `remotePreview.ts` | what each page shows, its requests, timers and dialogs; localStorage | poll, retry, cancel, delete behind a password, turn pages, upload with resume, capture a thumbnail | server and portal by HTTP; other tabs by storage events |
| Agent metrics, installation, deployment | — | reads of the machine, configuration | — |

What makes this hard:

* The server forgets and remembers selectively. The tables survive a restart;
  the metrics cache, the pending commands and the web sessions do not; the
  Agent's executions do not survive the Agent.
* A slot is free *for the server* as soon as a row leaves RUNNING, while the
  process runs on until a heartbeat has carried the cancellation.
* Every message may be lost, answered too late, or served after its sender has
  given up, and the results carry no attempt number.
* An Agent may serve two servers, each numbering its jobs from 1, and keeps its
  executions by number alone.
* The portal's handlers interleave at every `await`, and each of its steps may
  be the last before a crash. So do a login's, a wake's and a seeding's.
* A remote session is two connections that can each fail, close or be left
  first, while the page may already have opened the next.
* The pages poll without waiting for one another's answers, and their handlers
  fetch the same lists again.

What must hold, component by component:

* **Job engine** — a dependency is COMPLETED before its dependant is handed
  out, and outlives it; files released for deletion belong to a job nobody can
  bring back; a key names one job for ever; ids are never reissued; every job
  follows one life cycle.
* **Scheduler** — no GPU slot is given to two jobs; the loop computes a
  determined assignment.
* **Worker loop and runners** — the Agent is never given what it still runs; a
  COMPLETED job really succeeded; what the server no longer wants ends; no row
  stays RUNNING with nobody running it.
* **Commands and pairing** — a record is paired only through a token of its own
  and each token pairs once; a command is delivered once and its row says what
  became of it.
* **Job ownership** — the Agent obeys one server; results and cancellations
  reach the job they are about.
* **Job validation** — what the server accepts and stores the Agent accepts
  too; a path that passes lies inside an allowed root, on both sides.
* **Portal** — a file is what the client declared; a source stays while its job
  may need it; a result is not deleted under a reader; one upload makes one
  job, and a submission is confirmed in the end; a login is good exactly until
  it is revoked, expires or is pushed out; the portal's own login recovers from
  every restart of the server; a transfer ends at its limit.
* **Uploading browser** — whatever is lost and however often it resumes, the
  portal's file is a beginning of the client's, every attempt ends, and a page
  says what is so, although attempts of it may overlap.
* **Remote desktop** — bytes arrive once and in order; when one side has gone
  the other goes too; the audit rows tell who was connected.
* **Workstations and audit** — an edit changes what it names and nothing else;
  the log tells what there is, and of no wake that was not sent; no row of the
  log slips past a reader who turns its pages.
* **Users** — no start of the server changes an account, and one that listens
  has an account for the portal, if given a password for it.
* **Pages** — nothing shown goes back in time; what is deleted is what was
  confirmed; the page ends up showing what there is.

The hazards behind these, each with its line, are in `PROJECT.json`.

## Modules

| Module | Models | State ↔ code |
|---|---|---|
| `JobLifecycle` | the abstract promise about one job id: life cycle and release | `state`, `released` are what a user sees through the API |
| `KeyedJobs` | the abstract promise about the job of an Idempotency-Key, as a client that creates, reads and releases it sees it | `job[k]` is the job's id, its status, whether it is listed, whether its files were released |
| `JobEngine` | job engine, scheduler, heartbeat and job-result | `jobs`, `cleanup`, `requests` are the tables (functions from live ids or keys to rows), `nextId` the AUTOINCREMENT; `online` is `last_seen` younger than 20 s, `leased` is progress younger than 30 s, `metrics` the in-memory cache |
| `SchedulerLoop` | the loops inside `runScheduler` and `findAssignment`, one iteration per step | `tbl`, `queue`, `busy`, `workers` are the loop's local variables; its lists are the sets of what is still to come, walked in their order |
| `Farm` | `JobEngine` composed with the Agents, their runners and the network | `exec` is the runners' dictionaries, `tick` the position in `Worker.ExecuteAsync` with its locals, `late` a request in flight whose sender timed out, `made` a history variable |
| `CommandDelivery` | the abstract promise about one command row | `place` is where the command is, `shown` its status in the log, `record` the record it is for |
| `AgentControl` | registration, pairing, credential check, restart and shutdown commands | `stations`, `paired`, `tokens`, `log` are the tables, `pending` the in-memory slots, `saved` and `loaded` the credential in the machine's file and in its service, `setup` and `service` where its two processes are, `net` the requests on their way; `issued`, `executed` are history |
| `DualServer` | one Agent's tick over several servers, and who owns its jobs | `file` and `owners` are the owner flags in agent.json and in memory, `exec` the runners' dictionary, `tick` the loop's position, `job` each server's rows; `exec[i].from` and `done` are history |
| `UploadLife` | the abstract promise about one upload, from its first chunk to its removal | `phase` is the row's state, `stored` its offset, `kept` whether the source is there, `job`, `claimed` the engine's side, `reading` a download under way |
| `UploadPortal` | the portal's handlers, table and files, against a small engine | `rows`, `order` are the table and its `updated_at` order; `part`, `source` the files; `handlers` what each handler in progress holds across its current `await` |
| `PortalAccess` | start, login, logout, expiry and maintenance of the portal | `sessions`, `limit`, `verifier` are its tables, `login` the one in progress; `issued`, `ended`, `checks`, `era` are history |
| `EngineSession` | `EngineClient`'s shared login, and the server's session store | `cookie`, `logins` are the client's fields, `call` where each call is, `live` the server's memory |
| `TransferDeadline` | the two timers of a chunk | `idle`, `total` are the time left, `closed` the flag; `expired`, `silent`, `age` are history |
| `UploadClient` | the upload page in several tabs, against what the portal answers | `attempt` holds the locals of every `start()` under way (session, offset, retries), `tab` what each page shows and which attempt its button cuts, `requests`, `serving`, `answers` the network, `rows` the portal's sessions |
| `RemoteBridge` | a page's remote sessions: client, WebSocket, TCP | `link[s]` both connections and the bytes on every leg, `rfb[s]` the client, `page` what is shown, `audit` the rows |
| `Registry` | the REST handlers of workstations, with audit and Wake-on-LAN | `row`, `created`, `held` are the table, its AUTOINCREMENT and the foreign keys to it, `log` the audit rows, `waking` a wake handler across its `await`; `asked`, `packets`, `lost` are history |
| `Accounts` | seeding of users over the starts of the server | `users` the table, `env` the environment, `seed` the seedings in progress |
| `JobInput` | a create request through the server's checks, the row and the Agent's | `sent`, `jobRow`, `verdict`: the request, what is stored, what the runner says |
| `AllowedPaths` | both checks that a path lies under a root | `roots`, `path`: the configured roots, the path being spelled |
| `WebApp` | the router: which page is open | `page`; `faults` is how many requests are still to fail |
| `Dashboard`, `QueuePage`, `AuditPage` | the three polling pages | what the page shows, its requests by kind, its dialogs; `registry`, `queue`, `log` are the server's side |
| `RemotePreview` | thumbnails in localStorage, over several tabs | `stored` is localStorage, `tab` what each tab shows, `notified` the tabs with an event to come |
| `JobEngineProofs`, `LoopProofs`, `FarmProofs`, `ControlProofs`, `PortalProofs` | proofs about the module of that name | — |
| `StoreProofs`, `WireProofs`, `ClientProofs` | proofs about what is stored and checked (`Registry`, `PortalAccess`, `Accounts`, `JobInput`, `AllowedPaths`), what goes over connections (`TransferDeadline`, `RemoteBridge`, `UploadClient`, `EngineSession`) and clients (`DualServer`, `Dashboard`, `QueuePage`, `AuditPage`, `RemotePreview`) | — |
| `MCJobEngine`, `MCSchedulerLoop`, `MCFarm`, `MCAgentControl`, `MCUploadPortal` | finite constants for TLC | — |
| `MCServices`, `MCPages` | several components in one state space, for TLC | `part`: the component a behaviour explores |

```
JobLifecycle <--implemented by-- JobEngine <--EXTENDS-- SchedulerLoop
                                  |  ^----------EXTENDS-- Farm  (Farm implements JobEngine)
   KeyedJobs <---implemented by---+
      ^----------implemented by-- UploadPortal (its `engine`)
   UploadLife <--implemented by-- UploadPortal
     UploadClient:     its `rows` are UploadPortal's sessions as one browser sees them
     EngineSession:    the login under every call of UploadPortal's engine client
     PortalAccess:     the login in front of every handler of UploadPortal
     TransferDeadline: what ends UploadPortal's stage "writing"
   DualServer:    its `job` is JobEngine as one Agent sees it
   AgentControl:  the other endpoints of the server; no jobs; implements CommandDelivery
     Registry:         the records AgentControl pairs; its `held` are AgentControl's keys
   JobInput, AllowedPaths: what comes before JobEngine's Inputs and Farm's Prepare

WebApp <--EXTENDS-- Dashboard, QueuePage, AuditPage;  RemotePreview, RemoteBridge: the remote page
MCServices = PortalAccess + Accounts + JobInput + AllowedPaths + Registry
             + RemoteBridge + UploadClient + EngineSession + TransferDeadline
MCPages    = Dashboard + QueuePage + AuditPage + RemotePreview
```
**JobEngine.** The server is single-threaded over a synchronous SQLite binding
and none of these handlers awaits between its first read and its last write, so
each handler is one action, the scheduler run at its end included:
`CreateJob`, `CreateJobOnce`, `RepeatCreate`, `CancelJob`, `RetryJob`,
`DeleteJob`, `ClearHistory`, `ClaimCleanup`, `Heartbeat`, `JobResult`,
`SetJobsEnabled`. `GoesQuiet` and `LeaseExpires` are the clock, `ServerRestart`
empties the metrics cache. A request the code refuses changes nothing and has
no action. `runScheduler` is stated declaratively — *every ready job gets its
first eligible unit given the jobs ahead of it* — because that is the form
that can be proved about; `SchedulerLoop` shows that the real loops compute
exactly that table.

**Farm.** One tick of an Agent is `SendHeartbeat`, `ServeHeartbeat` or
`MissReply`, `HandleReply`, `BeginReports`, any number of `ReportFinished` or
`ReportUnanswered`, `EndTick`. Between any two of them executions move
(`Prepare`, `Succeed`, `Fail`), users act, time passes, late requests arrive
(`ServeLateHeartbeat`, `ServeLateResult`) and the Agent restarts. `HandleReply`
keeps the code's detail that a throwing `Start` abandons the rest of the
reply's jobs, and that `Cancel` does nothing to an execution whose process is
not registered yet.

**AgentControl.** Again every handler of the server is one action (`IssueToken`,
`QueueCommand`, `DeleteWorkstation`, `ServeRegister`, `ServeHeartbeat`,
`ServeResult`). A machine has two processes, the service and now and then the
`register` command; the credential that one saves is read by the other only
when it starts. A request in `net` may be served while its sender waits, or
after it gave up, or never, and each answer may be lost. `pairAgent` fails on
the unique index after the token has been used up (`BurnToken`), since the two
are no transaction. `ServiceGivesUp` keeps the code's one `catch` around
execution and report, by which an unanswered success is reported again as a
failure.

**DualServer.** The tick goes through the servers in order (`Begin`,
`ServeHeartbeat`, `MissReply`, `HandleReply`) with the list of executions taken
once, then reports to the owner (`Report`). `ApplyCommand` moves the ownership
in memory first and in the file if it can; `RestartService` reads the file.
`Obey` and `Reject` are the two branches of `HandleJobDirectivesAsync`. The
server in this repository never sends `claim-jobs` or `release-jobs`; the Agent
accepts them from the other system, so `dashboard` says whether they occur at
all.

**UploadPortal.** A handler is a state machine whose stages are the awaits of
its code (`open`, `writing`, `check`, `ready`, `submit`, `create`, `created`,
`access`, `claim`, `remove`, `removed`, `status`, `locate`, `stream`,
`cancel`). The portal's locks, downloads and transfer count are released in
`finally` blocks and once-only callbacks, so they are *derived* from the
handlers in progress instead of being variables; `Restart` clears the handlers
and thereby all three, and keeps table and files. A handler holds the record it
read (`Snapshot`), not the current row, where the code does.


**PortalAccess.** Between being counted (`BeginLogin`) and being decided
(`FinishLogin`, `RefuseLogin`) a login waits for its password check, and
meanwhile other sessions end, the clock ticks, maintenance trims and the process
may stop. `StartPortal` is the transaction of `createUploadApp` that forgets all
sessions when the account in the environment is another than the last start's.

**EngineSession.** A call is *waiting* for a login, *sending*, *sent* or
answered; the cookie it sends is the shared one at that moment, and after a first
401 it joins the login under way or begins one, and repeats. A restart empties
the store; a login or a call may be lost.

**TransferDeadline.** Two timers, of which data re-arms one. Time does not pass
while a timer is due; both due together fire in either order. `stop`, `progress`
and `close` are the functions of the file, the phases those of `receiveChunk`.

**UploadClient.** `Receive` continues an attempt with the answer that has come,
as the page's code does after the `await`: it opens or finds its session, checks
the file, sends a piece at the offset it knows, and after an error or a silence
asks for the offset again (`Resync`) until the retries are used up. A request may
be lost, answered in vain, or served after its attempt gave up. What an attempt
keeps in its locals is separate from what its page shows (`Shown`): only a page
that says it is sending holds the next attempt back, and in phase *done* the list
request (`main.tsx:138-141`) is still out. If that list then fails, the page says
paused while the next attempt runs, and its button starts another beside it, which
the run `Connections` reaches and the theorem covers for any number.

**RemoteBridge.** Sessions are numbered as the page opens them, and the parts of
several may be alive at once: the client that a reconnect replaced, its WebSocket
closing, its TCP connection. `Flushed` hands over what was held back; `cleanup`
is the one function that both sides' events call. The end row is written on the
WebSocket's `close`, so a server that dies leaves a start without an end.

**Registry.** Each REST handler is one action; a wake is two (`waking` holds the
record read before the packet). `recordAudit` never throws, hence each row may be
lost. `held` are the ids a foreign key refers to, which a deletion meets.

**Accounts.** A start begins up to three seedings, all of which look before the
first of the hashes is ready; the server listens after the portal's. It may stop
between any two steps and be started with another environment.

**JobInput, AllowedPaths.** Pure functions, explored as small machines: a request
is posted and its row judged by the Agent; a path is spelled character by
character and both sides' checks are compared, at every length, with what the path
means (`Walk`, `Inside`).

**Dashboard, QueuePage, AuditPage.** Each page keeps its requests by kind with
the answer each has got, so answers may overtake one another; the handlers of
buttons and dialogs fetch lists too. A page shows whatever answer it handles
next, as the code does. What a page of the log lists is a set of rows, chosen by their
places in the order of the query. All three extend `WebApp`, which says which page is open
and how many requests fail.

**RemotePreview.** Tabs save frames under a limited number of keys; the cards of
every tab hear of it by events and read the store again.

**MCServices, MCPages.** These components share no variable, so all their
interleavings are products of their own. A behaviour explores one `part` (one
page) while the others rest in one state, which keeps the state count a sum
instead of a product. The registry is two parts, edits of any record and wakes of
one, because the two together only multiply.

Definitions marked *Mutant* stand beside the definition they are a plausible bug
of. No specification uses them. Substituting one for the original must break the
property it is paired with in `PROJECT.json`: this is the evidence that the
property depends on that line of code.

## How the models abstract

* **Time.** The code compares ages to 20 s, 30 s and several request deadlines.
  The models keep the outcome of each comparison and let it change whenever the
  code's timer could fire. No bound relates the timers, so slow, suspended and
  partitioned machines are included; a property that holds needs no timing. Only
  `PortalAccess` and `TransferDeadline`, which are about durations, have a clock;
  its ticks stand for the code's windows and limits in their order of size.
* **Capabilities.** Job type and software version are one `kind`, and a report
  says which kinds the worker runs. CPU, memory and GPU percentages are reduced
  to *loaded* and *hot*.
* **Progress, messages, provenance, timestamps** of a job are left out: no
  decision of the engine reads them.
* **Agents in JobEngine** may report anything: any set of issued ids as
  running, any result for any job. What real Agents do is a special case, and
  `FarmProofs` proves it.
* **The farm's network** keeps at most one delayed request per Agent. The list of
  executions to report is taken once per tick; the code takes it once per
  runner, a little later.
* **Secrets** are the numbers of their issue; tokens expire whenever they are
  unused; a password hash is the password. Only the keys of tokens and commands
  hold a record: the `worker_id` of jobs is not in `AgentControl`.
* **DualServer's servers** show what one Agent sees of a job: the transitions of
  users, scheduler and clock on its status, and the three handlers. All job
  types share one runner. Delayed requests and the preparation of an execution
  are in `Farm`.
* **A restarted Agent** forgets its executions. Operating-system children that
  outlive it are not modelled.
* **File contents** are sequences of units, each *ok* or *bad*: what the digest
  comparison can tell apart. Quotas in bytes, symbolic links and the 5 s cache of
  job states are left out. A handler whose client has gone is ended at its
  current stage. In `UploadClient` a unit is the smallest piece, 4 MiB, and
  carries the name of its file, so that a mixture of two files shows. A file there
  is its content together with the preset it is sent for: `store.ts:72` finds an
  unfinished session by both.
* **The portal's engine** answers create, status, cancel and claim as
  `JobEngine` does for one key, and its job moves by itself. It can be late,
  refuse, or serve a request and lose the answer. That it is the right
  abstraction is proved: it and `JobEngine` implement the same `KeyedJobs`
  (`EngineKeyed`, `KeyedImplemented`), and it makes every move that `KeyedJobs`
  allows (`EngineComplete`).
* **Field values** in `JobInput` are reduced to what the rules tell apart:
  absent, null, good, good once converted, empty, outside the Agent's roots,
  anything else. That `depends_on` names a job is part of *good*; fields the
  code does not know are dropped. `required_software` and `provenance` are stored
  as JSON text (`repository.ts:61-62`); a row is not a request, and nothing in
  the code posts one, so the form matters only to what reads it, and the Agent's
  rules read the input alone.
* **Paths** consist of a letter in both cases, the dot and both separators. A
  root names something besides separators. Case is folded as ASCII.
* **The bridge's ends**, noVNC and the VNC server, are the environment. Bytes are
  numbered chunks. A machine that vanishes without closing is left out: no code
  waits for it.
* **Registry records.** Hostname, address, port, location and description take
  the path of `mac`, `enabled` that of `jobs_enabled`. The actor and the address
  of an audit row are left out.
* **Pages** are modelled while they stay open and the user is logged in. How many
  requests fail and how much others do is chosen in the initial state.
  `Object.keys(localStorage)` comes in any order; the race of two tabs inside one
  save is left out.

## Runs

Twelve runs; distinct states and time with two workers on a small machine.

| Run | Question | Instance | States |
|---|---|---|---|
| `History` | Do creations, retries, deletions, claims, results and stale leases in any order keep the tables consistent and follow the life cycle? | 1 worker, 3 jobs, uploads and dependants, 1 retry | 538,824 (55 s) |
| `Scheduling` | Can a slot be booked twice when GPUs come, go and saturate? Does the job of an upload's key move as `KeyedJobs` says through retries, deletion, release and repetition? | 1 worker with 2 GPUs, 2 jobs, one of them an upload's, 2 kinds, 2 priorities, 2 keys, 1 retry | 600,276 (60 s) |
| `SchedulerLoop` | Do the loops compute the declarative assignment? | every table of 3 jobs × 2 workers × reports, switches, silence | 1,119,667 (20 s) |
| `Farm` | Is the Agent ever handed what it runs, can the server book a completion that did not happen, is the farm a behaviour of the engine, do unwanted executions stop and orphaned rows end? | 1 job, 2 kinds, 2 retries, with fairness | 115,000 (40 s) |
| `AgentControl` | Does a token pair once and its own record, is a command delivered once and accounted for, does every row of the command log follow `CommandDelivery`? | 2 records, 2 machines, 3 tokens and commands, 1 late request; symmetric | 2,316,150 (115 s) |
| `DualServer` | Does the Agent obey one server, and do results and stops reach the right job? | 2 servers, 1 job number | 160,304 (3 s) |
| `Portal` | Bytes, sources, readers, transfer limit, submissions confirmed; has the upload the life that `UploadLife` describes? | 1 upload of 2 units, 3 clients and the timer, with fairness | 20,433 (7 s) |
| `Services` | What the server and the portal store and check (sessions, accounts, workstations, job inputs, paths), one remote session, one uploading tab: is all of it safe? | eight parts; 3 sessions ever, 3 starts, 2 workstations and 3 audit rows, 3 chunks each way, 2 files of one name | 1,887,953 (115 s) |
| `Connections` | Do sessions, uploads, logins and transfers end, truthfully? | four parts, with fairness: 2 remote sessions, 2 attempts of one upload page, 2 calls through 2 restarts, limits of 3 and 20 | 571,418 (135 s) |
| `Pages` | Do the pages only go forward, delete what was confirmed and end up showing what there is? | four pages, with fairness: 1 machine, 2 jobs, 3 audit rows on pages of 2, 3 thumbnails with room for 2; 1 failing request | 529,254 (100 s) |
| `DoubleBooking`, `CleanupRace` | two statements of the repository that the code does not keep; see below | | violated |

Deadlock checking is off in three runs, `Services`, `Connections` and `Pages`,
where a part really stops: the path is spelled, the upload is done and not begun
again, a transfer is over, the sessions that may be opened are used up.

### Properties

Where several promises are about one component they are the named parts of one
property, which each module states part by part.

*History.* `DependencyHonoured`: a dependency is older, exists, and is COMPLETED
once its dependant is handed out — for ever, so neither retry nor deletion can
undo it. `ReleasedStaysSettled`: claimed files belong to a job that is COMPLETED
or FAILED, and the archived status is the current one.
`HistoryBlockedOnlyByActive`: bulk deletion never trips the foreign key against
itself. `LifecycleSpec`: refinement of `JobLifecycle`.

*Scheduling, SchedulerLoop.* `SlotExclusive`. `KeyedSpec`: refinement of
`KeyedJobs`: the key of an upload stands for one job of its own, which runs again
only before its files are released and whose outcome is known after it is gone.
`LoopSound`: the loop's table is the only one the declarative definition allows, and slots are
exclusive at every iteration, hence also if the process dies in the middle.

*Farm.* `StartNeverThrows`: a reply never names a job the Agent still
has unfinished, through stale sweeps, user retries and late heartbeats.
`ResultAuthentic`: COMPLETED implies some execution succeeded. `EngineSpec`: the
farm implements `JobEngine`. `UnwantedStops`, `OrphansEnd`: what the server does
not want any more ends, and a row nobody executes does not stay RUNNING.

*AgentControl.* `PairedByToken`: each pairing goes back to one token of that
record, presented by that machine. `DeliveredOnce`: no machine holds an order
that was carried out, or that another holds. `PendingAccounted`: a row leaves
its slot only sent, superseded or by a restart of the server — the rows that a
restart leaves behind stay *pending* for ever, which `commands.ts` accepts.
`OkBacked`: a result names no row, and still no more rows show *ok* than were
carried out. The converse fails by design: a command carried out whose report
is not answered may be shown *failed*. `DeliverySpec`: refinement of
`CommandDelivery`, in which a row waits, is superseded, forgotten or handed to at
most one machine, which carries it out at most once; `PlaceOf` reads the place
off tables, memory, machines and history.

*DualServer.* `AtMostOneOwner`, whoever moves the ownership.
`ExecutionsStayHome`: COMPLETED on a server means executed for that server, and a
stop comes from the server that assigned the execution — both as long as no
`claim-jobs` or `release-jobs` comes.

*Portal.* `ProtectedKept`: the source exists while its job is active or
cancelled or its submission is undecided. `CommittedIntact`: the committed
prefix is what the client declared after crash, cut-off or repetition.
`TransfersKept`: a result is not removed under a reader, and the transfer limit
holds. `LifeSpec`: refinement of `UploadLife`, in which an upload's job is created
once, while its source is there and its row in doubt, and source and row go only
when no submission, job or reader needs them. `SubmissionSettles`.

*Services.* `AccessInv`: a session is good exactly while it was issued under this
account, not logged out, not too old and not pushed out by `MaxSessions` later
ones, over any restarts; and two windows' worth of passwords is the most that is
checked within one window since the last success, which resets the count (the
windows do not slide). `AccountsSafe`: a start changes no account that exists,
makes no second administrator, and once the server listens an account for the
portal exists if a password for it is configured; that it is the configured one is
not claimed, since an existing account is left as it is. `InputsAgree`: every field
of a stored row is in its one form or null, and the Agent's rules refuse of it only
paths outside its own roots.
`PathRulesAgree`: what is accepted lies inside a root, ordinary paths inside are
accepted, both sides judge alike. `RegistryInv`: a field has the value the last
request naming it gave; the log tells which workstations there are, unless a row
was lost; no more wakes are logged than packets were sent. `BridgeInv`: while
both connections live, delivered + held back + on the wire is exactly what was
sent. `UploadInv`: a session holds one file's beginning, a file has one session,
and an attempt's pieces are never refused for their length.

*Connections.* `SessionsToldAndEnded`: start and end rows are paired and true,
the page shows its current client's state, and a session left by either side
closes on both. `UploadsAdvance`: an attempt never believes more than is durable, a
page says done only of a session that is complete and sending only while an attempt
of it is, and every attempt ends. `LoginsShared`: one login at a time, a bounded number of
sessions left on the server, and every call works again after the last restart.
`DeadlineKept`: a transfer is torn down once, not late, not early.
`SlotReturned`: it ends though data may trickle in for ever.

*Pages.* `DashboardCurrent`: statuses and jobs never go back, and the page ends
up fresh. `QueueInOrder`: a job removed is one that the password was given for,
buttons come back whatever fails, and the page ends up showing the queue.
`AuditReadable`: every row is on one of the pages, none slips to a page already
turned (rows may be dated back, old ones are trimmed), and the page settles on
the last selection. `PreviewInv`: cards that have handled their events show what
is stored, at most `MaxPreviews`.

### Bounds, and why they are enough

* `MaxJobs`. Every rule of the engine relates at most a job, its dependency and
  one more (the slot's other holder, the next in the queue, a third row of a
  chain being deleted): three; the slots and keys of `Scheduling` concern pairs.
  The farm's passing properties are about one job and its attempts;
  `DoubleBooking`, about two executions on one GPU, has two.
* `MaxRetries` bounds the *user's* retries (the code has the same counter with
  no limit). One retry makes attempts distinguishable; `Farm` takes two so
  that a result can be late by more than one attempt.
* Reports. `Scheduling` has a worker that changes from two GPUs (one hot) to
  none, so the null unit and the GPU units meet. `SchedulerLoop` has two
  workers, of which one sorts after the other, in all combinations of switch,
  silence and load.
* One upload in `Portal`: with two, the batch race of `CleanupRace` breaks
  `ProtectedKept`, so the remaining promises are checked where it cannot occur.
  Three concurrent clients and the timer suffice for every pair of handlers plus
  a bystander on the transfer limit. Two units make a partly committed file
  and a chunk that fails half-way.
* Three tokens and commands in `AgentControl` make every mix the properties
  need: a record paired anew while a command waits, a machine that would pair
  two records, two rows of one command sent. One abandoned request at a time
  can arrive late. Records and machines are interchangeable, so the run uses
  symmetry (its action property is a safety property).
* One job number in `DualServer`: executions of different numbers do not meet.
  The code, too, foresees two servers (`Worker.cs:412`).
* `late` holds one request per Agent in `Farm`, and the set of given-up
  requests in `UploadPortal`.
* `PortalAccess`: a clock of 5 passes the window (2) twice and the life (3) once;
  three sessions where two are kept push one out. The login budget is 2, and its
  property speaks of five checks since the last success, which the clock has room
  for.
* `Accounts`: three starts make a seeding cut off, one completed and one with
  another environment; two administrators' names.
* `JobInput`: up to two unusual fields at a time, since no rule relates more than
  two. `AllowedPaths`: paths of up to five and roots of up to three characters
  contain every arrangement of a root, a separator and two dots or two letters.
* `Registry`: two records, two administrators and three rows, of which two can be
  about one record. Wakes are explored with one id to give, so that packets and
  rows of one record interleave with its edits.
* `RemoteBridge`: three chunks each way, so that some are held back, some on the
  wire and some delivered (`Services`); two sessions with a chunk each, so that a
  replaced one lives on beside the new (`Connections`).
* `UploadClient`: `Services` has four units in pieces of up to two, two files of
  one name, one attempt at a time and one late request; `Connections` two units and
  two attempts of a page (`MaxAttempts`), so that they meet in one session, without
  late requests. One retry in both. Several tabs differ from several attempts of
  one page only in what is shown; the theorem has any number of tabs, attempts and
  late requests together.
* `EngineSession`: two calls, two restarts, one fault; `MaxCookies` is so large
  that no login lacks a number.
* Pages: two polls or requests under way at once can overtake each other, and one
  request that fails suffices for every branch of a handler.

### Fairness

All fairness of the smaller components is weak and next to the specification it
belongs to, with its reason.

* `FairFarm`: the Agent's own loop and its request timeouts are weakly fair —
  the loop is `while (!stopped)` and every request has a deadline. That a reply
  is served, handled, or a report acknowledged is *strongly* fair: each attempt
  may be lost, but not all of them. Preparing ends (ffprobe and the NAS
  connection have timeouts) and a killed process dies, weakly fair. An
  execution left alone is given **no** fairness: it may hang. The lease of a row
  nobody executes runs out, weakly fair: nothing renews it.
* `LiveSpec` (UploadPortal): every handler proceeds (every wait has a deadline),
  and the 30 s timer fires, weakly fair. Strongly fair, per upload: maintenance
  gets its lock, an engine request is answered, the answer is stored. These say
  that ticks do not for ever coincide with a client's lock, that answers are not
  for ever lost and that the process does not for ever die at the same place.
  `SubmissionSettles` excepts the one state that lasts: the job was removed
  from the engine's history before the portal learnt its id, and the engine
  answers 409 for ever.
* `BridgeFairness`: connections are set up or refused, closings finish, what has
  arrived is handled. Nobody has to send, leave or reconnect.
* `ClientFairness`: an attempt handles its answers; a request is served, refused or
  lost. `SessionFairness`: calls and logins proceed; restarts and losses need not
  occur. `DeadlineFairness`: time passes and timers fire; data need not come.
* `DashboardFairness`, `QueueFairness`, `AuditFairness`: the timers run, and
  every request is answered, or fails, and is taken. The failing requests are
  finitely many, and the liveness of `QueueInOrder` and `AuditReadable` is
  conditional on what is shown coming to rest.

## Proofs

Eight modules, each for every value of the constants.

| Module | Component | Theorems |
|---|---|---|
| `JobEngineProofs` | `JobEngine` | `Inductive` (`IInv`); `TypeCorrect`, `SlotExclusion`, `DependencyRespected`, `ReleasedNeverRuns`, `KeyNamesOneJob`, `HistoryNotSelfBlocking`; `LifecycleImplemented` (`LifecycleSpec`), `KeyedImplemented` (`KeyedSpec`): the engine implements `JobLifecycle` and `KeyedJobs` |
| `LoopProofs` | `SchedulerLoop` | `LoopRight` (`LoopSound`): the loops compute the declarative assignment |
| `FarmProofs` | `Farm` | `FarmImplementsEngine`; `FarmSlotExclusion`, `FarmReleasedNeverRuns`, `FarmLifecycle`, `FarmKeyed` carried over; `FarmTyped`, `StartIsSafe` (`StartNeverThrows`), `CompletionIsReal` (`ResultAuthentic`) |
| `ControlProofs` | `AgentControl` | `ControlTyped`, `PairingsAreOwn` (`PairedByToken`), `DeliveredAtMostOnce` (`DeliveredOnce`), `SlotsAccounted` (`PendingAccounted`), `ResultsBacked` (`OkBacked`); `CommandsDelivered`: server, network and Agents implement `CommandDelivery` |
| `PortalProofs` | `UploadPortal` | `PortalTyped`, `CommitsIntact` (`CommittedIntact`), `TransfersWithin`; on a condition, see below: `CurrentRecordsSafe`, `SingleCleanupSafe` (`ProtectedKept`, `JobsAccounted`), `DownloadsKept` (`TransfersKept`), `LifeImplemented`, `SingleCleanupLives` (`LifeSpec`) |
| | `UploadLife` | `LifeIsSafe`: what its implementations are thereby promised |
| | the portal's engine | `EngineKeyed` (`KeyedSpec`), `EngineComplete` |
| `StoreProofs` | `Registry` | `RegistryTyped`, `EditsStand`, `DeletionsTold`, `WakesNeverAhead`, together `RegistryTrue` (`RegistryInv`) |
| | `PortalAccess` | `AccessRight` (`AccessInv`) |
| | `Accounts` | `AccountsSeeded` (`AccountsSafe`) |
| | `JobInput` | `InputsRight` (`InputsAgree`) |
| | `AllowedPaths` | `PathsAgree` (`PathRulesAgree`), for paths and roots of any length |
| `WireProofs` | `TransferDeadline` | `TornDownOnce`, `WithinLimits`, `NeverEarly`, together `DeadlineHolds` (`DeadlineKept`) |
| | `RemoteBridge` | `BytesRight` (`BridgeInv`), `SessionsTold` (the safety part of `SessionsToldAndEnded`) |
| | `UploadClient` | `UploadsRight` (`UploadInv`, and `NeverAhead` and `SendingIsTrue` of `UploadsAdvance`) |
| | `EngineSession` | `SessionsShared` (the safety part of `LoginsShared`) |
| `ClientProofs` | `DualServer` | `OneOwner`; `ResultsComeHome`, `StopsComeHome`, together `ExecutionsAtHome`, for any number of servers and job numbers |
| | `Dashboard` | `DashboardTyped`, `NeverBack` (the safety part of `DashboardCurrent`) |
| | `QueuePage` | `FormsFreed`, `RemovalsConfirmed` (the safety part of `QueueInOrder`) |
| | `AuditPage` | `RowsOnPages`, `NoneSkipped` (the safety part of `AuditReadable`) |
| | `RemotePreview` | `PreviewsRight` (`PreviewInv`) |

The type invariants of most modules are stated by theorems only.

*What is assumed of constants*, always in the component's own module: that ids,
slots and limits are numbers and have their natural order (0 < idle limit < total
limit); that the null value of a field is not one of its values; and that the
clients that can be busy at one moment are finitely many (`Requests` of the
portal, `Calls` of its login, `Admins` of the registry), since what is proved of
them counts them. `JobInput` assumes that the kinds of field values it names are
distinct; `SchedulerLoop` starts from tables as the engine reaches them, in which
no two busy rows share a unit (`SlotExclusion`).

*The engine's invariant.* `IInv` is the conjunction of five invariants. None but
`TypeOK` is inductive alone: keeping dependencies COMPLETED needs that the ids
are typed and that a live row's dependency is not deleted; a release staying
settled needs that a live row's cleanup record is a claim, so that a retry, which
looks only at the claim, cannot touch it; key records need ids below `nextId`.
`HistoryBlockedOnlyByActive` follows from `IInv`: a dependency is older than its
dependant and the batch goes from the highest id down.

*Its steps.* A handler edits the table in stages. The table part of `IInv` is
therefore stated for an arbitrary table (`Good`) and each stage is shown to
preserve it: `SweepGood`, `AssignGood`, `ProgressGood`, `StartGood`,
`NewRowGood`, `RequeueGood`. `Follows` says what a forward stage leaves alone:
the ids, the inputs, and every terminal status. The heart is `AssignGood`: the
queue's order is total, so of two jobs assigned in one run the one behind sees
the unit of the one ahead as taken.

*The life cycle.* A scheduler run, a result or a lost lease moves statuses only
along `ForwardMoves`, none of which starts in a terminal status, and a released
job is terminal; a retry starts from FAILED but an unclaimed row; a removal
leaves the set of released jobs unchanged.

*Keys.* The moves of a key's job are those of `JobLifecycle`, read through the
table of keys. Three things are added: a key's row stays as it was written, and so
does the status archived of a job that is gone (`RecordsKept`); a job shown under an
upload's key is an upload's job itself (`SeenRight`); and every such job
that is gone left its status behind (`Archived`), since each deletion archives
before it deletes. The id of a new key is `nextId`, which no other key has.

*The loops.* The table is built job by job, and the declarative definition speaks
of all at once. The invariant says that what has been decided is what the
definition gives for the jobs so far (`Chosen`), and that any table the
definition allows agrees with it there (`Forced`); when the queue is empty the two
are the whole table. The order of the queue does the induction: of what is left,
the loop takes the first.

*The farm.* An engine step admits reports of issued ids only. `FInv` adds to
`IInv` that the Agents and the network hold only issued ids, which every farm
step keeps because ids are never taken back (`IssuedGrows`). Then every farm
step is an engine step or changes no engine variable.

*What the farm may rely on.* `SInv` of `FarmProofs` adds to `FInv` that every
COMPLETED job is in the history of successes (`Backed`) and, for every worker,
`SafeAt`: the successes its runners and a late report still hold are in that
history too; what is unfinished while a heartbeat is under way was listed in it;
and what a served reply starts is not unfinished. The engine's part is two facts:
only a result completes a job (`SchedulerCompletesNone`, `ResultCompletesOne`),
and a heartbeat hands out nothing the Agent has just said it runs
(`HeartbeatHandsOut`).

*Commands and pairing.* `CInv` has four parts: `Pairings`, that every pairing is
on record with its token; `Slots`, that a slot holds its own station's pending
row; `Orders`, that an order held by a service was sent and not yet carried out;
`Wires`, that requests on their way carry tokens and credentials that were
issued. Rows never become pending again (`Advances`) and history only grows
(`Grows`), which is what `SlotsAccounted`, an action property, needs of each
step. `ResultsBacked` needs to count: the rows shown *ok* and the successes still
on their way are together no more than what was carried out. For `CommandsDelivered`
it is added that a held order was not superseded (`DInv`): only what waits is.

*The portal.* Three theorems hold of the code as it is. `PortalInv` says of each
handler what its stage implies — that who writes holds the lock, that a chunk's
beginning is the committed length — and from this that committed bytes stay.
The other promises fail in general: `CleanupRace` is the counterexample. What is
proved is where the fault lies. Let `RecordsCurrent` say that a cleanup acts on
records that are still the rows. Under it `TraceInv` is inductive and all the
promises hold (`CurrentRecordsSafe`); and it holds whenever each cleanup takes one
record (`SingleCleanupSafe`), as with the one upload of the run `Portal`. So the
batches of `cleanupBatch` and `expireUploads`, whose later records may be old ones,
are the only way to lose them.

*The life of an upload.* Under `RecordsCurrent` each step of a handler, a crash or
the engine is one step of `UploadLife` or none (`LifeImplemented`). A job may be
created only while the row is in doubt and the source there, although the request
may be one given up long ago: that is `TraceInv`, which counts late requests among
those that expect their job. A row goes only after its files; `Emptied` is added,
that a handler past the removal of files has left none. `LifeIsSafe` is proved of
`UploadLife` alone, in which there are no handlers, files or requests.

*Portal and engine.* The portal is modelled against a small engine, the engine
against arbitrary clients. `KeyedJobs` is where they meet. The small engine makes
no other moves (`EngineKeyed`), so nothing in the portal rests on an engine that
the server could not be; and it makes all of them (`EngineComplete`), so whatever
the server does to a job, with the farm behind it too (`FarmKeyed`), is among what
the portal was checked and proved against.

*Access to the portal.* A session lets in exactly if it was issued under the
present account and nothing ended it. `AccessInv` becomes inductive with what
numbers say of time: sessions are numbered in the order of their issue, hence
those kept are the youngest. The budget needs that checks counted in the current
window and in the one before are in the history as such.

*The accounts.* Seedings look before they write and may be cut off in between.
What is added is that an account which a seeding under way has found missing is
missing still, unless another seeding of the same start made it.

*Inputs.* The normal form of each field is one of two, its stored form or null, and
the Agent's rule accepts every normal form, except for its roots.

*Paths.* Both checks look at characters: at a prefix, at the separator behind it, at
two dots standing alone. What they are compared with folds over the names of a
path, so both are related name by name, by recursive functions of the length
(`NamesTo`, `WalkTo`). Where an induction along the path is needed, the proof takes
the first place at which the claim fails.

*The deadline.* `DeadlineInv` adds `InStep`: as long as the deadline is open, what
is left on each timer and what has passed make the limit.

*The bridge.* Each buffer is a run of consecutive numbers (`From`), and the
buffers of a direction begin where the one before ends (`Upward`, `Downward`).
Every handler moves a chunk from the head of one to the tail of the next, which
keeps the runs adjacent; that the joined buffers are what was sent follows. The
rows follow from the phase of the WebSocket, which only goes forward
(`RowsTell`); the pill from the page listening to no client but its own
(`Listening`), although clients it replaced are still there.

*The uploading browser.* Ids are never given twice, so what an attempt, a request or
an answer knows of an id stays true (`Behind`): less than or as much is stored, of
the same file. A piece is stored only at the offset where the file ends, so a piece
served late or twice is refused. Of one attempt at most one request is live, so it
gets the answers to what it asked, although others of its page go on beside it. A
page follows whichever attempt spoke last (`PageOK`): a session once complete stays
so, an attempt that ends leaves its page paused or done, and the one its button
cuts is its own and under way.

*The portal's login.* While the cookie is live, the sessions at the server are its
own, those of lost logins, and one per call that still sends an older one; while
it is dead, all but the answer under way come from lost logins (`Covered`,
`Uncovered`). Hence the bound, for any number of calls.

*The dual-server Agent.* An execution does not record its server, so
`ResultsGoHomeIfLocal` is not inductive. `DInv` adds the reason it holds: the
owner in memory changes only at a restart, which forgets the executions, so all
of them are the owner's (`OwnersOnly`); the owner is unique (`Single`); what is
reported has ended and is still tracked (`Due`), and what ended well is in the
history (`EndedWell`). `claim-jobs` breaks exactly `OwnersOnly`, which is why the
property excepts behaviours with that command (see below).

*The registry.* `RInv` adds to the properties that the wakes logged and those sent
but not yet logged are together no more than the packets (`WakesBehind`, hence
the finite set of administrators), and that nothing is said yet of an id not given
out (`Untold`), from which a creation's row is the first about its id.

*The pages.* The dashboard goes only forward because it has one refresh under way,
and that one began after what is shown had arrived; its parts may still overtake
one another. The queue page's buttons are held by a handler that is under way and
by nobody else. A submission that has got past the password check carries the
right password, whatever dialog is opened meanwhile. A preview's tab that has no
event to come shows what is stored. A row's place in the log is the number of rows
up to it, so a row that comes in moves others back and none forward, and trimming
takes the last places only: hence every row is on a page (`RowsOnPages`), and none
not yet seen slips to a page already turned (`NoneSkipped`).

Only model-checked: liveness and fairness, which are out of the prover's reach
here (`UnwantedStops`, `OrphansEnd`, `SubmissionSettles`, `SlotReturned`, and the
parts of `SessionsToldAndEnded`, `UploadsAdvance`, `LoginsShared`,
`DashboardCurrent`, `QueueInOrder`, `AuditReadable` that say something happens in
the end).

## What the code does otherwise than it says

Two are runs whose counterexample TLC prints; the quotations are in
`PROJECT.json`.

* `DoubleBooking` — `Worker.cs:337` relies on the server never double-booking a
  GPU. The server frees a cancelled job's slot at once. If the cancellation
  reaches a runner that is still preparing it kills nothing, the same reply
  starts the next job, and two processes run on one GPU until the next heartbeat
  repeats the cancellation.
* `CleanupRace` — the portal's documentation protects unconfirmed and active
  submissions. A batch cleanup (and maintenance) reads its records first and
  awaits between them; an upload completed and submitted meanwhile is deleted
  by its old record.

The others were met while the code was read, and have no run:

* A claim is granted for a FAILED job (`repository.ts:24-26`), but FAILED also
  means *not heard of for 20 s*. A partitioned workstation still encodes the
  files that the portal is then allowed to delete.
* `agent.ts:87-89` says a heartbeat frees any job whose worker went stale; only
  RUNNING rows are looked at (`repository.ts:297-300`). A job ASSIGNED to a
  worker that went quiet keeps its slot until that worker returns or a user
  cancels it.
* `Worker.cs:249` says results go only to the server that assigned the work. They
  go to the owner at the time of the report (`Worker.cs:254-264`), and
  `claim-jobs` moves the ownership while executions go on; the new owner books
  the result on its own job of that number. `ExecutionsStayHome` therefore
  excepts behaviours in which that command occurs.
* `remotePreview.ts:39` bounds the thumbnails to the most recently captured; the
  one removed is whichever key the browser lists first (`remotePreview.ts:41`).
* `index.ts:84-85` says that the administrator is created once a password is
  provided and the server restarted. `users.ts:23-24` creates none once any user
  exists, and the same start may have seeded a service account.
* `validation.ts:42-44` says a known type's stored input is always the normalised
  one. The type is compared untrimmed (`:45`) and trimmed when it is stored
  (`:107`), so a type written with blanks is stored with its input unchecked; the
  Agent then fails the job. `RulesAgree` speaks of inputs that were checked.
* `WorkstationCard.tsx:15-16` wants the card to stop showing the state before a
  toggle. Its refresh is left out while another is under way (`Dashboard.tsx:78`),
  which may have read the record before the toggle; the next tick corrects it.

Three waits in the code have no end, by its design or for want of one: a hung
ffmpeg keeps its lease (`repository.ts:196` renews what the Agent tracks);
dependants of a job that ended FAILED stay QUEUED (`repository.ts:70`); an ffmpeg
child that outlives a killed Agent is tracked by nobody
(`FfmpegJobRunner.cs:175`).

## Not modelled

* The detail page of a workstation, the login screen, the translations and the
  charts: they show what other pages' requests fetch, and decide nothing.
* Metrics collection and the detection of tools on the workstation: reads of the
  operating system, seen here as the reports an Agent sends.
* The Agent's installation, menu and NAS mounting, Docker and the scripts:
  configuration and input-output outside the program.
* In the portal: byte quotas and free space, the requests per minute, the check of
  origins, symbolic links, the 5 s cache of job states.
* The server's cookie library and the password hashing: libraries, taken to do
  what their interface says.

## Plan

In place: the engine with its life cycle, its keys and its loops, the farm, the
Agent's commands and its two servers, the portal with the life of an upload, its
access, its deadline, its client and its login at the engine, the registry, the
accounts, the remote desktop, the two checks and the polling pages; proofs of the
safety of all of them, and the proof that portal and engine meet in `KeyedJobs`.

Next, in order:

1. `UploadPortal` and `Farm` in one module: `EngineKeyed` and `FarmKeyed` say that
   they fit; a theorem about the composition would say what a client of the portal
   is promised of the Agents' work.
2. Two workers in `Farm`'s run: a stale job retried on another machine while the
   first still runs it. With two workers, one job and one retry the instance has
   more than twelve million states; the proofs already cover it.
3. The workstation's detail page, whose tools and metrics are polled like the
   dashboard's lists.
