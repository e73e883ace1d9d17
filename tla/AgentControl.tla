----------------------------- MODULE AgentControl -----------------------------
(***************************************************************************)
(* Pairing a machine with a workstation record, and the restart and        *)
(* shutdown commands that ride its heartbeats.                             *)
(*                                                                         *)
(* The server is single-threaded and none of these handlers awaits: each   *)
(* is one action.  A machine runs two processes: the service, whose loop   *)
(* sends one request at a time, and now and then DreamersAgent.exe         *)
(* register.  A request may be lost, or served after its sender gave up;   *)
(* its answer may be lost.                                                 *)
(*                                                                         *)
(* Left out: jobs (JobEngine, Farm), ownership (DualServer), the creation  *)
(* of workstations, and passwords: a secret is the number of its issue.    *)
(***************************************************************************)
EXTENDS Naturals, FiniteSets, Sequences

CONSTANTS
  Stations,     \* workstation records
  Machines,     \* Agents, by agentId
  Commands,     \* AGENT_COMMANDS
  Nobody,       \* no Agent paired
  MaxIssues,    \* bound: registration tokens issued and commands queued
  MaxLate       \* bound: requests in flight that nobody waits for any more

ASSUME ControlAssumption ==
  /\ MaxIssues \in Nat /\ MaxLate \in Nat
  /\ Nobody \notin [agent: Machines, credential: Nat]

VARIABLES
  stations,   \* the live records
  paired,     \* per record: agent_id and agent_credential_hash
  tokens,     \* agent_registration_tokens, in the order of their ids
  issued,     \* history: per credential, its record, machine and token
  log,        \* command_log, in the order of its ids
  pending,    \* pendingByWorkstationId: record to log id, in memory
  net,        \* requests on their way to the server
  saved,      \* per machine: the credential in its file; 0 for none
  loaded,     \* per machine: the credential its service started with
  setup,      \* per machine: where its register command is
  service,    \* per machine: where its service loop is
  executed    \* history: the rows whose command was carried out

tables   == <<stations, paired, tokens, issued, log>>
machines == <<saved, loaded, setup, service>>
vars     == <<tables, pending, net, machines, executed>>

Credentials == 1..Len(issued)
Rows        == 1..Len(log)

Idle == [at |-> "idle"]

Register(m, t)       == [kind |-> "register", machine |-> m, token |-> t]
Beat(m)              == [kind |-> "heartbeat", machine |-> m, credential |-> loaded[m]]
Result(m, command, ok) == [kind |-> "result", machine |-> m, credential |-> loaded[m],
                           command |-> command, ok |-> ok]

Waits(request)       == [at |-> "waits", request |-> request]
Accepted(credential) == [at |-> "accepted", credential |-> credential]
\* The Agent is told a command; its row is history.
Ordered(row)         == [at |-> "ordered", row |-> row]

\* The process that waits for this request's answer, if it still does.
Awaited(q) == setup[q.machine] = Waits(q) \/ service[q.machine] = Waits(q)
Late       == {q \in net : ~ Awaited(q)}

\* The bound on requests in flight, for the steps that give one up.
FewLate == Cardinality(Late') <= MaxLate

Setup(m, state)   == setup' = [setup EXCEPT ![m] = state]
Service(m, state) == service' = [service EXCEPT ![m] = state]

------------------------------------------------------------------------------
(* The dashboard.                                                          *)

IssueToken(s) ==
  /\ s \in stations
  /\ Len(tokens) + Len(log) < MaxIssues
  /\ tokens' = Append(tokens, [station |-> s, state |-> "fresh"])
  /\ UNCHANGED <<stations, paired, issued, log, pending, net, machines, executed>>

TokenExpires(t) ==
  /\ tokens[t].state = "fresh"
  /\ tokens' = [tokens EXCEPT ![t].state = "expired"]
  /\ UNCHANGED <<stations, paired, issued, log, pending, net, machines, executed>>

\* Mutant: the waiting row is left as it is.
QueuedBeside(s, command) ==
  Append(log, [station |-> s, command |-> command, status |-> "pending"])

\* queueCommand: a command still waiting is superseded.
Queued(s, command) ==
  Append(IF s \in DOMAIN pending THEN [log EXCEPT ![pending[s]].status = "superseded"] ELSE log,
         [station |-> s, command |-> command, status |-> "pending"])

QueueCommand(s, command) ==
  /\ s \in stations
  /\ paired[s] # Nobody
  /\ Len(tokens) + Len(log) < MaxIssues
  /\ log' = Queued(s, command)
  /\ pending' = [r \in DOMAIN pending \cup {s} |-> IF r = s THEN Len(log) + 1 ELSE pending[r]]
  /\ UNCHANGED <<stations, paired, tokens, issued, net, machines, executed>>

\* The foreign keys of tokens and command_log keep a record from deletion.
Referenced(s) ==
  \/ \E t \in DOMAIN tokens : tokens[t].station = s
  \/ \E r \in Rows : log[r].station = s

DeleteWorkstation(s) ==
  /\ s \in stations
  /\ ~ Referenced(s)
  /\ stations' = stations \ {s}
  /\ paired' = [paired EXCEPT ![s] = Nobody]
  /\ UNCHANGED <<tokens, issued, log, pending, net, machines, executed>>

ServerRestart ==
  /\ DOMAIN pending # {}
  /\ pending' = [s \in {} |-> 0]
  /\ UNCHANGED <<tables, net, machines, executed>>

------------------------------------------------------------------------------
(* The server's Agent endpoints.  A refused request changes nothing and     *)
(* its sender goes on as without an answer.                                *)

\* The waiting process gets its answer, or the answer is lost.
Answer(q, state, answered) ==
  \/ UNCHANGED state
  \/ state[q.machine] = Waits(q) /\ state' = [state EXCEPT ![q.machine] = answered]

\* consumeRegistrationToken: only an unused token that has not expired.
Usable(t) == tokens[t].state = "fresh"

\* Mutant: the token is not marked.
Kept(t) == tokens

Consumed(t) == [tokens EXCEPT ![t].state = "used"]

\* The unique index on agent_id: another record has this machine.
Conflicts(s, m) == \E r \in stations \ {s} : paired[r] # Nobody /\ paired[r].agent = m

\* The pairing throws after the token is used up.
BurnToken(q) ==
  /\ Conflicts(tokens[q.token].station, q.machine)
  /\ UNCHANGED <<paired, issued, setup>>

pairAgent(q) ==
  LET s == tokens[q.token].station
      c == Len(issued) + 1
  IN
  /\ ~ Conflicts(s, q.machine)
  /\ issued' = Append(issued, [station |-> s, machine |-> q.machine, token |-> q.token])
  /\ paired' = [paired EXCEPT ![s] = [agent |-> q.machine, credential |-> c]]
  /\ Answer(q, setup, Accepted(c))

ServeRegister(q) ==
  /\ q.kind = "register"
  /\ net' = net \ {q}
  /\ \/ ~ Usable(q.token) /\ UNCHANGED <<tokens, issued, paired, setup>>
     \/ Usable(q.token) /\ tokens' = Consumed(q.token) /\ (BurnToken(q) \/ pairAgent(q))
  /\ UNCHANGED <<stations, log, pending, saved, loaded, service, executed>>

\* verifyAgentCredential: the record paired with exactly this.
Station(q) == {s \in stations : paired[s] = [agent |-> q.machine, credential |-> q.credential]}

\* Mutant: the slot is emptied by the result.
NotTaken(s) == pending

\* takePendingCommand empties the slot.
Taken(s) == [r \in DOMAIN pending \ {s} |-> pending[r]]

ServeHeartbeat(q) ==
  /\ q.kind = "heartbeat"
  /\ net' = net \ {q}
  /\ \/ /\ Station(q) = {}
        /\ UNCHANGED <<log, pending, service>>
     \/ \E s \in Station(q) \ DOMAIN pending :
          /\ Answer(q, service, Idle)
          /\ UNCHANGED <<log, pending>>
     \/ \E s \in Station(q) \cap DOMAIN pending :
          /\ log' = [log EXCEPT ![pending[s]].status = "sent"]
          /\ pending' = Taken(s)
          /\ Answer(q, service, Ordered(pending[s]))
  /\ UNCHANGED <<stations, paired, tokens, issued, saved, loaded, setup, executed>>

\* Mutant: a result is booked on every row that waits for one.
AllOf(rows) == rows

Latest(rows) == {r \in rows : \A o \in rows : o <= r}

\* recordCommandResult: the latest row sent to this record with this command.
ServeResult(q) ==
  LET sent == {r \in Rows : /\ log[r].station \in Station(q)
                            /\ log[r].command = q.command
                            /\ log[r].status = "sent"}
  IN
  /\ q.kind = "result"
  /\ net' = net \ {q}
  /\ log' = [r \in Rows |-> IF r \in Latest(sent)
                            THEN [log[r] EXCEPT !.status = IF q.ok THEN "ok" ELSE "failed"]
                            ELSE log[r]]
  /\ IF Station(q) = {} THEN UNCHANGED service ELSE Answer(q, service, Idle)
  /\ UNCHANGED <<stations, paired, tokens, issued, pending, saved, loaded, setup, executed>>

------------------------------------------------------------------------------
(* DreamersAgent.exe register.                                             *)

StartSetup(m, t) ==
  /\ setup[m] = Idle
  /\ Setup(m, Waits(Register(m, t)))
  /\ net' = net \cup {Register(m, t)}
  /\ UNCHANGED <<tables, pending, saved, loaded, service, executed>>

SetupGivesUp(m) ==
  /\ setup[m].at = "waits"
  /\ Setup(m, Idle)
  /\ UNCHANGED <<tables, pending, net, saved, loaded, service, executed>>
  /\ FewLate

\* The credential is saved for the next start of the service.
SaveCredential(m) ==
  /\ setup[m].at = "accepted"
  /\ saved' = [saved EXCEPT ![m] = setup[m].credential]
  /\ Setup(m, Idle)
  /\ UNCHANGED <<tables, pending, net, loaded, service, executed>>

------------------------------------------------------------------------------
(* The service's loop, and restarts.                                       *)

SendHeartbeat(m) ==
  /\ service[m] = Idle
  /\ loaded[m] # 0
  /\ Service(m, Waits(Beat(m)))
  /\ net' = net \cup {Beat(m)}
  /\ UNCHANGED <<tables, pending, saved, loaded, setup, executed>>

SendResult(m, command, ok) ==
  /\ Service(m, Waits(Result(m, command, ok)))
  /\ net' = net \cup {Result(m, command, ok)}

\* CommandExecutor: shutdown.exe starts or cannot be started.
Execute(m) ==
  /\ service[m].at = "ordered"
  /\ \E ok \in BOOLEAN :
       /\ SendResult(m, log[service[m].row].command, ok)
       /\ executed' = IF ok THEN executed \cup {service[m].row} ELSE executed
  /\ UNCHANGED <<tables, pending, saved, loaded, setup>>

\* The catch around execution and report: an unanswered success is reported
\* as a failure, and an unanswered failure is let go.
ServiceGivesUp(m) ==
  /\ service[m].at = "waits"
  /\ LET q == service[m].request IN
       IF q.kind = "result" /\ q.ok
       THEN SendResult(m, q.command, FALSE)
       ELSE Service(m, Idle) /\ UNCHANGED net
  /\ UNCHANGED <<tables, pending, saved, loaded, setup, executed>>
  /\ FewLate

\* The service stops, alone or with its machine, and starts again.
Restart(m) ==
  /\ Service(m, Idle)
  /\ setup' \in {setup, [setup EXCEPT ![m] = Idle]}
  /\ loaded' = [loaded EXCEPT ![m] = saved[m]]
  /\ UNCHANGED <<tables, pending, net, saved, executed>>
  /\ FewLate

Lose(q) ==
  /\ q \in Late
  /\ net' = net \ {q}
  /\ UNCHANGED <<tables, pending, machines, executed>>

------------------------------------------------------------------------------
Init ==
  /\ stations = Stations
  /\ paired = [s \in Stations |-> Nobody]
  /\ tokens = <<>> /\ issued = <<>> /\ log = <<>>
  /\ pending = [s \in {} |-> 0]
  /\ net = {}
  /\ saved = [m \in Machines |-> 0] /\ loaded = saved
  /\ setup = [m \in Machines |-> Idle] /\ service = setup
  /\ executed = {}

Dashboard ==
  \/ \E s \in Stations : IssueToken(s) \/ DeleteWorkstation(s)
  \/ \E t \in DOMAIN tokens : TokenExpires(t)
  \/ \E s \in Stations, command \in Commands : QueueCommand(s, command)

Server == \E q \in net : ServeRegister(q) \/ ServeHeartbeat(q) \/ ServeResult(q)

Machine(m) ==
  \/ \E t \in DOMAIN tokens : StartSetup(m, t)
  \/ SetupGivesUp(m) \/ SaveCredential(m)
  \/ SendHeartbeat(m) \/ Execute(m) \/ ServiceGivesUp(m)
  \/ Restart(m)

Next ==
  \/ Dashboard \/ Server \/ ServerRestart
  \/ \E m \in Machines : Machine(m)
  \/ \E q \in net : Lose(q)

Spec == Init /\ [][Next]_vars

------------------------------------------------------------------------------
(* Properties.                                                             *)

TokenRow   == [station: Stations, state: {"fresh", "expired", "used"}]
CommandRow == [station: Stations, command: Commands,
               status: {"pending", "superseded", "sent", "ok", "failed"}]
Pairing    == [agent: Machines, credential: Credentials]

\* Tables well formed; what they, the memory and the network name exists, so
\* a command never waits for, and a token never pairs, a deleted record.
TypeOK ==
  /\ stations \subseteq Stations
  /\ paired \in [Stations -> Pairing \cup {Nobody}]
  /\ tokens \in Seq(TokenRow) /\ \A t \in DOMAIN tokens : tokens[t].station \in stations
  /\ log \in Seq(CommandRow) /\ \A r \in Rows : log[r].station \in stations
  /\ DOMAIN pending \subseteq stations /\ pending \in [DOMAIN pending -> Rows]
  /\ \A q \in net :
       /\ q.machine \in Machines
       /\ q.kind = "register" => q.token \in DOMAIN tokens
       /\ q.kind # "register" => q.credential \in Credentials
  /\ saved \in [Machines -> Credentials \cup {0}] /\ loaded \in [Machines -> Credentials \cup {0}]
  /\ \A m \in Machines : /\ setup[m].at \in {"idle", "waits", "accepted"}
                         /\ service[m].at \in {"idle", "waits", "ordered"}
  /\ executed \subseteq Rows

\* A record is paired only with the machine that presented a token of that
\* record, no machine with two records, and no token pairs twice, through
\* expiry, conflicts, repeated and late requests.
PairedByToken ==
  /\ \A s \in stations : paired[s] # Nobody =>
       LET c == paired[s].credential IN
       issued[c].station = s /\ issued[c].machine = paired[s].agent
  /\ \A r, s \in stations : paired[r] # Nobody /\ paired[s] # Nobody =>
       (paired[r].agent = paired[s].agent => r = s)
  /\ \A c, d \in Credentials : issued[c].token = issued[d].token => c = d

\* commands.ts: "a command is delivered at most once".  A machine never holds
\* an order that was carried out before, and no two hold the same, though
\* heartbeats are served late and records are paired anew.
Holds(m, r) == service[m] = Ordered(r)

DeliveredOnce ==
  \A m \in Machines, r \in Rows : Holds(m, r) =>
    r \notin executed /\ \A n \in Machines : Holds(n, r) => n = m

\* commands.ts: a queued row must not stay "pending" when it is no longer on
\* its way: it leaves its slot only sent or superseded, or because the server
\* restarts.
PendingAccounted ==
  [][ \A s \in DOMAIN pending :
        log'[pending[s]].status = "pending" =>
          (s \in DOMAIN pending' /\ pending'[s] = pending[s]) \/ DOMAIN pending' = {} ]_vars

\* Where the command of a row is, what the log shows of it, and of whom it is.
PlaceOf(r) ==
  IF r \notin Rows THEN "new"
  ELSE IF r \in executed THEN "carried"
  ELSE IF \E m \in Machines : Holds(m, r) THEN "held"
  ELSE IF \E s \in DOMAIN pending : pending[s] = r THEN "waiting"
  ELSE IF log[r].status = "pending" THEN "forgotten"
  ELSE IF log[r].status = "superseded" THEN "superseded"
  ELSE "gone"

ShownOf(r)  == IF r \in Rows THEN log[r].status ELSE "none"
RecordOf(r) == IF r \in Rows THEN log[r].station ELSE "none"

RowIds == 1..MaxIssues

Delivery == INSTANCE CommandDelivery
  WITH place  <- [r \in RowIds |-> PlaceOf(r)], shown <- [r \in RowIds |-> ShownOf(r)],
       record <- [r \in RowIds |-> RecordOf(r)]

\* Through the slot in memory, heartbeats served late, lost answers, restarts on
\* either side and records paired anew, each row has the one course that
\* CommandDelivery allows: replaced, sent once, carried out once, told once.
DeliverySpec == Delivery!Spec

\* A result names no row, and a success unanswered is reported again as a
\* failure; still a record shows a command carried out (ok) no more often than
\* it was.
OkBacked ==
  \A s \in stations, command \in Commands :
    LET mine == {r \in Rows : log[r].station = s /\ log[r].command = command}
    IN  Cardinality({r \in mine : log[r].status = "ok"}) <= Cardinality(mine \cap executed)
==============================================================================
