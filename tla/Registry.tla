------------------------------- MODULE Registry -------------------------------
(***************************************************************************)
(* The workstation registry: its REST handlers, the workstations table and *)
(* the audit rows the handlers leave.                                      *)
(*                                                                         *)
(* Requests come from several administrators.  A handler runs in one go,   *)
(* but for POST /:id/wake, which reads the workstation, waits for the UDP  *)
(* packet and records the wake after that; the server may restart between. *)
(* A field that may be refused is its valid values and Bad; hostname, ip,  *)
(* port, location and description take the path of `mac', and enabled that *)
(* of `jobs_enabled'.  The actor and address of an audit row are left out. *)
(***************************************************************************)
EXTENDS Integers, Sequences, FiniteSets

CONSTANTS
  Admins, Names, MacAddresses,
  UNSET_MAC,            \* 00:00:00:00:00:00
  None, Absent, Bad,    \* no row; a field left out; a field with a refused value
  MaxId, MaxLog,        \* bounds on workstations ever created, on audit rows
  MaxPackets            \* and on packets sent to a workstation

Ids == 1..MaxId
Workstation == [name: Names, mac: MacAddresses, jobs_enabled: BOOLEAN]

ASSUME RegistryAssumption ==
  /\ IsFiniteSet(Admins) /\ MaxId \in Nat \ {0} /\ MaxLog \in Nat /\ MaxPackets \in Nat
  /\ {None, Absent, Bad} \cap (Names \cup MacAddresses) = {} /\ None \notin Workstation

\* Boolean(b.jobs_enabled) refuses nothing.
Body == [name: Names \cup {Absent, Bad}, mac: MacAddresses \cup {Absent, Bad},
         jobs_enabled: BOOLEAN \cup {Absent}]
Field == {"name", "mac", "jobs_enabled"}

VARIABLES
  row,        \* per id: the workstation, or None
  created,    \* the ids given out (AUTOINCREMENT)
  held,       \* ids a token, a command or a job refers to (foreign keys)
  log,        \* audit_log: action, target_id, target_label
  waking,     \* per admin: the wake under way, or None
  asked,      \* history, per id and field: the last value an accepted request gave
  packets,    \* history, per id: packets sent
  lost        \* history: ids with an audit row that could not be written

registryVars == <<row, created, held, log, waking, asked, packets, lost>>

\* Empty; there may have been workstations before.
RegistryInit ==
  /\ row = [i \in Ids |-> None] /\ created \in 0..MaxId - 1 /\ held = {} /\ log = <<>>
  /\ waking = [a \in Admins |-> None]
  /\ asked = [i \in Ids |-> [f \in Field |-> Absent]]
  /\ packets = [i \in Ids |-> 0] /\ lost = {}

\* recordAudit never throws: the row is written, or lost with a line on stderr.
recordAudit(rows) ==
  \/ Len(log) + Len(rows) <= MaxLog /\ log' = log \o rows /\ UNCHANGED lost
  \/ rows # <<>> /\ log' = log /\ lost' = lost \cup {rows[1].id}

Entry(action, i, label) == <<[action |-> action, id |-> i, label |-> label]>>

Default(value, otherwise) == IF value = Absent THEN otherwise ELSE value

Accepts(b) == \A f \in Field : b[f] # Bad

validateCreateInput(b) == Accepts(b) /\ b.name # Absent /\ b.mac # Absent

\* Mutant: the defaults of a new workstation are filled in here too.
DefaultsFilled(i, b) ==
  [f \in Field |-> Default(b[f], IF f = "jobs_enabled" THEN TRUE ELSE row[i][f])]

\* {...existing, ...input}: what the request left out stays.
Merged(i, b) == [f \in Field |-> Default(b[f], row[i][f])]

\* The UNIQUE constraint on name.
Taken(i, name) == \E j \in Ids \ {i} : row[j] # None /\ row[j].name = name

createWorkstation(b) ==
  /\ validateCreateInput(b) /\ created < MaxId
  /\ LET i == created + 1 IN
     /\ ~Taken(i, b.name)
     /\ created' = i
     /\ row' = [row EXCEPT ![i] = [f \in Field |-> Default(b[f], TRUE)]]
     /\ asked' = [asked EXCEPT ![i] = [f \in Field |-> Default(b[f], TRUE)]]
     /\ recordAudit(Entry("create", i, b.name))
  /\ UNCHANGED <<held, waking, packets>>

updateWorkstation(i, b) ==
  /\ row[i] # None
  /\ Accepts(b) /\ \E f \in Field : b[f] # Absent
  /\ ~Taken(i, Merged(i, b).name)
  /\ row' = [row EXCEPT ![i] = Merged(i, b)]
  /\ asked' = [asked EXCEPT ![i] = [f \in Field |-> Default(b[f], @[f])]]
  /\ recordAudit(Entry("update", i, Merged(i, b).name))
  /\ UNCHANGED <<created, held, waking, packets>>

Deletable(i) == row[i] # None /\ i \notin held

\* The row of a deletion, with the name read before it.
DeletionRecorded(i) == IF Deletable(i) THEN Entry("delete", i, row[i].name) ELSE <<>>

\* 404 for an unknown id; a row that is referred to makes SQLite refuse: 500.
deleteWorkstation(i) ==
  /\ row' = IF Deletable(i) THEN [row EXCEPT ![i] = None] ELSE row
  /\ asked' = IF Deletable(i) THEN [asked EXCEPT ![i] = [f \in Field |-> Absent]] ELSE asked
  /\ recordAudit(DeletionRecorded(i))
  /\ UNCHANGED <<created, held, waking, packets>>

\* POST /:id/agent-token: recorded first; the token refers to the row for good.
agentToken(i) ==
  /\ row[i] # None
  /\ held' = held \cup {i}
  /\ recordAudit(Entry("agent_token", i, row[i].name))
  /\ UNCHANGED <<row, created, waking, asked, packets>>

\* POST /:id/wake up to `await sendMagicPacket': the row as read is kept.
Wake(a, i) ==
  /\ waking[a] = None /\ row[i] # None /\ row[i].mac # UNSET_MAC
  /\ waking' = [waking EXCEPT ![a] = [id |-> i, name |-> row[i].name, sent |-> FALSE]]
  /\ UNCHANGED <<row, created, held, log, asked, packets, lost>>

\* socket.send is called back; the promise resolves.
PacketSent(a) ==
  /\ waking[a] # None /\ ~waking[a].sent /\ packets[waking[a].id] < MaxPackets
  /\ waking' = [waking EXCEPT ![a].sent = TRUE]
  /\ packets' = [packets EXCEPT ![waking[a].id] = @ + 1]
  /\ UNCHANGED <<row, created, held, log, asked, lost>>

\* The socket fails to open, to bind or to send: 500, and no row.
SendFails(a) ==
  /\ waking[a] # None /\ ~waking[a].sent
  /\ waking' = [waking EXCEPT ![a] = None]
  /\ UNCHANGED <<row, created, held, log, asked, packets, lost>>

Resolved(a) == waking[a] # None /\ waking[a].sent

WakeRecorded(a) ==
  /\ Resolved(a)
  /\ recordAudit(Entry("wake", waking[a].id, waking[a].name))
  /\ waking' = [waking EXCEPT ![a] = None]
  /\ UNCHANGED <<row, created, held, asked, packets>>

\* The handlers under way are gone; the database stays.
Restart ==
  /\ waking' = [a \in Admins |-> None]
  /\ UNCHANGED <<row, created, held, log, asked, packets, lost>>

Edits ==
  \/ \E b \in Body : createWorkstation(b) \/ \E i \in Ids : updateWorkstation(i, b)
  \/ \E i \in Ids : deleteWorkstation(i) \/ agentToken(i)

Wakes ==
  \E a \in Admins : PacketSent(a) \/ SendFails(a) \/ WakeRecorded(a) \/ \E i \in Ids : Wake(a, i)

RegistryNext == Edits \/ Wakes \/ Restart

RegistrySpec == RegistryInit /\ [][RegistryNext]_registryVars

-------------------------------------------------------------------------------
Logged(action, i) == {k \in DOMAIN log : log[k].action = action /\ log[k].id = i}

(* Every row is well formed, no two have one name, no id is given twice.     *)
RegistryTypeOK ==
  /\ row \in [Ids -> Workstation \cup {None}]
  /\ created \in 0..MaxId /\ held \subseteq 1..created
  /\ \A i, j \in {k \in Ids : row[k] # None} :
       i <= created /\ (row[i].name = row[j].name => i = j)

(* A field has the value the last request that named it gave, whatever       *)
(* requests about other fields came in between: a machine taken out of the   *)
(* render pool stays out when somebody corrects its name.                    *)
LastWordStands ==
  \A i \in Ids : row[i] # None =>
    \A f \in Field : row[i][f] = asked[i][f]

(* Unless a row was lost, the log tells which workstations there are: those  *)
(* created and not deleted.  A refused deletion leaves no trace in it.       *)
LogTells ==
  \A i \in Ids \ lost :
    /\ (row[i] # None) <=> (Logged("create", i) # {} /\ Logged("delete", i) = {})
    /\ Cardinality(Logged("delete", i)) <= 1

(* workstations.ts:145: a wake in the log is a packet that was sent, through *)
(* failures, restarts and wakes of several administrators at once.           *)
WakesHappened == \A i \in Ids : Cardinality(Logged("wake", i)) <= packets[i]

(* The table, the log and the network tell one story about the workstations. *)
RegistryInv == RegistryTypeOK /\ LastWordStands /\ LogTells /\ WakesHappened
===============================================================================
