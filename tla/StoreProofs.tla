----------------------------- MODULE StoreProofs -----------------------------
(*****************************************************************************)
(* Proofs about what the servers keep: the workstations and                  *)
(* their log, the sessions of the portal, the accounts the server seeds, the *)
(* requests of jobs it stores and the rule for the paths that they name.     *)
(* Each part is about one module and holds for any value of its constants.   *)
(*****************************************************************************)
EXTENDS Registry, PortalAccess, Accounts, JobInput, AllowedPaths, FiniteSetTheorems,
        SequenceTheorems, WellFoundedInduction, TLAPS

------------------------------------------------------------------------------
(* Proofs about Registry, for any administrators, names and addresses and  *)
(* any bounds.                                                             *)
(*                                                                         *)
(* The table and the last values asked for are changed together, field by  *)
(* field.  A packet that was sent and is not recorded yet belongs to a     *)
(* wake under way: with those counted, the log never runs ahead.           *)

Actions == {"create", "update", "delete", "agent_token", "wake"}
LogRow == [action : Actions, id : Ids, label : Names]
WakeUp == [id : Ids, name : Names, sent : BOOLEAN]

\* The shape of the variables that TypeOK leaves open.
Shape ==
  /\ log \in Seq(LogRow)
  /\ waking \in [Admins -> WakeUp \cup {None}]
  /\ packets \in [Ids -> Nat]
  /\ asked = [i \in Ids |-> asked[i]]
  /\ \A i \in Ids : asked[i] = [f \in Field |-> asked[i][f]]

Typed == RegistryTypeOK /\ Shape

-------------------------------------------------------------------------------
(* Values.                                                                   *)

LEMMA RowOfFields ==
  ASSUME NEW r, DOMAIN r = Field, r = [f \in DOMAIN r |-> r[f]],
         r.name \in Names, r.mac \in MacAddresses, r.jobs_enabled \in BOOLEAN
  PROVE  r \in Workstation
<1>1. r = [name |-> r.name, mac |-> r.mac, jobs_enabled |-> r.jobs_enabled]
  BY DEF Field
<1> QED
  BY <1>1 DEF Workstation

\* The row of a new workstation.
Fresh(b) == [f \in Field |-> Default(b[f], TRUE)]

LEMMA CreatedRow ==
  ASSUME NEW b \in Body, validateCreateInput(b)
  PROVE  Fresh(b) \in Workstation /\ Fresh(b).name = b.name /\ b.name \in Names
<1>1. b.name \in Names /\ b.mac \in MacAddresses
      /\ b.jobs_enabled \in BOOLEAN \cup {Absent}
  BY DEF Body, validateCreateInput, Accepts, Field
<1> DEFINE r == Fresh(b)
<1>2. r.name = b.name /\ r.mac = b.mac
  BY DEF validateCreateInput, Default, Fresh, Field
<1>3. r.jobs_enabled = Default(b.jobs_enabled, TRUE)
  BY DEF Fresh, Field
<1>4. r.jobs_enabled \in BOOLEAN
  BY <1>1, <1>3 DEF Default
<1>5. DOMAIN r = Field /\ r = [f \in DOMAIN r |-> r[f]]
  BY DEF Fresh
<1> QED
  BY <1>1, <1>2, <1>4, <1>5, RowOfFields

LEMMA MergedRow ==
  ASSUME Typed, NEW i \in Ids, row[i] # None, NEW b \in Body, Accepts(b)
  PROVE  Merged(i, b) \in Workstation
<1>1. row[i] \in Workstation
  BY DEF Typed, RegistryTypeOK
<1> DEFINE r == Merged(i, b)
<1>2. r.name = Default(b.name, row[i].name) /\ r.mac = Default(b.mac, row[i].mac)
      /\ r.jobs_enabled = Default(b.jobs_enabled, row[i].jobs_enabled)
  BY DEF Merged, Field
<1>3. r.name \in Names /\ r.mac \in MacAddresses
  BY <1>1, <1>2 DEF Default, Workstation, Body, Accepts, Field
<1>4. r.jobs_enabled \in BOOLEAN
  <2>1. row[i].jobs_enabled \in BOOLEAN /\ b.jobs_enabled \in BOOLEAN \cup {Absent}
    BY <1>1 DEF Workstation, Body
  <2> QED
    BY <1>2, <2>1 DEF Default
<1>5. DOMAIN r = Field /\ r = [f \in DOMAIN r |-> r[f]]
  BY DEF Merged
<1> QED
  BY <1>3, <1>4, <1>5, RowOfFields
(* The audit log, whatever is recorded, and whether or not it is lost.       *)

LEMMA EntryTyped ==
  ASSUME NEW action \in Actions, NEW i \in Ids, NEW label \in Names
  PROVE  Entry(action, i, label) \in Seq(LogRow)
BY DEF Entry, LogRow

LEMMA RecordedTyped ==
  ASSUME log \in Seq(LogRow), NEW rows \in Seq(LogRow), recordAudit(rows)
  PROVE  log' \in Seq(LogRow)
<1>1. CASE log' = log \o rows
  BY <1>1
<1>2. CASE log' = log
  BY <1>2
<1> QED
  BY <1>1, <1>2 DEF recordAudit

\* An action only adds to its own entries of the log.
LEMMA OthersRecorded ==
  ASSUME log \in Seq(LogRow), NEW i \in Ids, NEW action \in Actions,
         NEW other, action # other,
         NEW j, NEW label, recordAudit(Entry(action, j, label))
  PROVE  Logged(other, i)' = Logged(other, i)
<1>1. CASE log' = log
  BY <1>1 DEF Logged
<1>2. CASE log' = Append(log, [action |-> action, id |-> j, label |-> label])
  <2>1. DOMAIN log' = DOMAIN log \cup {Len(log) + 1} /\ Len(log) + 1 \notin DOMAIN log
    BY <1>2
  <2>2. \A k \in DOMAIN log : log'[k] = log[k]
    BY <1>2
  <2>3. log'[Len(log) + 1].action = action
    BY <1>2
  <2> QED
    BY <2>1, <2>2, <2>3 DEF Logged
<1>3. log \o Entry(action, j, label) = Append(log, [action |-> action, id |-> j, label |-> label])
  BY DEF Entry
<1> QED
  BY <1>1, <1>2, <1>3 DEF recordAudit

LEMMA LoggedFinite ==
  ASSUME log \in Seq(LogRow), NEW i
  PROVE  IsFiniteSet(Logged("wake", i))
<1>1. Logged("wake", i) \subseteq 1..Len(log)
  BY DEF Logged
<1>2. IsFiniteSet(1..Len(log))
  BY FS_Interval
<1> QED
  BY <1>1, <1>2, FS_Subset

-------------------------------------------------------------------------------
(* The types.                                                                *)

\* The part of TypeOK that the table of workstations decides.
Distinct ==
  \A i, j \in {k \in Ids : row[k] # None} : i <= created /\ (row[i].name = row[j].name => i = j)

LEMMA InitTyped == RegistryInit => Typed
<1> SUFFICES ASSUME RegistryInit PROVE Typed
  OBVIOUS
<1>1. RegistryTypeOK
  BY RegistryAssumption DEF RegistryInit, RegistryTypeOK, Ids
<1>2. log \in Seq(LogRow) /\ waking \in [Admins -> WakeUp \cup {None}] /\ packets \in [Ids -> Nat]
  BY DEF RegistryInit
<1>3. asked = [i \in Ids |-> asked[i]] /\ \A i \in Ids : asked[i] = [f \in Field |-> asked[i][f]]
  BY DEF RegistryInit
<1> QED
  BY <1>1, <1>2, <1>3 DEF Typed, Shape

LEMMA CreateTyped ==
  ASSUME Typed, NEW b \in Body, createWorkstation(b)
  PROVE  Typed'
<1> DEFINE i == created + 1
<1>1. i \in Ids /\ created' = i
  BY RegistryAssumption DEF createWorkstation, Typed, RegistryTypeOK, Ids
<1>2. row' = [row EXCEPT ![i] = Fresh(b)]
  BY DEF createWorkstation, Fresh
<1>3. Fresh(b) \in Workstation /\ Fresh(b).name = b.name /\ b.name \in Names
  BY CreatedRow DEF createWorkstation
<1>4. row' \in [Ids -> Workstation \cup {None}]
  BY <1>2, <1>3 DEF Typed, RegistryTypeOK
<1>5. Distinct'
  <2> SUFFICES ASSUME NEW j \in Ids, NEW k \in Ids, row'[j] # None, row'[k] # None
               PROVE  j <= i /\ (row'[j].name = row'[k].name => j = k)
    BY <1>1 DEF Distinct
  <2>1. \A h \in Ids \ {i} : row[h] # None => row[h].name # b.name
    BY DEF createWorkstation, Taken
  <2>2. row \in [Ids -> Workstation \cup {None}]
    BY DEF Typed, RegistryTypeOK
  <2>3. j <= i
    BY <1>1, <1>2, <2>2 DEF Typed, RegistryTypeOK, Ids
  <2>4. CASE j # i /\ k # i
    BY <1>2, <2>2, <2>3, <2>4 DEF Typed, RegistryTypeOK
  <2>5. CASE j = i \/ k = i
    BY <1>1, <1>2, <1>3, <2>1, <2>2, <2>3, <2>5
  <2> QED
    BY <2>4, <2>5
<1>6. created' \in 0..MaxId /\ held' \subseteq 1..created'
  BY <1>1 DEF createWorkstation, Typed, RegistryTypeOK, Ids
<1>7. asked' = [h \in Ids |-> asked'[h]] /\ \A h \in Ids : asked'[h] = [f \in Field |-> asked'[h][f]]
  <2>1. asked' = [asked EXCEPT ![i] = Fresh(b)]
    BY DEF createWorkstation, Fresh
  <2>2. Fresh(b) = [f \in Field |-> Fresh(b)[f]]
    BY DEF Fresh
  <2> QED
    BY <1>1, <2>1, <2>2 DEF Typed, Shape
<1>8. Entry("create", i, b.name) \in Seq(LogRow)
  <2>1. "create" \in Actions
    BY DEF Actions
  <2> QED
    BY <2>1, <1>1, <1>3, EntryTyped, Zenon
<1>9. log' \in Seq(LogRow)
  BY <1>8, RecordedTyped DEF createWorkstation, Typed, Shape
<1> QED
  BY <1>4, <1>5, <1>6, <1>7, <1>9 DEF createWorkstation, Typed, RegistryTypeOK, Shape, Distinct

LEMMA UpdateTyped ==
  ASSUME Typed, NEW i \in Ids, NEW b \in Body, updateWorkstation(i, b)
  PROVE  Typed'
<1>1. row' = [row EXCEPT ![i] = Merged(i, b)] /\ row[i] # None /\ ~ Taken(i, Merged(i, b).name)
  BY DEF updateWorkstation
<1>2. Merged(i, b) \in Workstation /\ Merged(i, b).name \in Names
  <2>1. Merged(i, b) \in Workstation
    BY MergedRow DEF updateWorkstation
  <2> QED
    BY <2>1 DEF Workstation
<1>3. row \in [Ids -> Workstation \cup {None}]
  BY DEF Typed, RegistryTypeOK
<1>4. row' \in [Ids -> Workstation \cup {None}]
  BY <1>1, <1>2, <1>3
<1>5. Distinct'
  <2> SUFFICES ASSUME NEW j \in Ids, NEW k \in Ids, row'[j] # None, row'[k] # None
               PROVE  j <= created /\ (row'[j].name = row'[k].name => j = k)
    BY DEF Distinct, updateWorkstation
  <2>1. \A h \in Ids \ {i} : row[h] # None => row[h].name # Merged(i, b).name
    BY <1>1 DEF Taken
  <2>2. \A h \in Ids : row'[h] # None => row[h] # None
    BY <1>1, <1>3
  <2>3. j <= created
    BY <2>2 DEF Typed, RegistryTypeOK
  <2>4. CASE j # i /\ k # i
    BY <1>1, <1>3, <2>3, <2>4 DEF Typed, RegistryTypeOK
  <2>5. CASE j = i \/ k = i
    BY <1>1, <1>3, <2>1, <2>3, <2>5
  <2> QED
    BY <2>4, <2>5
<1>6. asked' = [h \in Ids |-> asked'[h]] /\ \A h \in Ids : asked'[h] = [f \in Field |-> asked'[h][f]]
  <2>1. asked' = [asked EXCEPT ![i] = [f \in Field |-> Default(b[f], asked[i][f])]]
    BY DEF updateWorkstation
  <2> QED
    BY <2>1 DEF Typed, Shape
<1>7. log' \in Seq(LogRow)
  <2>1. Entry("update", i, Merged(i, b).name) \in Seq(LogRow)
    <3>1. "update" \in Actions
      BY DEF Actions
    <3> QED
      BY <3>1, <1>2, EntryTyped, Zenon
  <2> QED
    BY <2>1, RecordedTyped DEF updateWorkstation, Typed, Shape
<1> QED
  BY <1>4, <1>5, <1>6, <1>7 DEF updateWorkstation, Typed, RegistryTypeOK, Shape, Distinct

LEMMA DeleteTyped ==
  ASSUME Typed, NEW i \in Ids, deleteWorkstation(i)
  PROVE  Typed'
<1>1. row \in [Ids -> Workstation \cup {None}]
  BY DEF Typed, RegistryTypeOK
<1>2. row' \in [Ids -> Workstation \cup {None}] /\ \A h \in Ids : row'[h] = row[h] \/ row'[h] = None
  BY <1>1 DEF deleteWorkstation
<1>3. Distinct'
  BY <1>2 DEF Distinct, deleteWorkstation, Typed, RegistryTypeOK
<1>4. DeletionRecorded(i) \in Seq(LogRow)
  <2>1. CASE Deletable(i)
    <3>1. row[i].name \in Names /\ "delete" \in Actions
      BY <1>1, <2>1 DEF Deletable, Workstation, Actions
    <3>2. Entry("delete", i, row[i].name) \in Seq(LogRow)
      BY <3>1, EntryTyped, Zenon
    <3> QED
      BY <2>1, <3>2 DEF DeletionRecorded
  <2>2. CASE ~ Deletable(i)
    BY <2>2 DEF DeletionRecorded
  <2> QED
    BY <2>1, <2>2
<1>5. log' \in Seq(LogRow)
  BY <1>4, RecordedTyped DEF deleteWorkstation, Typed, Shape
<1>6. asked' = [h \in Ids |-> asked'[h]] /\ \A h \in Ids : asked'[h] = [f \in Field |-> asked'[h][f]]
  BY DEF deleteWorkstation, Typed, Shape
<1> QED
  BY <1>2, <1>3, <1>5, <1>6 DEF deleteWorkstation, Typed, RegistryTypeOK, Shape, Distinct

LEMMA TokenTyped ==
  ASSUME Typed, NEW i \in Ids, agentToken(i)
  PROVE  Typed'
<1>1. row[i] \in Workstation /\ i <= created
  BY DEF agentToken, Typed, RegistryTypeOK
<1>2. held' \subseteq 1..created
  BY <1>1, RegistryAssumption DEF agentToken, Typed, RegistryTypeOK, Ids
<1>3. row[i].name \in Names /\ "agent_token" \in Actions
  BY <1>1 DEF Workstation, Actions
<1>4. Entry("agent_token", i, row[i].name) \in Seq(LogRow)
  BY <1>3, EntryTyped, Zenon
<1>5. log' \in Seq(LogRow)
  BY <1>4, RecordedTyped DEF agentToken, Typed, Shape
<1> QED
  BY <1>2, <1>5 DEF agentToken, Typed, RegistryTypeOK, Shape

(* A wake under way, once it is known to be one.                             *)
LEMMA WakingTyped ==
  ASSUME Typed, NEW a \in Admins, waking[a] # None
  PROVE  waking[a] \in WakeUp /\ waking[a].id \in Ids /\ waking[a].name \in Names
BY DEF Typed, Shape, WakeUp

LEMMA WakeTyped ==
  ASSUME Typed, NEW a \in Admins,
         (\E i \in Ids : Wake(a, i)) \/ PacketSent(a) \/ SendFails(a) \/ WakeRecorded(a)
  PROVE  Typed'
<1>1. ASSUME NEW i \in Ids, Wake(a, i)
      PROVE  Typed'
  <2>1. row[i] \in Workstation
    BY <1>1 DEF Wake, Typed, RegistryTypeOK
  <2>2. [id |-> i, name |-> row[i].name, sent |-> FALSE] \in WakeUp
    BY <2>1 DEF WakeUp, Workstation
  <2> QED
    BY <1>1, <2>2 DEF Wake, Typed, RegistryTypeOK, Shape
<1>2. CASE PacketSent(a)
  <2>1. waking[a] \in WakeUp /\ waking[a].id \in Ids
    BY <1>2, WakingTyped DEF PacketSent
  <2>2. [waking[a] EXCEPT !.sent = TRUE] \in WakeUp
    BY <2>1 DEF WakeUp
  <2>3. waking' \in [Admins -> WakeUp \cup {None}]
    BY <1>2, <2>2 DEF PacketSent, Typed, Shape
  <2>4. packets' \in [Ids -> Nat]
    BY <1>2, <2>1 DEF PacketSent, Typed, Shape
  <2> QED
    BY <1>2, <2>3, <2>4 DEF PacketSent, Typed, RegistryTypeOK, Shape
<1>3. CASE SendFails(a)
  BY <1>3 DEF SendFails, Typed, RegistryTypeOK, Shape
<1>4. CASE WakeRecorded(a)
  <2>1. waking[a].id \in Ids /\ waking[a].name \in Names /\ "wake" \in Actions
    BY <1>4, WakingTyped DEF WakeRecorded, Resolved, Actions
  <2>2. Entry("wake", waking[a].id, waking[a].name) \in Seq(LogRow)
    BY <2>1, EntryTyped, Zenon
  <2>3. log' \in Seq(LogRow)
    BY <1>4, <2>2, RecordedTyped DEF WakeRecorded, Typed, Shape
  <2> QED
    BY <1>4, <2>3 DEF WakeRecorded, Typed, RegistryTypeOK, Shape
<1> QED
  BY <1>1, <1>2, <1>3, <1>4

LEMMA RestartTyped ==
  ASSUME Typed, Restart
  PROVE  Typed'
BY DEF Restart, Typed, RegistryTypeOK, Shape

LEMMA NextTyped ==
  ASSUME Typed, [RegistryNext]_registryVars
  PROVE  Typed'
<1>1. CASE RegistryNext
  BY <1>1, CreateTyped, UpdateTyped, DeleteTyped, TokenTyped, WakeTyped, RestartTyped DEF RegistryNext, Edits, Wakes
<1>2. CASE UNCHANGED registryVars
  BY <1>2 DEF registryVars, Typed, RegistryTypeOK, Shape
<1> QED
  BY <1>1, <1>2

-------------------------------------------------------------------------------
(* Edits.                                                                    *)

LEMMA NextLastWord ==
  ASSUME Typed, LastWordStands, [RegistryNext]_registryVars
  PROVE  LastWordStands'
<1> SUFFICES ASSUME NEW i \in Ids, row'[i] # None, NEW f \in Field
             PROVE  row'[i][f] = asked'[i][f]
  BY DEF LastWordStands
<1>1. row \in [Ids -> Workstation \cup {None}] /\ asked = [h \in Ids |-> asked[h]]
  BY DEF Typed, RegistryTypeOK, Shape
<1>2. row[i] # None => row[i][f] = asked[i][f]
  BY DEF LastWordStands
<1>3. ASSUME NEW b \in Body, createWorkstation(b)
      PROVE  row'[i][f] = asked'[i][f]
  <2>1. row' = [row EXCEPT ![created + 1] = Fresh(b)] /\ asked' = [asked EXCEPT ![created + 1] = Fresh(b)]
    BY <1>3 DEF createWorkstation, Fresh
  <2> QED
    BY <1>1, <1>2, <2>1
<1>4. ASSUME NEW j \in Ids, NEW b \in Body, updateWorkstation(j, b)
      PROVE  row'[i][f] = asked'[i][f]
  <2>1. /\ row[j] # None
        /\ row' = [row EXCEPT ![j] = [g \in Field |-> Default(b[g], row[j][g])]]
        /\ asked' = [asked EXCEPT ![j] = [g \in Field |-> Default(b[g], asked[j][g])]]
    BY <1>4 DEF updateWorkstation, Merged
  <2>2. CASE i = j
    <3>1. row'[i][f] = Default(b[f], row[i][f]) /\ asked'[i][f] = Default(b[f], asked[i][f])
      BY <1>1, <2>1, <2>2
    <3> QED
      BY <1>2, <2>1, <2>2, <3>1
  <2>3. CASE i # j
    BY <1>1, <1>2, <2>1, <2>3
  <2> QED
    BY <2>2, <2>3
<1>5. ASSUME NEW j \in Ids, deleteWorkstation(j)
      PROVE  row'[i][f] = asked'[i][f]
  BY <1>1, <1>2, <1>5 DEF deleteWorkstation
<1>6. CASE UNCHANGED <<row, asked>>
  BY <1>2, <1>6
<1>7. CASE \/ \E j \in Ids : agentToken(j)
           \/ \E a \in Admins : PacketSent(a) \/ SendFails(a) \/ WakeRecorded(a) \/ \E j \in Ids : Wake(a, j)
           \/ Restart \/ UNCHANGED registryVars
  BY <1>6, <1>7 DEF agentToken, PacketSent, SendFails, WakeRecorded, Wake, Restart, registryVars
<1> QED
  BY <1>3, <1>4, <1>5, <1>7 DEF RegistryNext, Edits, Wakes

-------------------------------------------------------------------------------
(* Wakes.                                                                    *)

\* The administrators whose packet went out and is not recorded yet.
Pending(i) == {a \in Admins : waking[a] # None /\ waking[a].sent /\ waking[a].id = i}

WakesBehind ==
  \A i \in Ids : Cardinality(Logged("wake", i)) + Cardinality(Pending(i)) <= packets[i]

LEMMA PendingFinite ==
  \A i \in Ids : IsFiniteSet(Pending(i)) /\ IsFiniteSet(Pending(i)')
<1>1. IsFiniteSet(Admins)
  BY RegistryAssumption
<1>2. \A i \in Ids : Pending(i) \subseteq Admins /\ Pending(i)' \subseteq Admins
  BY DEF Pending
<1> QED
  BY <1>1, <1>2, FS_Subset

\* With no more recorded and no more pending, the log stays behind.
LEMMA NothingNew ==
  ASSUME Typed, WakesBehind, NEW i \in Ids, packets'[i] = packets[i],
         Logged("wake", i)' = Logged("wake", i), Pending(i)' \subseteq Pending(i)
  PROVE  Cardinality(Logged("wake", i)') + Cardinality(Pending(i)') <= packets'[i]
<1>1. IsFiniteSet(Pending(i)) /\ Cardinality(Pending(i)') <= Cardinality(Pending(i))
  BY PendingFinite, FS_Subset
<1>2. IsFiniteSet(Logged("wake", i))
  BY LoggedFinite DEF Typed, Shape
<1>3. Cardinality(Logged("wake", i)) \in Nat /\ Cardinality(Pending(i)) \in Nat /\ Cardinality(Pending(i)') \in Nat
  BY <1>1, <1>2, PendingFinite, FS_CardinalityType
<1>4. Cardinality(Logged("wake", i)) + Cardinality(Pending(i)) <= packets[i] /\ packets[i] \in Nat
  BY DEF WakesBehind, Typed, Shape
<1> QED
  BY <1>1, <1>3, <1>4

LEMMA DeletionKeepsWakes ==
  ASSUME Typed, NEW i \in Ids, NEW j \in Ids, deleteWorkstation(j)
  PROVE  Logged("wake", i)' = Logged("wake", i)
<1>1. log \in Seq(LogRow) /\ "delete" \in Actions /\ "delete" # "wake"
  BY DEF Typed, Shape, Actions
<1>2. CASE Deletable(j)
  <2>1. recordAudit(Entry("delete", j, row[j].name))
    BY <1>2 DEF deleteWorkstation, DeletionRecorded
  <2> QED
    BY <1>1, <2>1, OthersRecorded
<1>3. CASE ~ Deletable(j)
  <2>1. log' = log
    BY <1>1, <1>3 DEF deleteWorkstation, DeletionRecorded, recordAudit
  <2> QED
    BY <2>1 DEF Logged
<1> QED
  BY <1>2, <1>3

LEMMA EditsKeepWakes ==
  ASSUME Typed, NEW i \in Ids,
         \/ \E b \in Body : createWorkstation(b) \/ \E j \in Ids : updateWorkstation(j, b)
         \/ \E j \in Ids : deleteWorkstation(j) \/ agentToken(j)
  PROVE  Logged("wake", i)' = Logged("wake", i) /\ waking' = waking /\ packets' = packets
<1>1. /\ log \in Seq(LogRow)
      /\ {"create", "update", "agent_token"} \subseteq Actions
      /\ "create" # "wake" /\ "update" # "wake" /\ "agent_token" # "wake"
  BY DEF Typed, Shape, Actions
<1>2. ASSUME NEW b \in Body, createWorkstation(b)
      PROVE  Logged("wake", i)' = Logged("wake", i)
  <2>1. recordAudit(Entry("create", created + 1, b.name))
    BY <1>2 DEF createWorkstation
  <2> QED
    BY <1>1, <2>1, OthersRecorded
<1>3. ASSUME NEW j \in Ids, NEW b \in Body, updateWorkstation(j, b)
      PROVE  Logged("wake", i)' = Logged("wake", i)
  <2>1. recordAudit(Entry("update", j, Merged(j, b).name))
    BY <1>3 DEF updateWorkstation
  <2> QED
    BY <1>1, <2>1, OthersRecorded
<1>4. ASSUME NEW j \in Ids, agentToken(j)
      PROVE  Logged("wake", i)' = Logged("wake", i)
  <2>1. recordAudit(Entry("agent_token", j, row[j].name))
    BY <1>4 DEF agentToken
  <2> QED
    BY <1>1, <2>1, OthersRecorded
<1>5. Logged("wake", i)' = Logged("wake", i)
  BY <1>2, <1>3, <1>4, DeletionKeepsWakes
<1>6. waking' = waking /\ packets' = packets
  BY DEF createWorkstation, updateWorkstation, deleteWorkstation, agentToken
<1> QED
  BY <1>5, <1>6

\* The packet goes out: one more pending, one more sent.
LEMMA SentStaysBehind ==
  ASSUME Typed, WakesBehind, NEW a \in Admins, PacketSent(a), NEW i \in Ids
  PROVE  Cardinality(Logged("wake", i)') + Cardinality(Pending(i)') <= packets'[i]
<1>1. waking[a].id \in Ids
  BY WakingTyped DEF PacketSent
<1>2. Logged("wake", i)' = Logged("wake", i)
  BY DEF PacketSent, Logged
<1>3. \A c \in Admins : c # a => waking'[c] = waking[c]
  BY DEF PacketSent, Typed, Shape
<1>4. waking'[a].id = waking[a].id
  BY WakingTyped DEF PacketSent, Typed, Shape, WakeUp
<1>5. CASE i # waking[a].id
  <2>1. Pending(i)' \subseteq Pending(i)
    BY <1>3, <1>4, <1>5 DEF Pending
  <2>2. packets'[i] = packets[i]
    BY <1>5 DEF PacketSent, Typed, Shape
  <2> QED
    BY <1>2, <2>1, <2>2, NothingNew
<1>6. CASE i = waking[a].id
  <2>1. Pending(i)' \subseteq Pending(i) \cup {a}
    BY <1>3 DEF Pending
  <2>2. IsFiniteSet(Pending(i) \cup {a}) /\ Cardinality(Pending(i) \cup {a}) <= Cardinality(Pending(i)) + 1
    BY PendingFinite, FS_AddElement, FS_CardinalityType
  <2>3. Cardinality(Pending(i)') <= Cardinality(Pending(i) \cup {a})
    BY <2>1, <2>2, FS_Subset
  <2>4. packets'[i] = packets[i] + 1
    BY <1>6 DEF PacketSent, Typed, Shape
  <2>5. Cardinality(Logged("wake", i)) + Cardinality(Pending(i)) <= packets[i] /\ packets[i] \in Nat
    BY DEF WakesBehind, Typed, Shape
  <2>6. Cardinality(Logged("wake", i)) \in Nat
    BY LoggedFinite, FS_CardinalityType DEF Typed, Shape
  <2>7. /\ Cardinality(Pending(i)) \in Nat /\ Cardinality(Pending(i)') \in Nat
        /\ Cardinality(Pending(i) \cup {a}) \in Nat
    BY <2>2, PendingFinite, FS_CardinalityType
  <2> QED
    BY <1>2, <2>2, <2>3, <2>4, <2>5, <2>6, <2>7
<1> QED
  BY <1>5, <1>6

\* The row of a wake is written at most once, and its wake is pending no more.
LEMMA RecordedStaysBehind ==
  ASSUME Typed, WakesBehind, NEW a \in Admins, WakeRecorded(a), NEW i \in Ids
  PROVE  Cardinality(Logged("wake", i)') + Cardinality(Pending(i)') <= packets'[i]
<1> DEFINE n == waking[a].id
           entry == [action |-> "wake", id |-> n, label |-> waking[a].name]
<1>1. n \in Ids /\ log \in Seq(LogRow) /\ packets' = packets
  BY WakingTyped DEF WakeRecorded, Resolved, Typed, Shape
<1>2. waking'[a] = None /\ \A c \in Admins : c # a => waking'[c] = waking[c]
  BY DEF WakeRecorded, Typed, Shape
<1>3. Pending(i)' \subseteq Pending(i) \ {a}
  BY <1>2 DEF Pending
<1>4. CASE log' = log
  <2>1. Logged("wake", i)' = Logged("wake", i)
    BY <1>4 DEF Logged
  <2> QED
    BY <1>1, <1>3, <2>1, NothingNew
<1>5. CASE log' = Append(log, entry)
  <2>1. DOMAIN log' = DOMAIN log \cup {Len(log) + 1} /\ Len(log) + 1 \notin DOMAIN log
    BY <1>1, <1>5
  <2>2. \A k \in DOMAIN log : log'[k] = log[k]
    BY <1>1, <1>5
  <2>3. log'[Len(log) + 1] = entry
    BY <1>1, <1>5
  <2>4. entry.action = "wake" /\ entry.id = n
    OBVIOUS
  <2>5. CASE i # n
    <3>1. Logged("wake", i)' = Logged("wake", i)
      BY <2>1, <2>2, <2>3, <2>4, <2>5 DEF Logged
    <3> QED
      BY <1>1, <1>3, <3>1, NothingNew
  <2>6. CASE i = n
    <3>1. Logged("wake", i)' = Logged("wake", i) \cup {Len(log) + 1}
      BY <2>1, <2>2, <2>3, <2>4, <2>6 DEF Logged
    <3>2. IsFiniteSet(Logged("wake", i)) /\ Cardinality(Logged("wake", i)) \in Nat
      BY <1>1, LoggedFinite, FS_CardinalityType
    <3>3. Cardinality(Logged("wake", i)') <= Cardinality(Logged("wake", i)) + 1
          /\ Cardinality(Logged("wake", i)') \in Nat
      <4> DEFINE S == Logged("wake", i)
                 k == Len(log) + 1
      <4>1. Cardinality(S \cup {k}) = IF k \in S THEN Cardinality(S) ELSE Cardinality(S) + 1
        BY <3>2, FS_AddElement
      <4>2. Cardinality(S) \in Nat
        BY <3>2
      <4>3. Cardinality(S \cup {k}) <= Cardinality(S) + 1 /\ Cardinality(S \cup {k}) \in Nat
        <5> HIDE DEF S, k
        <5> QED
          BY <4>1, <4>2
      <4> QED
        BY <3>1, <4>3
    <3>4. a \in Pending(i)
      BY <2>6 DEF Pending, WakeRecorded, Resolved
    <3>5. IsFiniteSet(Pending(i)) /\ Cardinality(Pending(i)) \in Nat
      BY PendingFinite, FS_CardinalityType
    <3>6. IsFiniteSet(Pending(i) \ {a}) /\ Cardinality(Pending(i) \ {a}) = Cardinality(Pending(i)) - 1
      BY <3>4, <3>5, FS_RemoveElement
    <3>7. Cardinality(Pending(i)') <= Cardinality(Pending(i)) - 1 /\ Cardinality(Pending(i)') \in Nat
      BY <1>3, <3>6, FS_Subset, PendingFinite, FS_CardinalityType
    <3>8. Cardinality(Logged("wake", i)) + Cardinality(Pending(i)) <= packets[i] /\ packets[i] \in Nat
      BY DEF WakesBehind, Typed, Shape
    <3> QED
      BY <1>1, <3>2, <3>3, <3>5, <3>7, <3>8
  <2> QED
    BY <2>5, <2>6
<1>6. log \o Entry("wake", n, waking[a].name) = Append(log, entry)
  BY <1>1 DEF Entry
<1> QED
  BY <1>4, <1>5, <1>6 DEF WakeRecorded, recordAudit

LEMMA NextWakes ==
  ASSUME Typed, WakesBehind, [RegistryNext]_registryVars
  PROVE  WakesBehind'
<1> SUFFICES ASSUME NEW i \in Ids
             PROVE  Cardinality(Logged("wake", i)') + Cardinality(Pending(i)') <= packets'[i]
  BY DEF WakesBehind
<1>1. CASE \/ \E b \in Body : createWorkstation(b) \/ \E j \in Ids : updateWorkstation(j, b)
           \/ \E j \in Ids : deleteWorkstation(j) \/ agentToken(j)
  <2>1. Logged("wake", i)' = Logged("wake", i) /\ waking' = waking /\ packets' = packets
    BY <1>1, EditsKeepWakes
  <2>2. Pending(i)' \subseteq Pending(i)
    BY <2>1 DEF Pending
  <2> QED
    BY <2>1, <2>2, NothingNew
<1>2. ASSUME NEW a \in Admins, NEW j \in Ids, Wake(a, j)
      PROVE  Cardinality(Logged("wake", i)') + Cardinality(Pending(i)') <= packets'[i]
  <2>1. Logged("wake", i)' = Logged("wake", i) /\ packets' = packets
    BY <1>2 DEF Wake, Logged
  <2>2. ~ waking'[a].sent /\ \A c \in Admins : c # a => waking'[c] = waking[c]
    BY <1>2 DEF Wake, Typed, Shape
  <2>3. Pending(i)' \subseteq Pending(i)
    BY <2>2 DEF Pending
  <2> QED
    BY <2>1, <2>3, NothingNew
<1>3. ASSUME NEW a \in Admins, SendFails(a)
      PROVE  Cardinality(Logged("wake", i)') + Cardinality(Pending(i)') <= packets'[i]
  <2>1. Logged("wake", i)' = Logged("wake", i) /\ packets' = packets
    BY <1>3 DEF SendFails, Logged
  <2>2. waking'[a] = None /\ \A c \in Admins : c # a => waking'[c] = waking[c]
    BY <1>3 DEF SendFails, Typed, Shape
  <2>3. Pending(i)' \subseteq Pending(i)
    BY <2>2 DEF Pending
  <2> QED
    BY <2>1, <2>3, NothingNew
<1>4. CASE Restart
  <2>1. Logged("wake", i)' = Logged("wake", i) /\ packets' = packets
    BY <1>4 DEF Restart, Logged
  <2>2. Pending(i)' \subseteq Pending(i)
    BY <1>4 DEF Restart, Pending
  <2> QED
    BY <2>1, <2>2, NothingNew
<1>5. CASE UNCHANGED registryVars
  <2>1. Logged("wake", i)' = Logged("wake", i) /\ packets' = packets /\ waking' = waking
    BY <1>5 DEF registryVars, Logged
  <2>2. Pending(i)' \subseteq Pending(i)
    BY <2>1 DEF Pending
  <2> QED
    BY <2>1, <2>2, NothingNew
<1> QED
  BY <1>1, <1>2, <1>3, <1>4, <1>5, SentStaysBehind, RecordedStaysBehind DEF RegistryNext, Edits, Wakes

-------------------------------------------------------------------------------
(* The log.                                                                  *)

\* Nothing is told of an id before it is given out.
Untold == \A i \in Ids : i > created => Logged("create", i) = {} /\ Logged("delete", i) = {}

\* What is recorded is there afterwards, and nothing else is new; or the log is
\* as it was, and the id is known to be lost.
LEMMA OwnRecorded ==
  ASSUME log \in Seq(LogRow), NEW action, NEW j, NEW label, recordAudit(Entry(action, j, label))
  PROVE  \/ log' = log /\ lost' = lost \cup {j}
         \/ /\ lost' = lost
            /\ \A i : Logged(action, i)' =
                       Logged(action, i) \cup (IF i = j THEN {Len(log) + 1} ELSE {})
<1> DEFINE entry == [action |-> action, id |-> j, label |-> label]
<1>1. Entry(action, j, label)[1].id = j /\ log \o Entry(action, j, label) = Append(log, entry)
  BY DEF Entry
<1>2. CASE log' = Append(log, entry) /\ lost' = lost
  <2>1. DOMAIN log' = DOMAIN log \cup {Len(log) + 1} /\ Len(log) + 1 \notin DOMAIN log
    BY <1>2
  <2>2. \A k \in DOMAIN log : log'[k] = log[k]
    BY <1>2
  <2>3. log'[Len(log) + 1].action = action /\ log'[Len(log) + 1].id = j
    BY <1>2
  <2>4. \A i : Logged(action, i)' =
                Logged(action, i) \cup (IF i = j THEN {Len(log) + 1} ELSE {})
    BY <2>1, <2>2, <2>3 DEF Logged
  <2> QED
    BY <1>2, <2>4
<1> QED
  BY <1>1, <1>2 DEF recordAudit

\* A step that changes nobody's being there, and writes neither of the two
\* entries, changes nothing in what the log tells.
LEMMA NothingTold ==
  ASSUME LogTells, Untold, created' = created, lost \subseteq lost',
         \A i \in Ids : (row'[i] # None) <=> (row[i] # None),
         \A i \in Ids : Logged("create", i)' = Logged("create", i)
                      /\ Logged("delete", i)' = Logged("delete", i)
  PROVE  LogTells' /\ Untold'
BY DEF LogTells, Untold

LEMMA CreateTold ==
  ASSUME Typed, LogTells, Untold, NEW b \in Body, createWorkstation(b)
  PROVE  LogTells' /\ Untold'
<1>0. PICK n \in Ids : n = created + 1
  BY RegistryAssumption DEF createWorkstation, Typed, RegistryTypeOK, Ids
<1>1. /\ created' = n /\ created \in Nat
      /\ row' = [row EXCEPT ![n] = Fresh(b)] /\ row \in [Ids -> Workstation \cup {None}]
      /\ recordAudit(Entry("create", n, b.name))
  <2>1. created \in Nat /\ row \in [Ids -> Workstation \cup {None}]
    BY RegistryAssumption DEF Typed, RegistryTypeOK
  <2>2. created' = n
    BY <1>0 DEF createWorkstation
  <2>3. row' = [row EXCEPT ![n] = Fresh(b)]
    BY <1>0 DEF createWorkstation, Fresh
  <2>4. recordAudit(Entry("create", n, b.name))
    BY <1>0 DEF createWorkstation
  <2> QED
    BY <2>1, <2>2, <2>3, <2>4
<1>2. row'[n] # None
  <2>1. Fresh(b) \in Workstation
    BY CreatedRow DEF createWorkstation
  <2>2. row'[n] = Fresh(b)
    BY <1>0, <1>1
  <2> QED
    BY <2>1, <2>2, RegistryAssumption
<1>3. Logged("create", n) = {} /\ Logged("delete", n) = {}
  BY <1>0, <1>1 DEF Untold, Ids
<1>4. \A i \in Ids : Logged("delete", i)' = Logged("delete", i)
  BY <1>1, OthersRecorded DEF Typed, Shape, Actions
<1>5. CASE log' = log /\ lost' = lost \cup {n}
  <2>1. \A i \in Ids : Logged("create", i)' = Logged("create", i)
    BY <1>5 DEF Logged
  <2> QED
    BY <1>0, <1>1, <1>4, <1>5, <2>1 DEF LogTells, Untold, Ids
<1>6. CASE /\ lost' = lost
           /\ \A i : Logged("create", i)' =
                      Logged("create", i) \cup (IF i = n THEN {Len(log) + 1} ELSE {})
  <2>1. Untold'
    BY <1>0, <1>1, <1>4, <1>6 DEF Untold, Ids
  <2>2. Cardinality(Logged("delete", n)') <= 1
    <3>1. Logged("delete", n)' = {}
      BY <1>1, <1>3, <1>4
    <3>2. Cardinality(Logged("delete", n)') = 0
      BY <3>1, FS_EmptySet
    <3> QED
      BY <3>2
  <2>3. LogTells'
    BY <1>1, <1>2, <1>3, <1>4, <1>6, <2>2 DEF LogTells
  <2> QED
    BY <2>1, <2>3
<1> QED
  BY <1>1, <1>5, <1>6, OwnRecorded DEF Typed, Shape

LEMMA DeleteTold ==
  ASSUME Typed, LogTells, Untold, NEW n \in Ids, deleteWorkstation(n)
  PROVE  LogTells' /\ Untold'
<1>1. CASE ~ Deletable(n)
  <2>1. UNCHANGED <<row, created, log, lost>>
    BY <1>1 DEF deleteWorkstation, DeletionRecorded, recordAudit, Typed, Shape
  <2>2. \A x, i : Logged(x, i)' = Logged(x, i)
    BY <2>1 DEF Logged
  <2> QED
    BY <2>1, <2>2, NothingTold
<1>2. CASE Deletable(n)
  <2>1. /\ row' = [row EXCEPT ![n] = None] /\ row \in [Ids -> Workstation \cup {None}]
        /\ created' = created /\ n <= created
        /\ recordAudit(Entry("delete", n, row[n].name))
    BY <1>2 DEF deleteWorkstation, DeletionRecorded, Deletable, Typed, RegistryTypeOK
  <2>2. \A i \in Ids : Logged("create", i)' = Logged("create", i)
    BY <2>1, OthersRecorded DEF Typed, Shape, Actions
  <2>3. CASE log' = log /\ lost' = lost \cup {n}
    <3>1. \A i \in Ids : Logged("delete", i)' = Logged("delete", i)
      BY <2>3 DEF Logged
    <3> QED
      BY <2>1, <2>2, <2>3, <3>1 DEF LogTells, Untold
  <2>4. CASE /\ lost' = lost
             /\ \A i : Logged("delete", i)' =
                        Logged("delete", i) \cup (IF i = n THEN {Len(log) + 1} ELSE {})
    <3>1. Untold'
      <4>1. created \in Nat /\ \A i \in Ids : i > created => i # n
        BY <2>1, RegistryAssumption DEF Typed, RegistryTypeOK, Ids
      <4> QED
        BY <2>1, <2>2, <2>4, <4>1 DEF Untold
    <3>2. n \notin lost => Logged("delete", n)' = {Len(log) + 1}
      BY <1>2, <2>4 DEF LogTells, Deletable
    <3>3. n \notin lost => Cardinality(Logged("delete", n)') <= 1
      <4> SUFFICES ASSUME n \notin lost PROVE Cardinality(Logged("delete", n)') <= 1
        OBVIOUS
      <4>1. Logged("delete", n)' = {Len(log) + 1}
        BY <3>2
      <4>2. Cardinality(Logged("delete", n)') = 1
        BY <4>1, FS_Singleton
      <4> QED
        BY <4>2
    <3>4. LogTells'
      BY <2>1, <2>2, <2>4, <3>2, <3>3 DEF LogTells
    <3> QED
      BY <3>1, <3>4
  <2> QED
    BY <2>1, <2>3, <2>4, OwnRecorded DEF Typed, Shape
<1> QED
  BY <1>1, <1>2

\* An entry of another kind.
LEMMA OtherTold ==
  ASSUME Typed, NEW action \in Actions \ {"create", "delete"}, NEW j, NEW label,
         recordAudit(Entry(action, j, label))
  PROVE  /\ lost \subseteq lost'
         /\ \A i \in Ids : Logged("create", i)' = Logged("create", i)
                          /\ Logged("delete", i)' = Logged("delete", i)
<1>1. lost \subseteq lost'
  BY DEF recordAudit
<1> QED
  BY <1>1, OthersRecorded DEF Typed, Shape

LEMMA NextTold ==
  ASSUME Typed, LogTells, Untold, [RegistryNext]_registryVars
  PROVE  LogTells' /\ Untold'
<1>1. ASSUME NEW i \in Ids, NEW b \in Body, updateWorkstation(i, b)
      PROVE  LogTells' /\ Untold'
  <2>1. Merged(i, b) # None
    BY <1>1, MergedRow, RegistryAssumption DEF updateWorkstation
  <2>2. \A j \in Ids : (row'[j] # None) <=> (row[j] # None)
    BY <1>1, <2>1 DEF updateWorkstation, Typed, RegistryTypeOK
  <2> QED
    BY <1>1, <2>2, OtherTold, NothingTold DEF updateWorkstation, Actions
<1>2. ASSUME NEW i \in Ids, agentToken(i)
      PROVE  LogTells' /\ Untold'
  BY <1>2, OtherTold, NothingTold DEF agentToken, Actions
<1>3. ASSUME NEW a \in Admins, WakeRecorded(a)
      PROVE  LogTells' /\ Untold'
  BY <1>3, OtherTold, NothingTold DEF WakeRecorded, Actions
<1>4. CASE UNCHANGED <<row, created, log, lost>>
  <2>1. \A x, i : Logged(x, i)' = Logged(x, i)
    BY <1>4 DEF Logged
  <2> QED
    BY <1>4, <2>1, NothingTold
<1>5. ASSUME NEW a \in Admins, PacketSent(a) \/ SendFails(a) \/ \E i \in Ids : Wake(a, i)
      PROVE  LogTells' /\ Untold'
  BY <1>4, <1>5 DEF PacketSent, SendFails, Wake
<1>6. CASE Restart \/ UNCHANGED registryVars
  BY <1>4, <1>6 DEF Restart, registryVars
<1> QED
  BY <1>1, <1>2, <1>3, <1>5, <1>6, CreateTold, DeleteTold DEF RegistryNext, Edits, Wakes

-------------------------------------------------------------------------------
(* The theorems.                                                             *)

RInv == Typed /\ LastWordStands /\ WakesBehind /\ LogTells /\ Untold

LEMMA InitTold == RegistryInit => LogTells /\ Untold
<1> SUFFICES ASSUME RegistryInit PROVE LogTells /\ Untold
  OBVIOUS
<1>1. \A i \in Ids : row[i] = None /\ Logged("create", i) = {} /\ Logged("delete", i) = {}
  BY DEF RegistryInit, Logged
<1> QED
  BY <1>1, FS_EmptySet DEF LogTells, Untold

LEMMA InitWakes == RegistryInit => LastWordStands /\ WakesBehind
<1> SUFFICES ASSUME RegistryInit PROVE LastWordStands /\ WakesBehind
  OBVIOUS
<1>1. LastWordStands
  BY DEF RegistryInit, LastWordStands
<1>2. \A i \in Ids : Logged("wake", i) = {} /\ Pending(i) = {} /\ packets[i] = 0
  BY DEF RegistryInit, Logged, Pending
<1>3. WakesBehind
  BY <1>2, FS_EmptySet DEF WakesBehind
<1> QED
  BY <1>1, <1>3

\* What the table, the edits and the log keep together, through every step.
THEOREM RegistryInvariant == RegistrySpec => []RInv
<1>1. RegistryInit => RInv
  BY InitTyped, InitWakes, InitTold DEF RInv
<1>2. RInv /\ [RegistryNext]_registryVars => RInv'
  BY NextTyped, NextLastWord, NextWakes, NextTold DEF RInv
<1> QED
  BY <1>1, <1>2, PTL DEF RegistrySpec

\* However requests follow one another, rows stay well formed, no two have one
\* name and no id is given twice (workstation/repository.ts).
THEOREM RegistryTyped == RegistrySpec => []RegistryTypeOK
<1>1. RInv => RegistryTypeOK
  BY DEF RInv, Typed
<1> QED
  BY <1>1, RegistryInvariant, PTL

\* A field keeps the value the last request that named it gave: the merge of
\* update() never resets what its caller left out.
THEOREM EditsStand == RegistrySpec => []LastWordStands
<1>1. RInv => LastWordStands
  BY DEF RInv
<1> QED
  BY <1>1, RegistryInvariant, PTL

\* The log never shows more wakes of a workstation than packets were sent to it,
\* for any number of administrators waking at once, failures and restarts.
THEOREM WakesNeverAhead == RegistrySpec => []WakesHappened
<1>1. RInv => WakesHappened
  <2> SUFFICES ASSUME RInv, NEW i \in Ids
               PROVE  Cardinality(Logged("wake", i)) <= packets[i]
    BY DEF WakesHappened
  <2>1. Cardinality(Logged("wake", i)) \in Nat
    BY LoggedFinite, FS_CardinalityType DEF RInv, Typed, Shape
  <2>2. Cardinality(Pending(i)) \in Nat
    BY PendingFinite, FS_CardinalityType
  <2>3. Cardinality(Logged("wake", i)) + Cardinality(Pending(i)) <= packets[i] /\ packets[i] \in Nat
    BY DEF RInv, WakesBehind, Typed, Shape
  <2> QED
    BY <2>1, <2>2, <2>3
<1> QED
  BY <1>1, RegistryInvariant, PTL

\* Of a workstation none of whose entries was lost the log tells whether it is
\* there, and a deletion that the foreign keys refuse is not told.
THEOREM DeletionsTold == RegistrySpec => []LogTells
<1>1. RInv => LogTells
  BY DEF RInv
<1> QED
  BY <1>1, RegistryInvariant, PTL

\* All of it together: the table, the log and the packets agree, for any
\* administrators, names, addresses and bounds.
THEOREM RegistryTrue == RegistrySpec => []RegistryInv
<1>1. RegistryTypeOK /\ LastWordStands /\ LogTells /\ WakesHappened => RegistryInv
  BY DEF RegistryInv
<1> QED
  BY <1>1, RegistryTyped, EditsStand, DeletionsTold, WakesNeverAhead, PTL

------------------------------------------------------------------------------
(* Proofs about PortalAccess, for any limits and any clock.                *)
(*                                                                         *)
(* A session row is what was issued and neither logged out nor rotated     *)
(* (Opened), and a session that is missing without a reason was pushed out *)
(* by MaxSessions later ones (Reachable).  The row of auth_limits stands   *)
(* for the newest checks, which are in its window (Windowed); what was     *)
(* checked a whole window before them is too old to count (Distant).       *)

Clocked ==
  /\ now \in 0..MaxTime /\ config \in PortalPasswords /\ running \in BOOLEAN
  /\ verifier \in PortalPasswords \cup {NoOne}
  /\ login \in {"none", "right", "wrong"} /\ (login # "none" => running)

\* The tokens issued so far: 1, 2, 3 and so on, none in the future.
IssuedOK ==
  /\ era \in Nat /\ ended \subseteq DOMAIN issued
  /\ \E n \in 0..MaxTokens : DOMAIN issued = 1..n
  /\ \A t \in DOMAIN issued : issued[t].at \in 0..now /\ issued[t].era \in 0..era

\* Whether token t still has its account, its owner and its time.
Mine(t)  == issued[t].era = era /\ t \notin ended /\ now < issued[t].at + SessionLife
Later(t) == {u \in DOMAIN issued \ {t} : issued[u].era = era /\ issued[u].at >= issued[t].at}

Opened ==
  /\ DOMAIN sessions \subseteq DOMAIN issued
  /\ Cardinality(DOMAIN sessions) <= MaxSessions
  /\ \A t \in DOMAIN sessions :
       sessions[t] = issued[t].at + SessionLife /\ issued[t].era = era /\ t \notin ended

Reachable ==
  \A t \in DOMAIN issued :
    Mine(t) /\ Cardinality(Later(t)) < MaxSessions => t \in DOMAIN sessions

SessionInv == Opened /\ Reachable

\* The checks since the last success, and the row that counts the newest.
Timed ==
  /\ checks \in Seq(0..MaxTime)
  /\ \A i \in DOMAIN checks : checks[i] <= now
  /\ \A i, j \in DOMAIN checks : i <= j => checks[i] <= checks[j]
  /\ limit \in [count: Nat, expires: Nat]

Windowed ==
  /\ limit.count \in 1..MaxLogins /\ limit.count <= Len(checks)
  /\ checks[Len(checks) - limit.count + 1] + LoginWindow = limit.expires

Distant ==
  \A k \in 1..(Len(checks) - limit.count - MaxLogins) :
    checks[k] + LoginWindow + LoginWindow < limit.expires

BudgetInv ==
  /\ Timed
  /\ \/ limit = NoRow /\ checks = <<>>
     \/ Windowed /\ Distant
  /\ LoginBudget

PortalAccessInv == Clocked /\ IssuedOK /\ SessionInv /\ BudgetInv

------------------------------------------------------------------------------
(* The login budget.                                                       *)

LEMMA BudgetKept ==
  ASSUME BudgetInv, now \in 0..MaxTime, now' \in 0..MaxTime, now' >= now, UNCHANGED <<limit, checks>>
  PROVE  BudgetInv'
<1>1. Timed'
  <2>1. \A i \in DOMAIN checks : checks[i] \in 0..MaxTime /\ checks[i] <= now
    BY ElementOfSeq, LenProperties DEF BudgetInv, Timed
  <2>2. \A i \in DOMAIN checks : checks[i] <= now'
    BY <2>1
  <2> QED BY <2>2 DEF BudgetInv, Timed
<1>2. LoginBudget'
  BY DEF BudgetInv, LoginBudget
<1>3. Windowed /\ Distant => Windowed' /\ Distant'
  BY DEF Windowed, Distant
<1> QED BY <1>1, <1>2, <1>3 DEF BudgetInv

LEMMA Arithmetic ==
  /\ \A n, c \in Nat : c >= 1 /\ c <= n => n - c + 1 \in 1..n
  /\ \A n, c, k, l \in Nat : c <= l /\ k <= n - l => k <= n - c + 1
  /\ \A n, c \in Nat : n + 1 - (c + 1) + 1 = n - c + 1
  /\ \A i, c, l, m \in Nat :
       i >= 1 /\ i + 2 * l = m /\ c <= l => i \in 1..(m - c - l)
OBVIOUS

LEMMA BeginLoginBudget ==
  ASSUME Clocked, BudgetInv, BeginLogin
  PROVE  BudgetInv'
<1> PICK n : n = Len(checks)
  OBVIOUS
<1>1. /\ limit' = Counted /\ checks' = Append(checks, now) /\ now' = now /\ Allowed
      /\ now \in Nat /\ now \in 0..MaxTime
  BY AccessAssumption DEF BeginLogin, Clocked
<1>2. /\ checks \in Seq(0..MaxTime) /\ n \in Nat /\ DOMAIN checks = 1..n
      /\ \A i \in 1..n : checks[i] \in Nat /\ checks[i] <= now
      /\ \A i, j \in 1..n : i <= j => checks[i] <= checks[j]
      /\ limit.count \in Nat /\ limit.expires \in Nat
  <2>1. checks \in Seq(0..MaxTime) /\ n \in Nat /\ DOMAIN checks = 1..n
    BY LenProperties DEF BudgetInv, Timed
  <2>2. \A i \in 1..n : checks[i] \in 0..MaxTime
    BY <2>1, ElementOfSeq
  <2>3. Timed
    BY DEF BudgetInv
  <2>4. \A i \in 1..n : checks[i] \in Nat /\ checks[i] <= now
    BY <2>1, <2>2, <2>3 DEF Timed
  <2> QED BY <2>1, <2>3, <2>4 DEF Timed
<1>3. /\ Len(checks') = n + 1 /\ checks' \in Seq(0..MaxTime) /\ DOMAIN checks' = 1..n + 1
      /\ checks'[n + 1] = now /\ \A i \in 1..n : checks'[i] = checks[i]
  BY <1>1, <1>2, AppendProperties
<1>4. /\ MaxLogins \in Nat /\ MaxLogins >= 1 /\ LoginWindow \in Nat /\ LoginWindow >= 1
  BY AccessAssumption
<1> PICK d : d = checks'
  OBVIOUS
<1> PICK m : m = n + 1
  OBVIOUS
<1>a. /\ Len(d) = m /\ m \in Nat /\ m >= 1 /\ DOMAIN d = 1..m
      /\ d[m] = now /\ \A i \in 1..n : d[i] = checks[i]
  BY <1>2, <1>3
<1> PICK c, e : c = limit'.count /\ e = limit'.expires
  OBVIOUS
<1>b. /\ Windowed' <=> /\ c \in 1..MaxLogins /\ c <= m
                       /\ d[m - c + 1] + LoginWindow = e
      /\ Distant' <=> \A k \in 1..(m - c - MaxLogins) : d[k] + LoginWindow + LoginWindow < e
  BY <1>a DEF Windowed, Distant
<1>c. LoginBudget' <=> \A i \in 1..(m - 2 * MaxLogins) : d[i + 2 * MaxLogins] - d[i] > LoginWindow
  BY <1>a DEF LoginBudget
<1>5. Timed'
  <2>1. limit' \in [count: Nat, expires: Nat]
    <3>1. CASE limit' = [count |-> 1, expires |-> now + LoginWindow]
      BY <1>1, <1>4, <3>1
    <3>2. CASE limit' = [limit EXCEPT !.count = @ + 1]
      BY <3>2 DEF BudgetInv, Timed
    <3> QED BY <1>1, <3>1, <3>2 DEF Counted
  <2>2. \A i \in 1..n + 1 : checks'[i] <= now
    BY <1>1, <1>2, <1>3
  <2>3. \A i, j \in 1..n + 1 : i <= j => checks'[i] <= checks'[j]
    <3> SUFFICES ASSUME NEW i \in 1..n + 1, NEW j \in 1..n + 1, i <= j
                 PROVE  checks'[i] <= checks'[j]
      OBVIOUS
    <3>1. CASE j = n + 1
      BY <1>3, <2>2, <3>1
    <3>2. CASE j \in 1..n
      BY <1>2, <1>3, <3>2
    <3> QED BY <1>2, <3>1, <3>2
  <2> QED BY <1>1, <1>3, <2>1, <2>2, <2>3 DEF Timed
<1>6. limit = NoRow => limit.count = 0 /\ limit.expires = 0 /\ n = 0
  <2>1. ASSUME limit = NoRow PROVE limit.count = 0
    BY <2>1 DEF NoRow
  <2>2. limit = NoRow => ~ Windowed
    BY <2>1 DEF Windowed
  <2>3. limit = NoRow => checks = <<>>
    BY <2>2 DEF BudgetInv
  <2> QED BY <2>3 DEF NoRow
<1>7. ASSUME limit = NoRow \/ limit.expires < now PROVE Windowed' /\ Distant'
  <2>1. limit' = [count |-> 1, expires |-> now + LoginWindow]
    BY <1>1, <1>7 DEF Counted
  <2>2. limit'.count = 1 /\ limit'.expires = now + LoginWindow
    BY <2>1
  <2>3. Windowed'
    <3>1. m - 1 + 1 = m
      BY <1>a
    <3> QED BY <1>1, <1>a, <1>b, <1>4, <2>2, <3>1
  <2>4. ASSUME NEW k \in 1..(m - 1 - MaxLogins)
        PROVE  d[k] + LoginWindow + LoginWindow < now + LoginWindow
    <3>1. k \in 1..n /\ k <= n - MaxLogins
      BY <1>2, <1>4
    <3>2. limit # NoRow
      BY <1>6, <3>1
    <3>3. /\ limit.expires < now /\ limit.count \in 1..MaxLogins /\ limit.count <= n
          /\ checks[n - limit.count + 1] + LoginWindow = limit.expires
      BY <1>7, <3>2 DEF BudgetInv, Windowed
    <3> PICK g : g = limit.count
      OBVIOUS
    <3>g. g \in Nat /\ g >= 1 /\ g <= MaxLogins /\ g <= n /\ k \in Nat /\ n \in Nat
      BY <1>2, <1>4, <3>1, <3>3
    <3>4. n - limit.count + 1 \in 1..n /\ k <= n - limit.count + 1
      BY <1>4, <3>1, <3>g, Arithmetic
    <3>5. checks[k] <= checks[n - limit.count + 1] /\ checks[k] \in Nat
          /\ checks[n - limit.count + 1] \in Nat
      BY <1>2, <3>1, <3>4
    <3>6. d[k] = checks[k]
      BY <1>a, <3>1
    <3>7. d[k] \in Nat /\ d[k] + LoginWindow <= limit.expires /\ limit.expires \in Nat
      BY <1>2, <1>4, <3>3, <3>5, <3>6
    <3> QED BY <1>1, <1>4, <3>3, <3>7
  <2>5. Distant'
    BY <1>b, <2>2, <2>4
  <2> QED BY <2>3, <2>5
<1>8. ASSUME ~ (limit = NoRow \/ limit.expires < now) PROVE Windowed' /\ Distant'
  <2>1. limit' = [limit EXCEPT !.count = @ + 1] /\ limit.count < MaxLogins
    BY <1>1, <1>8 DEF Counted, Allowed
  <2>2. limit'.count = limit.count + 1 /\ limit'.expires = limit.expires
    BY <2>1 DEF BudgetInv, Timed
  <2>3. Windowed /\ Distant
    BY <1>8 DEF BudgetInv
  <2>4. /\ limit.count \in 1..MaxLogins /\ limit.count <= n
        /\ checks[n - limit.count + 1] + LoginWindow = limit.expires
    BY <2>3 DEF Windowed
  <2>5. /\ m - (limit.count + 1) + 1 = n - limit.count + 1 /\ n - limit.count + 1 \in 1..n
        /\ limit.count + 1 \in 1..MaxLogins /\ limit.count + 1 <= m
    <3> PICK g : g = limit.count
      OBVIOUS
    <3>1. g \in Nat /\ g >= 1 /\ g <= n /\ n \in Nat /\ g < MaxLogins
      BY <1>2, <2>1, <2>4
    <3> QED BY <1>4, <1>a, <3>1, Arithmetic
  <2>6. Windowed'
    <3>1. d[n - limit.count + 1] = checks[n - limit.count + 1]
      BY <1>a, <2>5
    <3> QED BY <1>b, <2>2, <2>4, <2>5, <3>1
  <2>7. \A k \in 1..(n - limit.count - MaxLogins) : checks[k] + LoginWindow + LoginWindow < limit.expires
    BY <2>3 DEF Distant
  <2>8. \A k \in 1..(m - (limit.count + 1) - MaxLogins) : k \in 1..(n - limit.count - MaxLogins) /\ k \in 1..n
    BY <1>2, <1>4
  <2>9. Distant'
    <3>1. \A k \in 1..(m - (limit.count + 1) - MaxLogins) : d[k] = checks[k]
      BY <1>a, <2>8
    <3> QED BY <1>b, <2>2, <2>7, <2>8, <3>1
  <2> QED BY <2>6, <2>9
<1>9. LoginBudget'
  <2> SUFFICES ASSUME NEW i \in 1..(m - 2 * MaxLogins)
               PROVE  d[i + 2 * MaxLogins] - d[i] > LoginWindow
    BY <1>c
  <2>1. i \in 1..n /\ i + 2 * MaxLogins \in Nat /\ i + 2 * MaxLogins <= m
    BY <1>2, <1>4, <1>a
  <2>2. CASE i + 2 * MaxLogins <= n
    <3>1. i \in 1..(n - 2 * MaxLogins) /\ i + 2 * MaxLogins \in 1..n
      BY <1>2, <1>4, <2>1, <2>2
    <3>2. checks[i + 2 * MaxLogins] - checks[i] > LoginWindow
      BY <3>1 DEF BudgetInv, LoginBudget
    <3> QED BY <1>a, <2>1, <3>1, <3>2
  <2>3. CASE i + 2 * MaxLogins = m
    <3>1. /\ c \in 1..MaxLogins /\ c <= m /\ d[m - c + 1] + LoginWindow = e
          /\ \A k \in 1..(m - c - MaxLogins) : d[k] + LoginWindow + LoginWindow < e
      BY <1>7, <1>8, <1>b
    <3> PICK b : b = m - c + 1
      OBVIOUS
    <3>2. i \in 1..(m - c - MaxLogins) /\ b \in 1..m
      <4>1. i \in Nat /\ i >= 1 /\ c \in Nat /\ c >= 1 /\ c <= m /\ c <= MaxLogins
        BY <1>2, <1>4, <2>1, <3>1
      <4> QED BY <1>4, <1>a, <2>3, <4>1, Arithmetic
    <3>3. d[i] + LoginWindow + LoginWindow < d[b] + LoginWindow
      BY <3>1, <3>2
    <3>4. i \in 1..m /\ m \in 1..m
      BY <1>a, <2>1, <1>2
    <3>5. d[b] <= d[m]
      <4>1. \A x, y \in DOMAIN d : x <= y => d[x] <= d[y]
        BY <1>5 DEF Timed
      <4>2. b <= m
        BY <1>a, <3>2
      <4> QED BY <1>a, <3>2, <3>4, <4>1, <4>2
    <3>6. d[i] \in 0..MaxTime /\ d[b] \in 0..MaxTime /\ d[m] \in 0..MaxTime
      BY <1>3, <1>a, <3>2, <3>4, ElementOfSeq
    <3>7. d[i] \in Int /\ d[b] \in Int /\ d[m] \in Int
      BY <3>6
    <3>8. d[m] - d[i] > LoginWindow
      BY <1>4, <3>3, <3>5, <3>7
    <3> QED BY <2>3, <3>8
  <2> QED BY <1>2, <1>a, <2>1, <2>2, <2>3
<1> QED BY <1>5, <1>7, <1>8, <1>9 DEF BudgetInv

------------------------------------------------------------------------------
(* The sessions.                                                           *)

LEMMA Finite ==
  ASSUME IssuedOK, Opened
  PROVE  /\ IsFiniteSet(DOMAIN issued) /\ IsFiniteSet(DOMAIN sessions)
         /\ \A t : IsFiniteSet(Later(t))
         /\ Cardinality(DOMAIN issued) \in 0..MaxTokens
         /\ DOMAIN issued = 1..Cardinality(DOMAIN issued)
<1>1. PICK n \in 0..MaxTokens : DOMAIN issued = 1..n
  BY DEF IssuedOK
<1>2. n \in Nat /\ n <= MaxTokens
  BY <1>1, AccessAssumption
<1>3. IsFiniteSet(1..n) /\ Cardinality(1..n) = n
  BY <1>2, FS_Interval
<1>4. \A t : Later(t) \in SUBSET DOMAIN issued
  BY DEF Later
<1> QED BY <1>1, <1>3, <1>4, FS_Subset DEF Opened

\* What is true of the sessions now stays true while time passes.
LEMMA SessionsKept ==
  ASSUME IssuedOK, SessionInv, UNCHANGED <<sessions, issued, era, ended>>,
         now \in Nat, now' \in Nat, now' >= now
  PROVE  IssuedOK' /\ SessionInv'
<1>1. \A t \in DOMAIN issued : issued[t].at \in 0..now' /\ issued[t].at \in Nat
  BY DEF IssuedOK
<1>2. IssuedOK'
  BY <1>1 DEF IssuedOK
<1>3. Opened'
  BY DEF SessionInv, Opened
<1>4. ASSUME NEW t \in DOMAIN issued, Mine(t)' PROVE Mine(t)
  BY <1>1, <1>4, AccessAssumption DEF Mine
<1>5. \A t : Later(t)' = Later(t)
  BY DEF Later
<1> QED BY <1>2, <1>3, <1>4, <1>5 DEF SessionInv, Reachable

LEMMA StartPortalSessions ==
  ASSUME IssuedOK, SessionInv, StartPortal
  PROVE  IssuedOK' /\ SessionInv'
<1>1. UNCHANGED <<now, issued, ended>>
  BY DEF StartPortal
<1>2. CASE verifier = config
  BY <1>2 DEF StartPortal, IssuedOK, SessionInv, Opened, Reachable, Mine, Later
<1>3. CASE verifier # config
  <2>1. sessions' = <<>> /\ era' = era + 1
    BY <1>3 DEF StartPortal, Rotated
  <2>2. DOMAIN sessions' = {}
    BY <2>1
  <2>3. era' \in Nat /\ \A t \in DOMAIN issued : issued[t].era \in 0..era' /\ issued[t].era # era'
    BY <2>1 DEF IssuedOK
  <2>4. IssuedOK'
    BY <1>1, <2>3 DEF IssuedOK
  <2>5. Opened'
    BY <1>1, <2>2, FS_EmptySet, AccessAssumption DEF Opened
  <2>6. Reachable'
    BY <1>1, <2>3 DEF Reachable, Mine
  <2> QED BY <2>4, <2>5, <2>6 DEF SessionInv
<1> QED BY <1>2, <1>3

\* The rows that go were not needed: of a session that is over or logged out.
LEMMA RowsGone ==
  ASSUME IssuedOK, SessionInv, NEW gone \in SUBSET DOMAIN sessions,
         sessions' = Without(gone), UNCHANGED <<now, issued, era>>,
         ended \subseteq ended', ended' \subseteq DOMAIN issued,
         \A t \in DOMAIN sessions \ gone : t \notin ended',
         \A t \in gone : ~ Mine(t)'
  PROVE  IssuedOK' /\ SessionInv'
<1>1. IssuedOK'
  BY DEF IssuedOK
<1>2. /\ DOMAIN sessions' = DOMAIN sessions \ gone
      /\ \A t \in DOMAIN sessions' : sessions'[t] = sessions[t]
  BY DEF Without
<1>3. Opened'
  <2>1. Cardinality(DOMAIN sessions') <= MaxSessions
    <3>1. IsFiniteSet(DOMAIN sessions) /\ Cardinality(DOMAIN sessions) <= MaxSessions
      BY Finite DEF SessionInv, Opened
    <3>2. DOMAIN sessions' \in SUBSET DOMAIN sessions
      BY <1>2
    <3>3. Cardinality(DOMAIN sessions') <= Cardinality(DOMAIN sessions) /\ IsFiniteSet(DOMAIN sessions')
      BY <3>1, <3>2, FS_Subset
    <3>4. Cardinality(DOMAIN sessions') \in Nat /\ Cardinality(DOMAIN sessions) \in Nat
      BY <3>1, <3>3, FS_CardinalityType
    <3> QED BY <3>1, <3>3, <3>4, AccessAssumption
  <2> QED BY <1>2, <2>1 DEF SessionInv, Opened
<1>4. ASSUME NEW t \in DOMAIN issued, Mine(t)' PROVE Mine(t) /\ t \notin gone
  BY <1>4 DEF Mine
<1>5. \A t : Later(t)' = Later(t)
  BY DEF Later
<1> QED BY <1>1, <1>2, <1>3, <1>4, <1>5 DEF SessionInv, Reachable

LEMMA LogoutSessions ==
  ASSUME IssuedOK, SessionInv, NEW token \in Tokens, Logout(token)
  PROVE  IssuedOK' /\ SessionInv'
<1>1. /\ token \in DOMAIN sessions /\ sessions' = Without({token})
      /\ ended' = ended \cup {token} /\ UNCHANGED <<now, issued, era>>
  BY DEF Logout, ValidToken
<1>2. ended' \subseteq DOMAIN issued /\ \A t \in DOMAIN sessions \ {token} : t \notin ended'
  BY <1>1 DEF IssuedOK, SessionInv, Opened
<1>3. ~ Mine(token)'
  BY <1>1 DEF Mine
<1> QED BY <1>1, <1>2, <1>3, RowsGone

LEMMA MaintenanceSessions ==
  ASSUME Clocked, IssuedOK, SessionInv, Maintenance
  PROVE  IssuedOK' /\ SessionInv'
<1>1. sessions' = Without(Expired) /\ UNCHANGED <<now, issued, era, ended>>
  BY DEF Maintenance, history
<1>2. Expired \in SUBSET DOMAIN sessions
  BY DEF Expired
<1>3. ASSUME NEW t \in Expired PROVE ~ Mine(t)'
  <2>1. t \in DOMAIN sessions /\ sessions[t] < now /\ now \in Nat /\ t \in DOMAIN issued
    BY AccessAssumption DEF Expired, Clocked, SessionInv, Opened
  <2>2. sessions[t] = issued[t].at + SessionLife /\ issued[t].at \in Nat
    BY <2>1 DEF SessionInv, Opened, IssuedOK
  <2> QED BY <1>1, <2>1, <2>2, AccessAssumption DEF Mine
<1>4. ended \subseteq DOMAIN issued /\ \A t \in DOMAIN sessions : t \notin ended
  BY DEF IssuedOK, SessionInv, Opened
<1> QED BY <1>1, <1>2, <1>3, <1>4, RowsGone

LEMMA FinishLoginSessions ==
  ASSUME Clocked, IssuedOK, SessionInv, FinishLogin
  PROVE  IssuedOK' /\ SessionInv'
<1> PICK token : token = Cardinality(DOMAIN issued) + 1
  OBVIOUS
<1> PICK live : live = DOMAIN sessions \ Expired
  OBVIOUS
<1>1. /\ token \in Tokens /\ UNCHANGED <<now, era, ended>>
      /\ issued' = [t \in 1..token |->
                      IF t = token THEN [at |-> now, era |-> era] ELSE issued[t]]
  BY DEF FinishLogin
<1>2. PICK kept \in SUBSET live :
        /\ RoomFor(kept) /\ Newest(kept, live)
        /\ sessions' = [t \in kept \cup {token} |->
                          IF t = token THEN now + SessionLife ELSE sessions[t]]
  BY DEF FinishLogin
<1>3. /\ now \in Nat /\ SessionLife \in Nat /\ MaxSessions \in Nat /\ MaxSessions >= 1
      /\ MaxTokens \in Nat /\ token \in Nat /\ token <= MaxTokens /\ token >= 1
  BY <1>1, AccessAssumption DEF Clocked, Tokens
<1>4. /\ DOMAIN issued = 1..(token - 1) /\ token \notin DOMAIN issued
      /\ 1..token = DOMAIN issued \cup {token}
  <2>1. DOMAIN issued = 1..Cardinality(DOMAIN issued) /\ Cardinality(DOMAIN issued) \in Nat
    BY Finite, AccessAssumption DEF SessionInv
  <2> QED BY <1>3, <2>1
<1>5. /\ DOMAIN issued' = DOMAIN issued \cup {token} /\ issued'[token].at = now
      /\ issued'[token].era = era /\ \A t \in DOMAIN issued : issued'[t] = issued[t]
  <2>1. DOMAIN issued' = 1..token /\ issued'[token] = [at |-> now, era |-> era]
    BY <1>1, <1>3
  <2>2. \A t \in 1..token : t # token => issued'[t] = issued[t]
    BY <1>1
  <2>3. \A t \in DOMAIN issued : issued'[t] = issued[t]
    BY <1>4, <2>2
  <2>4. issued'[token].at = now /\ issued'[token].era = era
    BY <2>1
  <2>5. DOMAIN issued' = DOMAIN issued \cup {token}
    BY ONLY <1>4, <2>1
  <2> QED BY <2>3, <2>4, <2>5
<1>6. /\ DOMAIN sessions' = kept \cup {token} /\ sessions'[token] = now + SessionLife
      /\ \A t \in kept : sessions'[t] = sessions[t]
      /\ kept \subseteq DOMAIN sessions /\ kept \subseteq DOMAIN issued /\ token \notin kept
  <2>1. kept \subseteq DOMAIN sessions /\ kept \subseteq DOMAIN issued
    BY DEF SessionInv, Opened
  <2> QED BY <1>2, <1>4, <2>1
<1>7. IssuedOK'
  <2>1. era' \in Nat /\ ended' \subseteq DOMAIN issued'
    BY <1>1, <1>5 DEF IssuedOK
  <2>2. DOMAIN issued' = 1..token /\ token \in 0..MaxTokens
    <3>1. DOMAIN issued' = 1..token
      BY <1>4, <1>5
    <3> QED BY <1>3, <3>1
  <2>3. \A t \in DOMAIN issued' : issued'[t].at \in 0..now /\ issued'[t].era \in 0..era
    BY <1>3, <1>5 DEF IssuedOK
  <2> QED BY <1>1, <2>1, <2>2, <2>3 DEF IssuedOK
<1>8. /\ IsFiniteSet(kept) /\ Cardinality(kept) \in Nat /\ Cardinality(kept) <= MaxSessions - 1
      /\ Cardinality(kept \cup {token}) = Cardinality(kept) + 1
  <2>1. IsFiniteSet(kept)
    BY <1>6, Finite, FS_Subset DEF SessionInv
  <2> QED BY <1>2, <1>6, <2>1, FS_CardinalityType, FS_AddElement DEF RoomFor
<1>9. Opened'
  <2>1. DOMAIN sessions' \subseteq DOMAIN issued' /\ Cardinality(DOMAIN sessions') <= MaxSessions
    BY <1>3, <1>5, <1>6, <1>8
  <2>2. \A t \in kept : sessions'[t] = issued'[t].at + SessionLife /\ issued'[t].era = era' /\ t \notin ended'
    BY <1>1, <1>5, <1>6 DEF SessionInv, Opened
  <2>3. token \notin ended' /\ sessions'[token] = issued'[token].at + SessionLife /\ issued'[token].era = era'
    BY <1>1, <1>4, <1>5, <1>6 DEF IssuedOK
  <2> QED BY <1>6, <2>1, <2>2, <2>3 DEF Opened
<1>10. Reachable'
  <2> SUFFICES ASSUME NEW t \in DOMAIN issued, Mine(t)', Cardinality(Later(t)') < MaxSessions,
                      t \notin kept
               PROVE  FALSE
    BY <1>5, <1>6 DEF Reachable
  <2>1. Mine(t)
    BY <1>1, <1>5 DEF Mine
  <2>2. Later(t) \subseteq Later(t)' /\ Later(t)' \subseteq DOMAIN issued'
    BY <1>1, <1>5 DEF Later
  <2>3. IsFiniteSet(Later(t)')
    <3>1. IsFiniteSet(DOMAIN issued')
      BY <1>5, Finite, FS_AddElement DEF SessionInv
    <3> QED BY <2>2, <3>1, FS_Subset
  <2>4. Cardinality(Later(t)) <= Cardinality(Later(t)') /\ Cardinality(Later(t)) \in Nat
        /\ Cardinality(Later(t)') \in Nat
    BY <2>2, <2>3, FS_Subset, FS_CardinalityType
  <2>5. t \in DOMAIN sessions
    <3>1. Cardinality(Later(t)) < MaxSessions
      BY <1>3, <2>4
    <3> QED BY <2>1, <3>1 DEF SessionInv, Reachable
  <2>6. /\ sessions[t] = issued[t].at + SessionLife /\ issued[t].at \in Nat
        /\ now < sessions[t] /\ t \in live
    BY <1>3, <2>1, <2>5 DEF SessionInv, Opened, IssuedOK, Mine, Expired
  <2>7. Cardinality(kept) = MaxSessions - 1 /\ \A k \in kept : sessions[k] >= sessions[t]
    BY <1>2, <2>6 DEF Newest
  <2>8. \A k \in kept : issued[k].at \in Nat /\ sessions[k] = issued[k].at + SessionLife
                        /\ issued[k].era = era
    BY <1>6 DEF IssuedOK, SessionInv, Opened
  <2>9. \A k \in kept : issued[k].at >= issued[t].at
    BY <1>3, <2>6, <2>7, <2>8
  <2>10. kept \cup {token} \subseteq Later(t)'
    <3>1. kept \subseteq Later(t)
      BY <1>6, <2>8, <2>9 DEF Later
    <3>2. now >= issued[t].at
      BY <1>3 DEF IssuedOK
    <3>3. token \in Later(t)'
      BY <1>1, <1>4, <1>5, <3>2 DEF Later
    <3> QED BY <2>2, <3>1, <3>3
  <2>11. Cardinality(kept \cup {token}) <= Cardinality(Later(t)')
    BY <2>3, <2>10, FS_Subset
  <2> QED BY <1>3, <1>8, <2>4, <2>7, <2>11
<1> QED BY <1>7, <1>9, <1>10 DEF SessionInv

------------------------------------------------------------------------------
(* The invariant, and the theorem.                                         *)

LEMMA AccessInitInv ==
  ASSUME AccessInit
  PROVE  PortalAccessInv
<1>1. Clocked
  <2>1. 0 \in 0..MaxTime
    BY AccessAssumption
  <2> QED BY <2>1 DEF AccessInit, Clocked, NoOne
<1>2. /\ DOMAIN issued = {} /\ DOMAIN sessions = {} /\ era = 0 /\ ended = {} /\ now = 0
      /\ limit = NoRow /\ checks = <<>>
  BY DEF AccessInit
<1>3. IssuedOK
  <2>1. 0 \in 0..MaxTokens /\ {} = 1..0
    BY AccessAssumption
  <2> QED BY <1>2, <2>1 DEF IssuedOK
<1>4. SessionInv
  BY <1>2, FS_EmptySet, AccessAssumption DEF SessionInv, Opened, Reachable
<1>5. BudgetInv
  <2>1. Len(checks) = 0 /\ checks \in Seq(0..MaxTime) /\ DOMAIN checks = {}
    BY <1>2, EmptySeq
  <2>2. Timed
    BY <1>2, <2>1 DEF Timed, NoRow
  <2>3. LoginBudget
    BY <2>1, AccessAssumption DEF LoginBudget
  <2> QED BY <1>2, <2>2, <2>3 DEF BudgetInv
<1> QED BY <1>1, <1>3, <1>4, <1>5 DEF PortalAccessInv

\* A success forgets the attempts.
LEMMA NoChecks ==
  ASSUME limit' = NoRow, checks' = <<>>
  PROVE  BudgetInv'
<1>1. Len(checks') = 0 /\ checks' \in Seq(0..MaxTime) /\ DOMAIN checks' = {}
  BY EmptySeq
<1>2. Timed'
  BY <1>1 DEF Timed, NoRow
<1>3. LoginBudget'
  BY <1>1, AccessAssumption DEF LoginBudget
<1> QED BY <1>2, <1>3 DEF BudgetInv

LEMMA AccessStep ==
  ASSUME PortalAccessInv, [AccessNext]_accessVars
  PROVE  PortalAccessInv'
<1> USE DEF PortalAccessInv
<1>1. now \in Nat /\ now \in 0..MaxTime
  BY AccessAssumption DEF Clocked
<1>2. ASSUME Clocked', now' = now, UNCHANGED <<sessions, issued, era, ended, limit, checks>>
      PROVE  PortalAccessInv'
  BY <1>1, <1>2, SessionsKept, BudgetKept
<1>3. CASE StartPortal
  <2>1. Clocked' /\ UNCHANGED <<now, limit, checks>>
    BY <1>3 DEF StartPortal, Clocked
  <2> QED BY <1>1, <1>3, <2>1, StartPortalSessions, BudgetKept
<1>4. CASE Stop
  <2>1. Clocked' /\ now' = now /\ UNCHANGED <<sessions, issued, era, ended, limit, checks>>
    BY <1>4 DEF Stop, tables, history, Clocked
  <2> QED BY <1>2, <2>1
<1>5. CASE ChangeAccount
  <2>1. Clocked' /\ now' = now /\ UNCHANGED <<sessions, issued, era, ended, limit, checks>>
    BY <1>5 DEF ChangeAccount, tables, history, Clocked
  <2> QED BY <1>2, <2>1
<1>6. CASE ClockTick
  <2>1. /\ UNCHANGED <<sessions, issued, era, ended, limit, checks>> /\ now' \in 0..MaxTime
        /\ now' \in Nat /\ now' >= now
    BY <1>1, <1>6, AccessAssumption DEF ClockTick, tables, history
  <2>2. Clocked'
    BY <1>6, <2>1 DEF ClockTick, tables, Clocked
  <2> QED BY <1>1, <2>1, <2>2, SessionsKept, BudgetKept
<1>7. CASE Maintenance
  <2>1. Clocked' /\ UNCHANGED <<now, limit, checks>>
    BY <1>7 DEF Maintenance, history, Clocked
  <2> QED BY <1>1, <1>7, <2>1, MaintenanceSessions, BudgetKept
<1>8. CASE BeginLogin
  <2>1. Clocked' /\ UNCHANGED <<now, sessions, issued, era, ended>>
    BY <1>8 DEF BeginLogin, Clocked
  <2> QED BY <1>1, <1>8, <2>1, SessionsKept, BeginLoginBudget
<1>9. CASE RefuseLogin
  <2>1. Clocked' /\ now' = now /\ UNCHANGED <<sessions, issued, era, ended, limit, checks>>
    BY <1>9 DEF RefuseLogin, tables, history, Clocked
  <2> QED BY <1>2, <2>1
<1>10. CASE FinishLogin
  <2>1. Clocked' /\ limit' = NoRow /\ checks' = <<>>
    BY <1>10 DEF FinishLogin, Clocked
  <2> QED BY <1>10, <2>1, FinishLoginSessions, NoChecks
<1>11. ASSUME NEW token \in Tokens, Logout(token) PROVE PortalAccessInv'
  <2>1. Clocked' /\ UNCHANGED <<now, limit, checks>>
    BY <1>11 DEF Logout, Clocked
  <2> QED BY <1>1, <1>11, <2>1, LogoutSessions, BudgetKept
<1>12. CASE UNCHANGED accessVars
  <2>1. Clocked' /\ now' = now /\ UNCHANGED <<sessions, issued, era, ended, limit, checks>>
    BY <1>12 DEF accessVars, history, Clocked
  <2> QED BY <1>2, <2>1
<1> QED BY <1>3, <1>4, <1>5, <1>6, <1>7, <1>8, <1>9, <1>10, <1>11, <1>12 DEF AccessNext

LEMMA AccessFollows ==
  ASSUME PortalAccessInv
  PROVE  AccessInv
<1> USE DEF PortalAccessInv
<1>1. /\ now \in Nat /\ now <= MaxTime /\ MaxTime \in Nat /\ SessionLife \in Nat
      /\ LoginWindow \in Nat /\ MaxLogins \in Nat /\ MaxTokens \in Nat
  BY AccessAssumption DEF Clocked
<1>2. DOMAIN sessions \subseteq Tokens
  BY <1>1 DEF SessionInv, Opened, IssuedOK, Tokens
<1>3. \A t \in DOMAIN sessions : sessions[t] \in 0..(MaxTime + SessionLife)
  <2> SUFFICES ASSUME NEW t \in DOMAIN sessions PROVE sessions[t] \in 0..(MaxTime + SessionLife)
    OBVIOUS
  <2>1. sessions[t] = issued[t].at + SessionLife /\ issued[t].at \in 0..now
    BY DEF SessionInv, Opened, IssuedOK
  <2> QED BY <1>1, <2>1
<1>4. limit.count \in 0..MaxLogins /\ limit.expires \in 0..(MaxTime + LoginWindow)
  <2>1. CASE limit = NoRow
    BY <1>1, <2>1 DEF NoRow
  <2>2. CASE Windowed
    <3> PICK n, c : n = Len(checks) /\ c = limit.count
      OBVIOUS
    <3>1. n \in Nat /\ checks \in Seq(0..MaxTime) /\ c \in Nat /\ c >= 1 /\ c <= n /\ c <= MaxLogins
          /\ checks[n - c + 1] + LoginWindow = limit.expires
      BY <1>1, <2>2, LenProperties DEF BudgetInv, Timed, Windowed
    <3>2. checks[n - c + 1] \in 0..MaxTime
      BY <3>1, Arithmetic, ElementOfSeq
    <3>3. limit.expires \in 0..(MaxTime + LoginWindow)
      <4> PICK x : x = checks[n - c + 1]
        OBVIOUS
      <4>1. x \in Nat /\ x <= MaxTime /\ x + LoginWindow = limit.expires
        BY <1>1, <3>1, <3>2
      <4> QED BY <1>1, <4>1
    <3> QED BY <1>1, <3>1, <3>3
  <2> QED BY <2>1, <2>2 DEF BudgetInv
<1>5. AccessTypeOK
  BY <1>2, <1>3, <1>4 DEF AccessTypeOK, Clocked, SessionInv, Opened
<1>6. SessionsExact
  <2> SUFFICES ASSUME NEW t \in DOMAIN issued
               PROVE  /\ ValidToken(t) => Mine(t)
                      /\ Mine(t) /\ Cardinality(Later(t)) < MaxSessions => ValidToken(t)
    BY DEF SessionsExact, Mine, Later
  <2>1. t \in DOMAIN sessions =>
          sessions[t] = issued[t].at + SessionLife /\ issued[t].era = era /\ t \notin ended
    BY DEF SessionInv, Opened
  <2> QED BY <2>1 DEF ValidToken, Mine, SessionInv, Reachable
<1> QED BY <1>5, <1>6 DEF AccessInv, BudgetInv

\* Whatever is logged in and out, expires, is pushed out, restarted or put
\* under another password: a session is good exactly while it should be, and
\* the passwords tried in one window's time are bounded (app.ts:21-34, 65-96).
THEOREM AccessRight == AccessSpec => []AccessInv
<1>1. AccessInit => PortalAccessInv
  BY AccessInitInv
<1>2. PortalAccessInv /\ [AccessNext]_accessVars => PortalAccessInv'
  BY AccessStep
<1>3. PortalAccessInv => AccessInv
  BY AccessFollows
<1> QED BY <1>1, <1>2, <1>3, PTL DEF AccessSpec

------------------------------------------------------------------------------
(* The accounts of the server.  Whatever is still to be inserted is not    *)
(* there, and no two seedings are for the same name.                       *)

Envs == [adminUsername: AdminNames, password: [Seeds -> Passwords \cup {NoUser}]]

AccountsInv ==
  /\ users \in [UserNames -> Accs \cup {NoUser}] /\ env \in Envs
  /\ seed \in [Seeds -> {"none", "hashing", "done"}]
  /\ listening \in BOOLEAN /\ starts \in 0..MaxStarts
  /\ Administrators \subseteq AdminNames /\ \A n, m \in Administrators : n = m
  /\ seed["admin"] = "hashing" => \A n \in AdminNames : users[n] = NoUser
  /\ \A s \in Seeds : seed[s] = "hashing" =>
       env.password[s] \in Passwords /\ users[NameOf(s, env)] = NoUser
  /\ seed["upload"] = "done" /\ env.password["upload"] # NoUser => users[upload] # NoUser
  /\ listening => seed["upload"] = "done"

LEMMA SeedNames ==
  ASSUME NEW e \in Envs
  PROVE  /\ NameOf("admin", e) = e.adminUsername /\ NameOf("php", e) = php
         /\ NameOf("upload", e) = upload
         /\ \A s \in Seeds : NameOf(s, e) \in UserNames
         /\ \A s \in Seeds \ {"admin"} : NameOf(s, e) \notin AdminNames
         /\ \A s, t \in Seeds : NameOf(s, e) = NameOf(t, e) => s = t
<1>1. /\ NameOf("admin", e) = e.adminUsername /\ NameOf("php", e) = php
      /\ NameOf("upload", e) = upload /\ e.adminUsername \in AdminNames
  BY DEF NameOf, Envs
<1> QED BY <1>1, AccountsAssumption DEF Seeds

LEMMA AccountsFollow ==
  ASSUME AccountsInv
  PROVE  AccountsTypeOK /\ PortalServed
<1>1. Cardinality(Administrators) <= 1
  <2>1. CASE Administrators = {}
    BY <2>1, FS_EmptySet
  <2>2. ASSUME NEW n \in Administrators PROVE Cardinality(Administrators) <= 1
    <3>1. Administrators = {n}
      BY DEF AccountsInv
    <3>2. Cardinality(Administrators) = 1
      BY <3>1, FS_Singleton
    <3> QED BY <3>2
  <2> QED BY <2>1, <2>2
<1> QED BY <1>1 DEF AccountsInv, AccountsTypeOK, PortalServed

LEMMA SeededOnce ==
  ASSUME AccountsInv, NEW s \in Seeds, HashReady(s)
  PROVE  AccountsInv' /\ \A n \in UserNames : users[n] # NoUser => users'[n] = users[n]
<1> PICK name, acc : name = NameOf(s, env) /\ acc = Inserted(s)
  OBVIOUS
<1>1. /\ seed[s] = "hashing" /\ users' = [users EXCEPT ![name] = acc]
      /\ seed' = [seed EXCEPT ![s] = "done"]
      /\ UNCHANGED <<env, listening, starts>>
  BY DEF HashReady
<1>2. /\ users[name] = NoUser /\ name \in UserNames
      /\ s # "admin" => name \notin AdminNames
      /\ s = "admin" => name \in AdminNames
      /\ \A t \in Seeds : NameOf(t, env) = name => t = s
  BY <1>1, SeedNames DEF AccountsInv, Envs
<1>3. acc \in Accs /\ acc # NoUser /\ acc.is_admin = (s = "admin")
  <2>1. env.password[s] \in Passwords
    BY <1>1 DEF AccountsInv
  <2> PICK admin : admin = (s = "admin") /\ admin \in BOOLEAN
    OBVIOUS
  <2>2. acc = [is_admin |-> admin, password |-> env.password[s]]
    BY DEF Inserted
  <2>3. acc \in Accs /\ acc.is_admin = admin
    BY <2>1, <2>2 DEF Accs
  <2> QED BY <2>3, AccountsAssumption DEF Accs
<1>4. /\ users' \in [UserNames -> Accs \cup {NoUser}] /\ users'[name] = acc
      /\ \A n \in UserNames \ {name} : users'[n] = users[n]
  BY <1>1, <1>2, <1>3 DEF AccountsInv
<1>5. /\ seed' \in [Seeds -> {"none", "hashing", "done"}] /\ seed'[s] = "done"
      /\ \A t \in Seeds \ {s} : seed'[t] = seed[t]
  BY <1>1 DEF AccountsInv
<1>6. Administrators' \subseteq AdminNames /\ \A n, m \in Administrators' : n = m
  <2>1. CASE s = "admin"
    <3>1. \A n \in AdminNames : users[n] = NoUser
      BY <1>1, <2>1 DEF AccountsInv
    <3>2. Administrators = {}
      BY <3>1 DEF AccountsInv, Administrators
    <3>3. Administrators' \subseteq {name}
      BY <1>4, <3>2 DEF Administrators
    <3> QED BY <1>2, <2>1, <3>3
  <2>2. CASE s # "admin"
    <3>1. Administrators' \subseteq Administrators
      BY <1>3, <1>4, <2>2 DEF Administrators
    <3> QED BY <3>1 DEF AccountsInv
  <2> QED BY <2>1, <2>2
<1>7. seed'["admin"] = "hashing" => \A n \in AdminNames : users'[n] = NoUser
  <2>1. seed'["admin"] = "hashing" => s # "admin" /\ seed["admin"] = "hashing"
    BY <1>5 DEF Seeds
  <2> QED BY <1>2, <1>4, <2>1, AccountsAssumption DEF AccountsInv
<1>8. \A t \in Seeds : seed'[t] = "hashing" =>
        env'.password[t] \in Passwords /\ users'[NameOf(t, env')] = NoUser
  <2> SUFFICES ASSUME NEW t \in Seeds, seed'[t] = "hashing"
               PROVE  env.password[t] \in Passwords /\ users'[NameOf(t, env)] = NoUser
    BY <1>1
  <2>1. t # s /\ seed[t] = "hashing"
    BY <1>5
  <2>2. NameOf(t, env) \in UserNames \ {name}
    BY <1>2, <2>1, SeedNames DEF AccountsInv
  <2> QED BY <1>4, <2>1, <2>2 DEF AccountsInv
<1>9. seed'["upload"] = "done" /\ env'.password["upload"] # NoUser => users'[upload] # NoUser
  <2>1. CASE s = "upload"
    BY <1>3, <1>4, <2>1, SeedNames DEF AccountsInv
  <2>2. CASE s # "upload"
    <3>1. seed'["upload"] = seed["upload"]
      BY <1>5, <2>2 DEF Seeds
    <3>2. upload \in UserNames
      BY AccountsAssumption
    <3> QED BY <1>1, <1>2, <1>4, <3>1, <3>2 DEF AccountsInv
  <2> QED BY <2>1, <2>2
<1>10. listening' => seed'["upload"] = "done"
  BY <1>1, <1>5 DEF AccountsInv, Seeds
<1>11. env' \in Envs /\ listening' \in BOOLEAN /\ starts' \in 0..MaxStarts
  BY <1>1 DEF AccountsInv
<1>12. AccountsInv'
  BY <1>4, <1>5, <1>6, <1>7, <1>8, <1>9, <1>10, <1>11 DEF AccountsInv
<1> QED BY <1>2, <1>4, <1>12

LEMMA AccountsStep ==
  ASSUME AccountsInv, [AccountsNext]_accountsVars
  PROVE  AccountsInv' /\ \A n \in UserNames : users[n] # NoUser => users'[n] = users[n]
<1>1. ASSUME NEW e \in Envs, StartServer(e) PROVE AccountsInv' /\ users' = users
  <2>1. /\ users' = users /\ env' = e /\ listening' = FALSE /\ starts' = starts + 1
        /\ starts < MaxStarts
        /\ seed' = [s \in Seeds |->
             IF e.password[s] # NoUser /\ NotSeeded(s, NameOf(s, e)) THEN "hashing" ELSE "done"]
    BY <1>1 DEF StartServer
  <2>2. starts' \in 0..MaxStarts
    BY <2>1, AccountsAssumption DEF AccountsInv
  <2>3. \A s \in Seeds : seed'[s] = "hashing" =>
          e.password[s] \in Passwords /\ NotSeeded(s, NameOf(s, e))
    BY <2>1 DEF Envs
  <2>4. seed'["admin"] = "hashing" => \A n \in AdminNames : users[n] = NoUser
    BY <2>3, AccountsAssumption DEF Seeds, NotSeeded
  <2>5. \A s \in Seeds : seed'[s] = "hashing" => users[NameOf(s, e)] = NoUser
    BY <2>3, SeedNames DEF NotSeeded
  <2>6. seed'["upload"] = "done" /\ e.password["upload"] # NoUser => users[upload] # NoUser
    <3>1. NameOf("upload", e) = upload /\ "upload" \in Seeds
      BY SeedNames DEF Seeds
    <3>2. NotSeeded("upload", upload) <=> users[upload] = NoUser
      BY DEF NotSeeded
    <3> QED BY <2>1, <3>1, <3>2
  <2>7. Administrators' = Administrators /\ seed' \in [Seeds -> {"none", "hashing", "done"}]
    BY <2>1 DEF Administrators
  <2> QED BY <2>1, <2>2, <2>3, <2>4, <2>5, <2>6, <2>7 DEF AccountsInv
<1>2. ASSUME NEW s \in Seeds, HashReady(s)
      PROVE  AccountsInv' /\ \A n \in UserNames : users[n] # NoUser => users'[n] = users[n]
  BY <1>2, SeededOnce
<1>3. CASE Listen
  <2>1. users' = users /\ env' = env /\ seed' = seed /\ starts' = starts /\ listening' = TRUE
        /\ seed["upload"] = "done"
    BY <1>3 DEF Listen, Awaited
  <2> QED BY <2>1 DEF AccountsInv, Administrators
<1>4. CASE UNCHANGED accountsVars
  BY <1>4 DEF accountsVars, AccountsInv, Administrators
<1> QED BY <1>1, <1>2, <1>3, <1>4 DEF AccountsNext, Envs

\* However often the server is started, with whatever environment, and wherever it is cut off:
\* there is at most one administrator, no account is ever changed or lost, and once it listens
\* the portal has its account.
THEOREM AccountsSeeded == AccountsSpec => AccountsSafe
<1>1. AccountsInit => AccountsInv
  <2> SUFFICES ASSUME AccountsInit PROVE AccountsInv
    OBVIOUS
  <2>1. Administrators = {}
    BY DEF AccountsInit, Administrators
  <2>2. env \in Envs /\ env.password["upload"] = NoUser /\ starts \in 0..MaxStarts
    BY AccountsAssumption DEF AccountsInit, Envs, Seeds
  <2> QED BY <2>1, <2>2 DEF AccountsInit, AccountsInv, Seeds
<1>2. AccountsInv /\ [AccountsNext]_accountsVars => AccountsInv'
  BY AccountsStep
<1>3. AccountsInv /\ [AccountsNext]_accountsVars
        => [\A n \in UserNames : users[n] # NoUser => users'[n] = users[n]]_accountsVars
  BY AccountsStep
<1>4. AccountsInv => AccountsTypeOK /\ PortalServed
  BY AccountsFollow
<1> QED BY <1>1, <1>2, <1>3, <1>4, PTL DEF AccountsSpec, AccountsSafe, AccountsKept


------------------------------------------------------------------------------
(* The request of a job.  What is stored of a field is in its one form,    *)
(* null, or a path of the server's.                                        *)

Sent(request) ==
  /\ request.kind \in Kinds /\ request.blanks \in BOOLEAN
  /\ request.input \in {Null, Invalid} \cup [InputFields(request.kind) -> Values]
  /\ request.rest \in [RowFields -> Values]

\* The row is what became of the request, and only what was accepted is judged.
RowInv ==
  /\ verdict \in {Nothing, "runs", "fails"}
  /\ jobRow # Nothing => Sent(sent) /\ IsValid(sent) /\ jobRow = validateJobInput(sent)
  /\ verdict = "fails" /\ jobRow # Nothing /\ jobRow.input \notin {Null, Invalid} =>
       \E f \in DOMAIN jobRow.input : ~ AgentTakes(f, jobRow.input[f])

LEMMA NormalForms ==
  ASSUME NEW f, NEW v \in Values
  PROVE  /\ normal(f, v) \in {Good, Null, Elsewhere, Invalid}
         /\ normal(f, v) = Null => f \in (Nullable \cup Provenance) \ {"priority"}
         /\ normal(f, v) = Elsewhere => f \in Paths
<1>1. CASE v = Good \/ Filled(f, v) \/ (v = Loose /\ f \in Converted)
  <2>1. ~ (IsAbsent(v) /\ f \in Nullable \cup Provenance) /\ ~ (v = Empty /\ f \in Provenance)
        /\ ~ (v = Elsewhere /\ f \in Paths)
    BY <1>1, InputAssumption DEF Filled, IsAbsent, Nullable, Provenance
  <2>2. normal(f, v) = Good
    BY <1>1, <2>1 DEF normal, Stored
  <2> QED BY <2>2, InputAssumption
<1>2. CASE ~ (v = Good \/ Filled(f, v) \/ (v = Loose /\ f \in Converted))
  <2>1. CASE IsAbsent(v) /\ f \in Nullable \cup Provenance
    <3>1. ~ (v = Empty /\ f \in Provenance) /\ ~ (v = Elsewhere /\ f \in Paths) /\ f # "priority"
      BY <2>1, InputAssumption DEF IsAbsent, Nullable, Provenance
    <3>2. normal(f, v) = Null
      BY <1>2, <2>1, <3>1 DEF normal
    <3> QED BY <2>1, <3>1, <3>2, InputAssumption
  <2>2. CASE v = Empty /\ f \in Provenance
    <3>1. ~ IsAbsent(v) /\ ~ (v = Elsewhere /\ f \in Paths) /\ f # "priority"
      BY <2>2, InputAssumption DEF IsAbsent, Provenance
    <3>2. normal(f, v) = Null
      BY <1>2, <2>2, <3>1 DEF normal
    <3> QED BY <2>2, <3>1, <3>2, InputAssumption
  <2>3. CASE v = Elsewhere /\ f \in Paths
    <3>1. ~ IsAbsent(v) /\ v # Empty
      BY <2>3, InputAssumption DEF IsAbsent
    <3>2. normal(f, v) = Elsewhere
      BY <1>2, <2>3, <3>1 DEF normal
    <3> QED BY <2>3, <3>2, InputAssumption
  <2>4. CASE /\ ~ (IsAbsent(v) /\ f \in Nullable \cup Provenance)
             /\ ~ (v = Empty /\ f \in Provenance) /\ ~ (v = Elsewhere /\ f \in Paths)
    <3>1. normal(f, v) = Invalid
      BY <1>2, <2>4 DEF normal
    <3> QED BY <3>1, InputAssumption
  <2> QED BY <2>1, <2>2, <2>3, <2>4
<1> QED BY <1>1, <1>2

\* What is stored of an object has the object's fields.
LEMMA FieldsKept ==
  ASSUME NEW S, NEW fields \in [S -> Values]
  PROVE  Normalized(fields) \in [S -> Values]
<1>1. \A f \in S : normal(f, fields[f]) \in Values
  BY NormalForms DEF Values
<1> QED BY <1>1 DEF Normalized

LEMMA Objectives ==
  ASSUME NEW S, NEW fields \in Objects(S)
  PROVE  fields \in [S -> Values]
<1>1. PICK f \in S, g \in S, v \in Values, w \in Values :
        fields = [Ordinary(S) EXCEPT ![f] = v, ![g] = w]
  BY DEF Objects
<1>2. Ordinary(S) \in [S -> Values]
  BY DEF Ordinary, Values
<1> QED BY <1>1, <1>2

LEMMA RequestsSent ==
  ASSUME NEW request \in Requests
  PROVE  Sent(request)
<1>1. Ordinary(RowFields) \in [RowFields -> Values]
  BY DEF Ordinary, Values
<1>2. ASSUME NEW k \in Kinds, request \in [kind : {k}, blanks : BOOLEAN, input : Inputs(k),
                                           rest : {Ordinary(RowFields)}]
      PROVE  Sent(request)
  <2>1. request.kind = k /\ request.blanks \in BOOLEAN /\ request.input \in Inputs(k)
        /\ request.rest = Ordinary(RowFields)
    BY <1>2
  <2>2. request.input \in {Null, Invalid} \cup [InputFields(k) -> Values]
    BY <2>1, Objectives DEF Inputs
  <2> QED BY <1>1, <2>1, <2>2 DEF Sent
<1>3. ASSUME request \in [kind : Kinds, blanks : BOOLEAN, input : {Null}, rest : Objects(RowFields)]
      PROVE  Sent(request)
  <2>1. request.kind \in Kinds /\ request.blanks \in BOOLEAN /\ request.input = Null
        /\ request.rest \in Objects(RowFields)
    BY <1>3
  <2> QED BY <2>1, Objectives DEF Sent
<1> DEFINE T == [kind : Kinds, blanks : BOOLEAN, input : {Null}, rest : Objects(RowFields)]
           S(k) == [kind : {k}, blanks : BOOLEAN, input : Inputs(k), rest : {Ordinary(RowFields)}]
<1>4. request \in (UNION {S(k) : k \in Kinds}) \cup T
  BY Zenon DEF Requests
<1> HIDE DEF S, T
<1>5. ASSUME request \notin T PROVE \E k \in Kinds : request \in S(k)
  <2>1. PICK C : C = {S(k) : k \in Kinds}
    OBVIOUS
  <2>2. request \in (UNION C) \cup T
    BY <1>4, <2>1, Zenon
  <2>3. PICK set \in C : request \in set
    BY ONLY <1>5, <2>2
  <2>4. PICK k \in Kinds : set = S(k)
    BY ONLY <2>1, <2>3, Zenon
  <2> QED BY <2>3, <2>4
<1> QED BY <1>2, <1>3, <1>5 DEF S, T

LEMMA RowFollows ==
  ASSUME RowInv
  PROVE  InputTypeOK /\ RulesAgree
<1>1. InputTypeOK
  <2> SUFFICES ASSUME jobRow # Nothing
               PROVE  /\ jobRow.kind \in Kinds
                      /\ \A f \in RowFields :
                           jobRow.rest[f] \in (IF f = "priority" THEN {Good} ELSE {Good, Null})
    BY DEF RowInv, InputTypeOK
  <2>1. Sent(sent) /\ Accepted(sent.rest) /\ jobRow.kind = sent.kind
        /\ jobRow.rest = Normalized(sent.rest)
    BY DEF RowInv, IsValid, validateJobInput
  <2>2. ASSUME NEW f \in RowFields
        PROVE  jobRow.rest[f] \in (IF f = "priority" THEN {Good} ELSE {Good, Null})
    <3>1. /\ jobRow.rest[f] = normal(f, sent.rest[f]) /\ sent.rest[f] \in Values
          /\ normal(f, sent.rest[f]) # Invalid
      BY <2>1 DEF Sent, Normalized, Accepted
    <3>2. f \notin Paths
      BY DEF RowFields, Paths, Provenance
    <3> QED BY <3>1, <3>2, NormalForms
  <2> QED BY <2>1, <2>2 DEF Sent
<1>2. RulesAgree
  <2> SUFFICES ASSUME jobRow # Nothing, Checked(sent), verdict = "fails"
               PROVE  \E p \in Paths : jobRow.input[p] = Elsewhere
    BY DEF RulesAgree
  <2> PICK k : k = sent.kind
    OBVIOUS
  <2>1. /\ sent.input \in [InputFields(k) -> Values] /\ Accepted(sent.input)
        /\ jobRow.input = Normalized(sent.input) /\ k \in {"ffmpeg", "topaz"}
    BY DEF RowInv, Sent, Checked, KnownAs, IsValid, validateInput, validateJobInput
  <2>2. jobRow.input \in [InputFields(k) -> Values] /\ jobRow.input \notin {Null, Invalid}
    BY <2>1, FieldsKept, InputAssumption DEF Kinds
  <2>3. PICK f \in InputFields(k) : ~ AgentTakes(f, jobRow.input[f])
    BY <2>2 DEF RowInv
  <2>4. /\ jobRow.input[f] = normal(f, sent.input[f]) /\ sent.input[f] \in Values
        /\ normal(f, sent.input[f]) # Invalid
    BY <2>1, <2>3 DEF Normalized, Accepted
  <2>5. jobRow.input[f] # Null
    <3>1. jobRow.input[f] = Null => f \in {"quality", "bitrate", "resolution", "projectId"}
      BY <2>3, <2>4, NormalForms DEF Nullable, Provenance, InputFields, Paths, Encoding
    <3> QED BY <2>3, <3>1 DEF AgentTakes
  <2>6. jobRow.input[f] = Elsewhere /\ f \in Paths
    BY <2>3, <2>4, <2>5, NormalForms DEF AgentTakes
  <2> QED BY <2>6
<1> QED BY <1>1, <1>2

\* Whatever the request, as far as its values are told apart: the row is well formed, and the
\* Agent fails a checked input only for a path outside its own roots.
THEOREM InputsRight == InputSpec => []InputsAgree
<1>1. InputInit => RowInv
  BY InputAssumption DEF InputInit, RowInv
<1>2. ASSUME RowInv, [InputNext]_inputVars PROVE RowInv'
  <2>1. CASE Create
    <3>1. PICK request \in Requests :
            /\ sent' = request /\ verdict' = Nothing
            /\ jobRow' = IF IsValid(request) THEN validateJobInput(request) ELSE Nothing
      BY <2>1 DEF Create
    <3>2. Sent(request) /\ verdict' # "fails"
      BY <3>1, RequestsSent, InputAssumption
    <3> QED BY <3>1, <3>2 DEF RowInv
  <2>2. CASE Judge
    BY <1>2, <2>2 DEF Judge, RowInv
  <2>3. CASE UNCHANGED inputVars
    BY <1>2, <2>3 DEF inputVars, RowInv
  <2> QED BY <1>2, <2>1, <2>2, <2>3 DEF InputNext
<1>3. RowInv => InputsAgree
  BY RowFollows DEF InputsAgree
<1> QED BY <1>1, <1>2, <1>3, PTL DEF InputSpec


------------------------------------------------------------------------------
(* Proofs about AllowedPaths, for paths and roots of any length.            *)
(*                                                                          *)
(* Both sides compare spellings, one character after the other; what a path *)
(* means is the walk along its names.  The names that the first n           *)
(* characters write, and where the first n names lead to, are computed step *)
(* by step, so that each fact is shown by induction along the path: two     *)
(* spellings that agree up to n have written the same names, what stands    *)
(* before a separator is never touched again, and a name that goes on only  *)
(* grows.  From there a root that stands before a path as it is spelled     *)
(* stands before it as it is walked, unless two dots lead back, and the     *)
(* other way round for plain paths.                                         *)

(* A set of numbers has a least one.                                       *)
LEMMA Least ==
  ASSUME NEW T, T \subseteq Nat, T # {}
  PROVE  \E m \in T : \A n \in T : m <= n
<1> DEFINE R == {ss \in Nat \X Nat : ss[1] < ss[2]}
<1>1. IsWellFoundedOn(R, Nat)
  BY NatLessThanWellFounded DEF OpToRel
<1>2. PICK m \in T : \A n \in T : ~ (<<n, m>> \in R)
  BY <1>1, WFMin
<1>3. ASSUME NEW n \in T PROVE m <= n
  <2>1. n \in Nat /\ m \in Nat
    OBVIOUS
  <2>2. n < m => <<n, m>> \in R
    BY <2>1
  <2> HIDE DEF R
  <2>3. ~ (n < m)
    BY <2>2, <1>2
  <2> QED
    BY <2>1, <2>3
<1> QED
  BY <1>3

(* Induction over a range, with the set of the numbers for which it holds. *)
LEMMA Ascent ==
  ASSUME NEW a \in Nat, NEW b \in Nat, NEW T,
         a \in T, \A n \in a + 1 .. b : n - 1 \in T => n \in T
  PROVE  a..b \subseteq T
<1> DEFINE Wrong == {n \in a..b : n \notin T}
<1>1. SUFFICES ASSUME Wrong # {} PROVE FALSE
  OBVIOUS
<1>2. Wrong \subseteq Nat
  OBVIOUS
<1>3. PICK m \in Wrong : \A n \in Wrong : m <= n
  BY <1>1, <1>2, Least
<1>4. m \in a..b /\ m \notin T /\ m # a
  OBVIOUS
<1>5. m \in a + 1 .. b /\ m - 1 \in a..b /\ ~ (m <= m - 1)
  BY <1>4
<1>6. m - 1 \notin Wrong
  BY <1>3, <1>5
<1>7. m - 1 \in T
  BY <1>5, <1>6
<1> QED
  BY <1>4, <1>5, <1>7

(* What a recursive definition along a range computes exists.              *)
Computed(V, base, L, step) ==
  \E g \in [0..L -> V] : g[0] = base /\ \A n \in 1..L : g[n] = step[<<g[n - 1], n>>]

LEMMA Recursion ==
  ASSUME NEW V, NEW base \in V, NEW L \in Nat, NEW step \in [V \X (1..L) -> V]
  PROVE  Computed(V, base, L, step)
<1> DEFINE Run(g, k) == g[0] = base /\ \A n \in 1..k : g[n] = step[<<g[n - 1], n>>]
           T == {k \in 0..L : \E g \in [0..k -> V] : Run(g, k)}
<1>1. 0 \in T
  <2>1. [n \in 0..0 |-> base] \in [0..0 -> V] /\ Run([n \in 0..0 |-> base], 0)
    OBVIOUS
  <2>2. \E g \in [0..0 -> V] : Run(g, 0)
    <3> HIDE DEF Run
    <3> QED
      BY <2>1
  <2> QED
    BY <2>2
<1>2. ASSUME NEW k \in 0 + 1 .. L, k - 1 \in T PROVE k \in T
  <2>1. PICK g \in [0..k - 1 -> V] : Run(g, k - 1)
    BY <1>2
  <2> DEFINE h == [n \in 0..k |-> IF n = k THEN step[<<g[k - 1], k>>] ELSE g[n]]
  <2>2. k \in 1..L /\ k \in Nat /\ k - 1 \in 0..k - 1 /\ g[k - 1] \in V
    OBVIOUS
  <2>3. step[<<g[k - 1], k>>] \in V
    BY <2>2
  <2>4. h \in [0..k -> V]
    BY <2>2, <2>3
  <2>5. h[0] = base
    BY <2>1, <2>2
  <2>6. ASSUME NEW n \in 1..k PROVE h[n] = step[<<h[n - 1], n>>]
    <3>1. h[n - 1] = g[n - 1]
      BY <2>2
    <3>2. CASE n = k
      BY <3>1, <3>2, <2>2
    <3>3. CASE n # k
      BY <3>1, <3>3, <2>1, <2>2
    <3> QED
      BY <3>2, <3>3
  <2>7. Run(h, k)
    BY <2>5, <2>6
  <2>8. \E f \in [0..k -> V] : Run(f, k)
    <3> HIDE DEF Run, h
    <3> QED
      BY <2>4, <2>7
  <2> QED
    BY <2>2, <2>8
<1>3. 0..L \subseteq T
  <2> HIDE DEF T
  <2> QED
    BY <1>1, <1>2, Ascent
<1>4. L \in T
  <2> HIDE DEF T
  <2> QED
    BY <1>3
<1>5. \E g \in [0..L -> V] : Run(g, L)
  <2> HIDE DEF Run
  <2> QED
    BY <1>4
<1> QED
  BY <1>5 DEF Computed

-------------------------------------------------------------------------------
\* The names after the n-th character, from those before it.
Written(s, names, n) ==
  IF s[n] \in Separators THEN names
  ELSE IF n = 1 \/ s[n - 1] \in Separators
       THEN Append(names, <<Folded(s[n])>>)
       ELSE [names EXCEPT ![Len(names)] = Append(@, Folded(s[n]))]

\* Lists of names.
Spelled == Seq(Seq(Chars))

(* A folded character is a separator, or a dot, where the character was.     *)
LEMMA FoldedChar == \A c \in Chars : /\ Folded(c) \in Chars
                                     /\ Folded(c) = "\\" <=> c \in Separators
                                     /\ Folded(c) = "." <=> c = "."
  BY DEF Chars, Separators, Folded

(* One more character turns a list of names into a list of names.            *)
LEMMA WrittenType ==
  ASSUME NEW s \in Seq(Chars), NEW n \in 1..Len(s), NEW names \in Spelled
  PROVE  Written(s, names, n) \in Spelled
<1>1. Folded(s[n]) \in Chars
  BY FoldedChar
<1>2. Append(names, <<Folded(s[n])>>) \in Spelled
  BY <1>1 DEF Spelled
<1>3. \A i \in 1..Len(names) : Append(names[i], Folded(s[n])) \in Seq(Chars) /\ names[i] \in Seq(Chars)
  BY <1>1 DEF Spelled
<1>4. [names EXCEPT ![Len(names)] = Append(@, Folded(s[n]))] \in Spelled
  <2> DEFINE e == [names EXCEPT ![Len(names)] = Append(@, Folded(s[n]))]
  <2>1. DOMAIN e = 1..Len(names) /\ Len(names) \in Nat
    BY DEF Spelled
  <2>2. \A i \in 1..Len(names) : e[i] \in Seq(Chars)
    BY <1>3 DEF Spelled
  <2>3. e = [i \in 1..Len(names) |-> e[i]]
    BY <2>1 DEF Spelled
  <2> HIDE DEF e
  <2>4. e \in [1..Len(names) -> Seq(Chars)]
    BY <2>2, <2>3
  <2> QED
    BY <2>1, <2>4 DEF Spelled, e
<1> QED
  BY <1>2, <1>4 DEF Written

(* The names so far are computed character by character.                     *)
LEMMA NamesToDef ==
  ASSUME NEW s \in Seq(Chars)
  PROVE  /\ NamesTo(s) \in [0..Len(s) -> Spelled]
         /\ NamesTo(s)[0] = <<>>
         /\ \A n \in 1..Len(s) : NamesTo(s)[n] = Written(s, NamesTo(s)[n - 1], n)
<1> DEFINE L == Len(s)
           step == [x \in Spelled \X (1..L) |-> Written(s, x[1], x[2])]
           Along(g, n) == IF n = 0 THEN <<>> ELSE Written(s, g[n - 1], n)
<1>1. L \in Nat /\ <<>> \in Spelled
  BY DEF Spelled
<1>2. step \in [Spelled \X (1..L) -> Spelled]
  BY WrittenType
<1>3. PICK g \in [0..L -> Spelled] :
        g[0] = <<>> /\ \A n \in 1..L : g[n] = step[<<g[n - 1], n>>]
  <2>1. Computed(Spelled, <<>>, L, step)
    <3> HIDE DEF L, step
    <3> QED
      BY <1>1, <1>2, Recursion
  <2> QED
    BY <2>1 DEF Computed
<1>4. ASSUME NEW n \in 1..L PROVE g[n] = Written(s, g[n - 1], n)
  <2>1. n - 1 \in 0..L
    BY <1>1
  <2>2. <<g[n - 1], n>> \in Spelled \X (1..L)
    BY <2>1
  <2> QED
    BY <1>3, <2>2
<1>5. \A n \in 0..L : g[n] = Along(g, n)
  BY <1>1, <1>3, <1>4
<1>6. g = [n \in 0..L |-> Along(g, n)]
  BY <1>5
<1>7. NamesTo(s) = CHOOSE f : f = [n \in 0..L |-> Along(f, n)]
  BY DEF NamesTo, Written
<1>8. NamesTo(s) = [n \in 0..L |-> Along(NamesTo(s), n)]
  <2> DEFINE P(f) == f = [n \in 0..L |-> Along(f, n)]
  <2>1. P(g)
    BY <1>6
  <2>2. NamesTo(s) = CHOOSE f : P(f)
    BY <1>7
  <2> HIDE DEF P
  <2>3. P(NamesTo(s))
    BY <2>1, <2>2
  <2> QED
    BY <2>3 DEF P
<1>9. DOMAIN NamesTo(s) = 0..L /\ \A n \in 0..L : NamesTo(s)[n] = Along(NamesTo(s), n)
  BY <1>8
<1> HIDE DEF L
<1>10. NamesTo(s)[0] = <<>> /\ \A n \in 1..L : NamesTo(s)[n] = Written(s, NamesTo(s)[n - 1], n)
  BY <1>1, <1>9
<1> DEFINE T == {n \in Nat : NamesTo(s)[n] \in Spelled}
<1>11. 0 \in T
  BY <1>10, <1>1
<1>12. ASSUME NEW n \in 0 + 1 .. L, n - 1 \in T PROVE n \in T
  BY <1>1, <1>10, <1>12, WrittenType DEF L
<1>13. 0..L \subseteq T
  <2> HIDE DEF T
  <2> QED
    BY <1>1, <1>11, <1>12, Ascent
<1>14. \A n \in 0..L : NamesTo(s)[n] \in Spelled
  BY <1>13
<1>15. NamesTo(s) = [n \in 0..L |-> NamesTo(s)[n]]
  BY <1>8
<1> QED
  BY <1>10, <1>14, <1>15 DEF L

-------------------------------------------------------------------------------
(* The n-th character of a path adds nothing, begins a name, or goes on     *)
(* with the last one.                                                       *)
Begins(s, n)    == s[n] \notin Separators /\ (n = 1 \/ s[n - 1] \in Separators)
Continues(s, n) == s[n] \notin Separators /\ n > 1 /\ s[n - 1] \notin Separators

(* They are lists of names at every point.                                   *)
LEMMA NamesTyped ==
  ASSUME NEW s \in Seq(Chars)
  PROVE  \A n \in 0..Len(s) : NamesTo(s)[n] \in Spelled
  BY NamesToDef

(* A list of names has a length, and names.                                  *)
LEMMA SpelledNames ==
  ASSUME NEW names \in Spelled
  PROVE  Len(names) \in Nat /\ \A k \in 1..Len(names) : names[k] \in Seq(Chars)
  BY DEF Spelled

(* Where a character is none of the separators some name is open.            *)
LEMMA NameOpen ==
  ASSUME NEW s \in Seq(Chars), NEW n \in 1..Len(s), s[n] \notin Separators
  PROVE  Len(NamesTo(s)[n]) >= 1
<1> DEFINE N == NamesTo(s)
           T == {k \in 1..Len(s) : s[k] \notin Separators => Len(N[k]) >= 1}
<1>1. ASSUME NEW k \in 1..Len(s), k = 1 \/ s[k - 1] \in Separators \/ k - 1 \in T
      PROVE  k \in T
  <2>1. N[k] = Written(s, N[k - 1], k) /\ k - 1 \in 0..Len(s)
    BY NamesToDef
  <2>2. N[k - 1] \in Spelled /\ Len(N[k - 1]) \in Nat
    BY <2>1, NamesTyped, SpelledNames
  <2>3. CASE s[k] \in Separators
    BY <2>3
  <2>4. CASE Begins(s, k)
    <3>1. N[k] = Append(N[k - 1], <<Folded(s[k])>>)
      BY <2>1, <2>4 DEF Begins, Written
    <3> QED
      BY <3>1, <2>2 DEF Spelled
  <2>5. CASE Continues(s, k)
    <3>1. N[k] = [N[k - 1] EXCEPT ![Len(N[k - 1])] = Append(@, Folded(s[k]))]
      BY <2>1, <2>5 DEF Continues, Written
    <3>2. Len(N[k - 1]) >= 1
      BY <1>1, <2>5 DEF Continues
    <3> QED
      BY <3>1, <3>2, <2>2 DEF Spelled
  <2> QED
    BY <2>3, <2>4, <2>5 DEF Begins, Continues
<1>2. 1..Len(s) \subseteq T
  <2>1. 1 \in T
    BY <1>1
  <2>2. Len(s) \in Nat /\ \A k \in 1 + 1 .. Len(s) : k - 1 \in T => k \in T
    BY <1>1
  <2> HIDE DEF T
  <2> QED
    BY <2>1, <2>2, Ascent
<1> QED
  BY <1>2

Step(s, n, before, after) ==
  /\ s[n] \in Separators => after = before
  /\ Begins(s, n) =>
       /\ Len(after) = Len(before) + 1
       /\ \A k \in 1..Len(before) : after[k] = before[k]
       /\ after[Len(before) + 1] = <<Folded(s[n])>>
  /\ Continues(s, n) =>
       /\ Len(before) >= 1 /\ Len(after) = Len(before)
       /\ \A k \in 1..Len(before) - 1 : after[k] = before[k]
       /\ after[Len(before)] = Append(before[Len(before)], Folded(s[n]))

(* What the n-th character does to the names before it.                      *)
LEMMA NamesStep ==
  ASSUME NEW s \in Seq(Chars), NEW n \in 1..Len(s)
  PROVE  Step(s, n, NamesTo(s)[n - 1], NamesTo(s)[n])
<1> DEFINE after == NamesTo(s)[n]
           before == NamesTo(s)[n - 1]
<1> SUFFICES Step(s, n, before, after)
  OBVIOUS
<1>1. after = Written(s, before, n) /\ n - 1 \in 0..Len(s)
  BY NamesToDef
<1>2. before \in Spelled /\ after \in Spelled /\ Len(before) \in Nat
  BY <1>1, NamesTyped, SpelledNames
<1> HIDE DEF after, before
<1>3. CASE s[n] \in Separators
  BY <1>1, <1>2, <1>3 DEF Step, Written, Begins, Continues
<1>4. CASE Begins(s, n)
  <2>1. after = Append(before, <<Folded(s[n])>>)
    BY <1>1, <1>4 DEF Begins, Written
  <2> QED
    BY <1>2, <1>4, <2>1 DEF Step, Spelled, Begins, Continues
<1>5. CASE Continues(s, n)
  <2>1. after = [before EXCEPT ![Len(before)] = Append(@, Folded(s[n]))]
    BY <1>1, <1>5 DEF Continues, Written
  <2>2. Len(before) >= 1
    <3>1. n - 1 \in 1..Len(s) /\ s[n - 1] \notin Separators
      BY <1>5 DEF Continues
    <3> QED
      BY <3>1, NameOpen DEF before
  <2> QED
    BY <1>2, <1>5, <2>1, <2>2 DEF Step, Spelled, Begins, Continues
<1> QED
  BY <1>3, <1>4, <1>5 DEF Begins, Continues

(* The same for the character after the n-th.                                *)
LEMMA NamesNext ==
  ASSUME NEW s \in Seq(Chars), NEW n \in 0..Len(s), n < Len(s)
  PROVE  Step(s, n + 1, NamesTo(s)[n], NamesTo(s)[n + 1])
<1>1. PICK k \in 1..Len(s) : k = n + 1 /\ k - 1 = n
  <2>1. n + 1 \in 1..Len(s) /\ n + 1 - 1 = n
    OBVIOUS
  <2> QED
    BY <2>1
<1>2. Step(s, k, NamesTo(s)[k - 1], NamesTo(s)[k])
  BY NamesStep
<1> QED
  BY <1>1, <1>2

(* Paths that agree so far have written the same names.                    *)
LEMMA SameNames ==
  ASSUME NEW r \in Seq(Chars), NEW s \in Seq(Chars), NEW q \in Nat, q <= Len(r), q <= Len(s),
         \A i \in 1..q : Folded(r[i]) = Folded(s[i])
  PROVE  \A n \in 0..q : NamesTo(r)[n] = NamesTo(s)[n]
<1> DEFINE T == {n \in 0..q : NamesTo(r)[n] = NamesTo(s)[n]}
<1>1. 0 \in T
  BY NamesToDef
<1>2. ASSUME NEW n \in 0 + 1 .. q, n - 1 \in T PROVE n \in T
  <2>1. n \in 1..Len(r) /\ n \in 1..Len(s) /\ Folded(r[n]) = Folded(s[n])
    OBVIOUS
  <2>2. r[n] \in Separators <=> s[n] \in Separators
    BY <2>1, FoldedChar
  <2>3. n = 1 \/ (r[n - 1] \in Separators <=> s[n - 1] \in Separators)
    <3>1. CASE n > 1
      <4>1. n - 1 \in 1..q /\ n - 1 \in 1..Len(r) /\ n - 1 \in 1..Len(s)
        BY <3>1
      <4> QED
        BY <4>1, FoldedChar
    <3> QED
      BY <3>1
  <2>4. Written(r, NamesTo(r)[n - 1], n) = Written(s, NamesTo(s)[n - 1], n)
    BY <1>2, <2>1, <2>2, <2>3 DEF Written
  <2> QED
    BY <2>1, <2>4, NamesToDef
<1>3. 0..q \subseteq T
  <2> HIDE DEF T
  <2> QED
    BY <1>1, <1>2, Ascent
<1> QED
  BY <1>3

Extends(A, B) == Len(A) <= Len(B) /\ \A k \in 1..Len(A) : B[k] = A[k]

(* What stands before a separator is not touched any more.                 *)
LEMMA NamesKept ==
  ASSUME NEW s \in Seq(Chars), NEW n \in 0..Len(s), n = 0 \/ s[n] \in Separators
  PROVE  \A m \in n..Len(s) :
           /\ Extends(NamesTo(s)[n], NamesTo(s)[m])
           /\ m > n /\ s[m] \notin Separators => Len(NamesTo(s)[m]) > Len(NamesTo(s)[n])
<1> DEFINE N == NamesTo(s)
           T == {m \in n..Len(s) : /\ Extends(N[n], N[m])
                                   /\ m > n /\ s[m] \notin Separators => Len(N[m]) > Len(N[n])}
<1>1. n \in T
  BY NamesTyped, SpelledNames DEF Extends
<1>2. ASSUME NEW m \in n + 1 .. Len(s), m - 1 \in T PROVE m \in T
  <2>1. m \in 1..Len(s) /\ m - 1 \in n..Len(s) /\ Len(N[n]) \in Nat
    BY NamesTyped, SpelledNames
  <2>2. N[m - 1] \in Spelled /\ N[m] \in Spelled /\ Len(N[m - 1]) \in Nat /\ Len(N[m]) \in Nat
    BY <2>1, NamesTyped, SpelledNames
  <2>3. CASE s[m] \in Separators
    BY <2>1, <2>2, <2>3, <1>2, NamesStep DEF Step
  <2>4. CASE Begins(s, m)
    BY <2>1, <2>2, <2>4, <1>2, NamesStep DEF Step, Extends, Begins
  <2>5. CASE Continues(s, m)
    <3>1. m - 1 > n /\ Len(N[m - 1]) > Len(N[n])
      BY <1>2, <2>1, <2>5 DEF Continues
    <3> QED
      BY <2>1, <2>2, <2>5, <3>1, <1>2, NamesStep DEF Step, Extends, Continues
  <2> QED
    BY <2>3, <2>4, <2>5 DEF Begins, Continues
<1>3. n..Len(s) \subseteq T
  <2>1. Len(s) \in Nat /\ n \in Nat
    OBVIOUS
  <2> HIDE DEF T
  <2> QED
    BY <2>1, <1>1, <1>2, Ascent
<1> QED
  BY <1>3

(* A name that goes on keeps its beginning, and what stands before it.     *)
Grows(A, B) ==
  /\ Len(A) <= Len(B)
  /\ \A k \in 1..Len(A) - 1 : B[k] = A[k]
  /\ Extends(A[Len(A)], B[Len(A)])

(* One more character keeps the growth.                                      *)
LEMMA GrowsOn ==
  ASSUME NEW s \in Seq(Chars), NEW m \in 1..Len(s),
         NEW A \in Spelled, NEW B \in Spelled, NEW C \in Spelled,
         Len(A) >= 1, Grows(A, B), Step(s, m, B, C)
  PROVE  Grows(A, C)
<1> DEFINE l == Len(A)
           b == Len(B)
<1>1. l \in Nat /\ b \in Nat /\ l >= 1 /\ l <= b
  BY SpelledNames DEF Grows
<1>2. Extends(A[l], B[l]) /\ \A k \in 1..l - 1 : B[k] = A[k]
  BY DEF Grows
<1>3. CASE s[m] \in Separators
  BY <1>3 DEF Step
<1>4. CASE Begins(s, m)
  <2>1. Len(C) = b + 1 /\ \A k \in 1..b : C[k] = B[k]
    BY <1>4 DEF Step
  <2>2. C[l] = B[l] /\ \A k \in 1..l - 1 : C[k] = A[k]
    BY <1>1, <1>2, <2>1
  <2> QED
    BY <1>1, <1>2, <2>1, <2>2 DEF Grows
<1>5. CASE Continues(s, m)
  <2>1. /\ Len(C) = b /\ \A k \in 1..b - 1 : C[k] = B[k]
        /\ C[b] = Append(B[b], Folded(s[m]))
    BY <1>5 DEF Step
  <2>2. \A k \in 1..l - 1 : C[k] = A[k]
    BY <1>1, <1>2, <2>1
  <2>3. Extends(A[l], C[l])
    <3>1. CASE l < b
      <4>1. C[l] = B[l]
        BY <1>1, <2>1, <3>1
      <4> QED
        BY <1>2, <4>1
    <3>2. CASE l = b
      <4>1. A[l] \in Seq(Chars) /\ B[l] \in Seq(Chars) /\ Folded(s[m]) \in Chars
        BY <1>1, <3>2, SpelledNames, FoldedChar
      <4>2. C[l] = Append(B[l], Folded(s[m]))
        BY <2>1, <3>2
      <4> QED
        BY <1>2, <4>1, <4>2 DEF Extends
    <3> QED
      BY <1>1, <3>1, <3>2
  <2> QED
    BY <1>1, <2>1, <2>2, <2>3 DEF Grows
<1> QED
  BY <1>3, <1>4, <1>5 DEF Begins, Continues

(* From an open name on, the names only grow.                                *)
LEMMA NamesGrow ==
  ASSUME NEW s \in Seq(Chars), NEW n \in 1..Len(s), s[n] \notin Separators
  PROVE  \A m \in n..Len(s) : Grows(NamesTo(s)[n], NamesTo(s)[m])
<1> DEFINE N == NamesTo(s)
           l == Len(N[n])
           T == {m \in n..Len(s) : Grows(N[n], N[m])}
<1>1. l \in Nat /\ l >= 1 /\ N[n][l] \in Seq(Chars) /\ N[n] \in Spelled
  BY NamesTyped, SpelledNames, NameOpen
<1>2. n \in T
  BY <1>1 DEF Grows, Extends
<1>3. ASSUME NEW m \in n + 1 .. Len(s), m - 1 \in T PROVE m \in T
  <2>1. m \in 1..Len(s) /\ m \in n..Len(s) /\ m - 1 \in 0..Len(s)
    OBVIOUS
  <2>2. N[m - 1] \in Spelled /\ N[m] \in Spelled /\ Grows(N[n], N[m - 1])
        /\ Step(s, m, N[m - 1], N[m])
    BY <2>1, <1>3, NamesTyped, NamesStep
  <2>3. Grows(N[n], N[m])
    <3> HIDE DEF N
    <3> QED
      BY <1>1, <2>1, <2>2, GrowsOn
  <2> QED
    BY <2>1, <2>3
<1>4. n..Len(s) \subseteq T
  <2>1. Len(s) \in Nat /\ n \in Nat
    OBVIOUS
  <2> HIDE DEF T
  <2> QED
    BY <2>1, <1>2, <1>3, Ascent
<1> QED
  BY <1>4

-------------------------------------------------------------------------------
(* Both ends of a path.  The length without separators at the end exists    *)
(* and is what it says.                                                     *)
LEMMA TrimmedIs ==
  ASSUME NEW t \in Seq(Chars), NEW n, n = Trimmed(t)
  PROVE  n \in 0..Len(t) /\ (\A i \in n + 1..Len(t) : t[i] = "\\") /\ (n = 0 \/ t[n] # "\\")
<1> DEFINE T == {k \in 0..Len(t) : \A i \in k + 1..Len(t) : t[i] = "\\"}
           P(k) == /\ \A i \in k + 1..Len(t) : t[i] = "\\"
                   /\ k = 0 \/ t[k] # "\\"
<1>1. Len(t) \in T /\ T \subseteq Nat
  OBVIOUS
<1>2. PICK m \in T : \A k \in T : m <= k
  <2> HIDE DEF T
  <2> QED
    BY <1>1, Least
<1>3. m = 0 \/ t[m] # "\\"
  <2>1. SUFFICES ASSUME m # 0, t[m] = "\\" PROVE FALSE
    OBVIOUS
  <2>2. m - 1 \in 0..Len(t) /\ \A i \in m - 1 + 1..Len(t) : t[i] = "\\"
    BY <1>2, <2>1
  <2>3. m - 1 \in T
    BY <2>2
  <2>4. m \in Nat
    BY <1>1
  <2> HIDE DEF T
  <2> QED
    BY <1>2, <2>3, <2>4
<1>4. m \in 0..Len(t) /\ P(m)
  BY <1>2, <1>3
<1>5. n = CHOOSE k \in 0..Len(t) : P(k)
  BY DEF Trimmed
<1> HIDE DEF P
<1>6. n \in 0..Len(t) /\ P(n)
  BY <1>4, <1>5
<1> QED
  BY <1>6 DEF P

(* So is the number of separators at the beginning.                           *)
LEMMA LeadingIs ==
  ASSUME NEW s \in Seq(Chars), NEW n, n = Leading(s)
  PROVE  /\ n \in 0..Len(s)
         /\ \A i \in 1..n : s[i] \in Separators
         /\ n = Len(s) \/ s[n + 1] \notin Separators
<1> DEFINE T == {k \in 0..Len(s) : k = Len(s) \/ s[k + 1] \notin Separators}
           P(k) == /\ \A i \in 1..k : s[i] \in Separators
                   /\ k = Len(s) \/ s[k + 1] \notin Separators
<1>1. Len(s) \in T /\ T \subseteq Nat
  OBVIOUS
<1>2. PICK m \in T : \A k \in T : m <= k
  <2> HIDE DEF T
  <2> QED
    BY <1>1, Least
<1>3. ASSUME NEW i \in 1..m, s[i] \notin Separators PROVE FALSE
  <2>1. i - 1 \in T
    BY <1>3
  <2>2. m \in Nat /\ i \in 1..m
    BY <1>1
  <2> HIDE DEF T
  <2> QED
    BY <1>2, <2>1, <2>2
<1>4. m \in 0..Len(s) /\ P(m)
  BY <1>2, <1>3
<1>5. n = CHOOSE k \in 0..Len(s) : P(k)
  BY DEF Leading
<1> HIDE DEF P
<1>6. n \in 0..Len(s) /\ P(n)
  BY <1>4, <1>5
<1> QED
  BY <1>6 DEF P

\* Where a path stops but for separators.
StopOf(s) == Len(normalized(s))

(* A normalized path is its characters folded, up to where it stops.         *)
LEMMA NormalIs ==
  ASSUME NEW s \in Seq(Chars), NEW q, q = StopOf(s)
  PROVE  /\ normalized(s) \in Seq(Chars)
         /\ q \in 0..Len(s)
         /\ \A i \in 1..q : normalized(s)[i] = Folded(s[i])
         /\ \A i \in q + 1..Len(s) : s[i] \in Separators
         /\ q = 0 \/ s[q] \notin Separators
<1> DEFINE t == [i \in DOMAIN s |-> Folded(s[i])]
           n == Trimmed(t)
<1>1. DOMAIN s = 1..Len(s) /\ Len(s) \in Nat
  OBVIOUS
<1>2. t \in Seq(Chars) /\ Len(t) = Len(s)
  <2>1. t \in [1..Len(s) -> Chars]
    BY <1>1, FoldedChar
  <2> QED
    BY <1>1, <2>1
<1>3. n \in 0..Len(t) /\ (\A i \in n + 1..Len(t) : t[i] = "\\") /\ (n = 0 \/ t[n] # "\\")
  <2> HIDE DEF t
  <2> QED
    BY <1>2, TrimmedIs
<1>4. \A i \in 1..Len(s) : t[i] = Folded(s[i]) /\ (t[i] = "\\" <=> s[i] \in Separators)
  BY <1>1, FoldedChar
<1>5. normalized(s) = SubSeq(t, 1, n)
  BY DEF normalized
<1> HIDE DEF t, n
<1>6. /\ normalized(s) \in Seq(Chars) /\ Len(normalized(s)) = n
      /\ \A i \in 1..n : normalized(s)[i] = t[i]
  BY <1>1, <1>2, <1>3, <1>5
<1> QED
  BY <1>1, <1>2, <1>3, <1>4, <1>6 DEF StopOf

(* Separators at the end name nothing.                                      *)
LEMMA NamesAtEnd ==
  ASSUME NEW s \in Seq(Chars), NEW q \in 0..Len(s), \A i \in q + 1..Len(s) : s[i] \in Separators
  PROVE  PathNames(s) = NamesTo(s)[q]
<1> DEFINE T == {n \in Nat : NamesTo(s)[n] = NamesTo(s)[q]}
<1>1. q \in T
  OBVIOUS
<1>2. ASSUME NEW n \in q + 1 .. Len(s), n - 1 \in T PROVE n \in T
  <2>1. n \in 1..Len(s) /\ s[n] \in Separators
    OBVIOUS
  <2> QED
    BY <2>1, <1>2, NamesStep DEF Step
<1>3. q..Len(s) \subseteq T
  <2>1. q \in Nat /\ Len(s) \in Nat
    OBVIOUS
  <2> HIDE DEF T
  <2> QED
    BY <2>1, <1>1, <1>2, Ascent
<1>4. Len(s) \in T
  BY <1>3
<1> QED
  BY <1>4 DEF PathNames

-------------------------------------------------------------------------------
(* The names of a path without two dots in a row are none of them <<., .>>. *)
NoStepUp(names) ==
  \A k \in 1..Len(names) : \A j \in 1..Len(names[k]) - 1 :
    ~ (names[k][j] = "." /\ names[k][j + 1] = ".")

(* One more character writes no name with two dots in a row when the path    *)
(* has none.                                                                 *)
LEMMA NoStepUpOn ==
  ASSUME NEW s \in Seq(Chars), ~ ClimbsUp(s), NEW n \in 1..Len(s),
         NEW A \in Spelled, NEW B \in Spelled, Step(s, n, A, B), NoStepUp(A),
         Continues(s, n) => LET a == A[Len(A)] IN Len(a) >= 1 /\ a[Len(a)] = Folded(s[n - 1])
  PROVE  /\ NoStepUp(B)
         /\ s[n] \notin Separators =>
              LET b == B[Len(B)] IN Len(B) >= 1 /\ Len(b) >= 1 /\ b[Len(b)] = Folded(s[n])
<1>1. Len(A) \in Nat /\ \A k \in 1..Len(A) : A[k] \in Seq(Chars)
  BY SpelledNames
<1>2. Folded(s[n]) \in Chars
  BY FoldedChar
<1>3. CASE s[n] \in Separators
  BY <1>3 DEF Step
<1>4. CASE Begins(s, n)
  <2>1. /\ Len(B) = Len(A) + 1 /\ \A k \in 1..Len(A) : B[k] = A[k]
        /\ B[Len(A) + 1] = <<Folded(s[n])>>
    BY <1>4 DEF Step
  <2>2. Len(B[Len(B)]) = 1 /\ B[Len(B)][1] = Folded(s[n])
    BY <1>1, <2>1
  <2>3. NoStepUp(B)
    <3>1. ASSUME NEW k \in 1..Len(B), NEW j \in 1..Len(B[k]) - 1
          PROVE  ~ (B[k][j] = "." /\ B[k][j + 1] = ".")
      <4>1. CASE k = Len(B)
        BY <2>2, <4>1
      <4>2. CASE k # Len(B)
        <5>1. k \in 1..Len(A) /\ B[k] = A[k]
          BY <1>1, <2>1, <4>2
        <5> QED
          BY <5>1 DEF NoStepUp
      <4> QED
        BY <4>1, <4>2
    <3> QED
      BY <3>1 DEF NoStepUp
  <2> QED
    BY <1>1, <2>1, <2>2, <2>3
<1>5. CASE Continues(s, n)
  <2> DEFINE l == Len(A)
             a == A[l]
             b == B[l]
  <2>1. /\ l >= 1 /\ Len(B) = l /\ \A k \in 1..l - 1 : B[k] = A[k]
        /\ b = Append(a, Folded(s[n]))
    BY <1>5 DEF Step
  <2>2. a \in Seq(Chars) /\ Len(a) >= 1 /\ a[Len(a)] = Folded(s[n - 1])
    BY <1>1, <1>5, <2>1
  <2>3. /\ Len(b) = Len(a) + 1 /\ b[Len(b)] = Folded(s[n])
        /\ \A j \in 1..Len(a) : b[j] = a[j]
    BY <1>2, <2>1, <2>2
  <2>4. n > 1 /\ n - 1 \in 1..Len(s) - 1 /\ s[n - 1] \in Chars /\ s[n] \in Chars
    BY <1>5 DEF Continues
  <2>5. ~ (s[n - 1] = "." /\ s[n] = ".")
    BY <2>4 DEF ClimbsUp
  <2>6. ~ (a[Len(a)] = "." /\ b[Len(b)] = ".")
    BY <2>2, <2>3, <2>4, <2>5, FoldedChar
  <2>7. \A j \in 1..Len(a) - 1 : ~ (a[j] = "." /\ a[j + 1] = ".")
    <3>1. l \in 1..Len(A)
      BY <1>1, <2>1
    <3> QED
      BY <3>1 DEF NoStepUp
  <2>8. \A j \in 1..Len(b) - 1 : ~ (b[j] = "." /\ b[j + 1] = ".")
    <3>1. Len(a) \in Nat
      BY <2>2
    <3> HIDE DEF a, b
    <3> QED
      BY <3>1, <2>3, <2>6, <2>7
  <2>9. NoStepUp(B)
    <3>1. ASSUME NEW k \in 1..Len(B), NEW j \in 1..Len(B[k]) - 1
          PROVE  ~ (B[k][j] = "." /\ B[k][j + 1] = ".")
      <4>1. CASE k = l
        BY <2>8, <4>1
      <4>2. CASE k # l
        <5>1. k \in 1..Len(A) /\ B[k] = A[k]
          BY <1>1, <2>1, <4>2
        <5> QED
          BY <5>1 DEF NoStepUp
      <4> QED
        BY <4>1, <4>2
    <3> QED
      BY <3>1 DEF NoStepUp
  <2> QED
    BY <2>1, <2>2, <2>3, <2>9
<1> QED
  BY <1>3, <1>4, <1>5 DEF Begins, Continues

(* Without two dots in a row in the path, no name has them.                  *)
LEMMA NoNameStepsUp ==
  ASSUME NEW s \in Seq(Chars), ~ ClimbsUp(s)
  PROVE  NoStepUp(PathNames(s))
<1> DEFINE N == NamesTo(s)
           Ends(n) == LET b == N[n][Len(N[n])] IN
                      Len(N[n]) >= 1 /\ Len(b) >= 1 /\ b[Len(b)] = Folded(s[n])
           T == {n \in 0..Len(s) : NoStepUp(N[n]) /\ (n > 0 /\ s[n] \notin Separators => Ends(n))}
<1>1. 0 \in T
  BY NamesToDef DEF NoStepUp
<1>2. ASSUME NEW n \in 0 + 1 .. Len(s), n - 1 \in T PROVE n \in T
  <2>1. n \in 1..Len(s) /\ n \in 0..Len(s) /\ n - 1 \in 0..Len(s)
    OBVIOUS
  <2>2. N[n - 1] \in Spelled /\ N[n] \in Spelled /\ Step(s, n, N[n - 1], N[n])
    BY <2>1, NamesTyped, NamesStep
  <2>3. NoStepUp(N[n - 1]) /\ (Continues(s, n) => Ends(n - 1))
    BY <1>2, <2>1 DEF Continues
  <2>4. NoStepUp(N[n]) /\ (s[n] \notin Separators => Ends(n))
    <3> HIDE DEF N
    <3> QED
      BY <2>1, <2>2, <2>3, NoStepUpOn
  <2> QED
    BY <2>1, <2>4
<1>3. Len(s) \in T
  <2>1. Len(s) \in Nat
    OBVIOUS
  <2> HIDE DEF T
  <2>2. 0..Len(s) \subseteq T
    BY <1>1, <1>2, <2>1, Ascent
  <2> QED
    BY <2>1, <2>2
<1> QED
  BY <1>3 DEF PathNames

-------------------------------------------------------------------------------
(* Where names lead to, one name at a time.                                 *)
Led(names, at, n) ==
  IF names[n] = <<".">> THEN at
  ELSE IF names[n] = <<".", ".">> THEN SubSeq(at, 1, Len(at) - 1)
  ELSE Append(at, names[n])

(* One more name leads from a place to a place.                              *)
LEMMA LedType ==
  ASSUME NEW names \in Spelled, NEW n \in 1..Len(names), NEW at \in Spelled
  PROVE  Led(names, at, n) \in Spelled
<1>1. names[n] \in Seq(Chars)
  BY SpelledNames
<1>2. Append(at, names[n]) \in Spelled
  BY <1>1 DEF Spelled
<1>3. SubSeq(at, 1, Len(at) - 1) \in Spelled
  BY DEF Spelled
<1> QED
  BY <1>2, <1>3 DEF Led

(* The walk is computed name by name.                                        *)
LEMMA WalkToDef ==
  ASSUME NEW names \in Spelled
  PROVE  /\ WalkTo(names)[0] = <<>>
         /\ \A n \in 0..Len(names) : WalkTo(names)[n] \in Spelled
         /\ \A n \in 1..Len(names) : WalkTo(names)[n] = Led(names, WalkTo(names)[n - 1], n)
<1> DEFINE L == Len(names)
           step == [x \in Spelled \X (1..L) |-> Led(names, x[1], x[2])]
           Along(g, n) == IF n = 0 THEN <<>> ELSE Led(names, g[n - 1], n)
<1>1. L \in Nat /\ <<>> \in Spelled
  BY DEF Spelled
<1>2. step \in [Spelled \X (1..L) -> Spelled]
  BY LedType
<1>3. PICK g \in [0..L -> Spelled] :
        g[0] = <<>> /\ \A n \in 1..L : g[n] = step[<<g[n - 1], n>>]
  <2>1. Computed(Spelled, <<>>, L, step)
    <3> HIDE DEF L, step
    <3> QED
      BY <1>1, <1>2, Recursion
  <2> QED
    BY <2>1 DEF Computed
<1>4. ASSUME NEW n \in 1..L PROVE g[n] = Led(names, g[n - 1], n)
  <2>1. n - 1 \in 0..L
    BY <1>1
  <2>2. <<g[n - 1], n>> \in Spelled \X (1..L)
    BY <2>1
  <2> QED
    BY <1>3, <2>2
<1>5. \A n \in 0..L : g[n] = Along(g, n)
  BY <1>1, <1>3, <1>4
<1>6. g = [n \in 0..L |-> Along(g, n)]
  BY <1>5
<1>7. WalkTo(names) = CHOOSE f : f = [n \in 0..L |-> Along(f, n)]
  BY DEF WalkTo, Led
<1>8. WalkTo(names) = [n \in 0..L |-> Along(WalkTo(names), n)]
  <2> DEFINE P(f) == f = [n \in 0..L |-> Along(f, n)]
  <2>1. P(g)
    BY <1>6
  <2>2. WalkTo(names) = CHOOSE f : P(f)
    BY <1>7
  <2> HIDE DEF P
  <2>3. P(WalkTo(names))
    BY <2>1, <2>2
  <2> QED
    BY <2>3 DEF P
<1>9. \A n \in 0..L : WalkTo(names)[n] = Along(WalkTo(names), n)
  BY <1>8
<1> HIDE DEF L
<1>10. /\ WalkTo(names)[0] = <<>>
       /\ \A n \in 1..L : WalkTo(names)[n] = Led(names, WalkTo(names)[n - 1], n)
  BY <1>1, <1>9
<1> DEFINE T == {n \in Nat : WalkTo(names)[n] \in Spelled}
<1>11. 0 \in T
  BY <1>10, <1>1
<1>12. ASSUME NEW n \in 0 + 1 .. L, n - 1 \in T PROVE n \in T
  BY <1>1, <1>10, <1>12, LedType DEF L
<1>13. 0..L \subseteq T
  <2> HIDE DEF T
  <2> QED
    BY <1>1, <1>11, <1>12, Ascent
<1> QED
  BY <1>10, <1>13 DEF L

(* Going on from what goes on.                                               *)
LEMMA ExtendsTrans ==
  ASSUME NEW A \in Spelled, NEW B \in Spelled, NEW C \in Spelled, Extends(A, B), Extends(B, C)
  PROVE  Extends(A, C)
  BY SpelledNames DEF Extends

(* Without a step up, more names lead further down the same way.            *)
LEMMA WalkExtends ==
  ASSUME NEW A \in Spelled, NEW B \in Spelled, Extends(A, B), NoStepUp(B)
  PROVE  Extends(WalkTo(A)[Len(A)], WalkTo(B)[Len(B)])
<1> DEFINE V == WalkTo(A)
           W == WalkTo(B)
<1>1. Len(A) \in Nat /\ Len(B) \in Nat /\ Len(A) <= Len(B)
  BY SpelledNames DEF Extends
<1>2. ASSUME NEW n \in 0..Len(A) PROVE V[n] = W[n]
  <2> DEFINE T == {k \in 0..Len(A) : V[k] = W[k]}
  <2>1. 0 \in T
    BY <1>1, WalkToDef
  <2>2. ASSUME NEW k \in 0 + 1 .. Len(A), k - 1 \in T PROVE k \in T
    <3>1. k \in 1..Len(A) /\ k \in 1..Len(B) /\ A[k] = B[k]
      BY <1>1 DEF Extends
    <3>2. V[k] = Led(A, V[k - 1], k) /\ W[k] = Led(B, W[k - 1], k)
      BY <3>1, WalkToDef
    <3> QED
      BY <2>2, <3>1, <3>2 DEF Led
  <2>3. 0..Len(A) \subseteq T
    <3> HIDE DEF T
    <3> QED
      BY <1>1, <2>1, <2>2, Ascent
  <2> QED
    BY <2>3
<1>3. Extends(W[Len(A)], W[Len(B)])
  <2> DEFINE T == {k \in Len(A)..Len(B) : Extends(W[Len(A)], W[k])}
  <2>1. Len(A) \in T
    BY <1>1, WalkToDef, SpelledNames DEF Extends
  <2>2. ASSUME NEW k \in Len(A) + 1 .. Len(B), k - 1 \in T PROVE k \in T
    <3>1. k \in 1..Len(B) /\ k \in Len(A)..Len(B) /\ k - 1 \in 0..Len(B) /\ Len(A) \in 0..Len(B)
      BY <1>1
    <3>2. W[k - 1] \in Spelled /\ W[Len(A)] \in Spelled /\ W[k] = Led(B, W[k - 1], k)
      BY <3>1, WalkToDef
    <3>3. B[k] # <<".", ".">>
      <4>1. SUFFICES ASSUME B[k] = <<".", ".">> PROVE FALSE
        OBVIOUS
      <4>2. 1 \in 1..Len(B[k]) - 1 /\ B[k][1] = "." /\ B[k][1 + 1] = "."
        BY <4>1
      <4> QED
        BY <3>1, <4>2 DEF NoStepUp
    <3>4. W[k] \in {W[k - 1], Append(W[k - 1], B[k])}
      BY <3>2, <3>3 DEF Led
    <3>5. B[k] \in Seq(Chars)
      BY <3>1, SpelledNames
    <3>6. Extends(W[k - 1], W[k]) /\ W[k] \in Spelled
      <4> DEFINE w == W[k - 1]
                 b == B[k]
      <4>1. w \in Seq(Seq(Chars)) /\ b \in Seq(Chars)
        BY <3>2, <3>5 DEF Spelled
      <4> HIDE DEF w, b
      <4>2. /\ Append(w, b) \in Seq(Seq(Chars)) /\ Len(Append(w, b)) = Len(w) + 1
            /\ \A i \in 1..Len(w) : Append(w, b)[i] = w[i]
        BY <4>1
      <4>3. Extends(w, Append(w, b)) /\ Extends(w, w)
        BY <4>1, <4>2 DEF Extends
      <4> QED
        BY <3>4, <4>1, <4>2, <4>3 DEF w, b, Spelled
    <3>7. Extends(W[Len(A)], W[k - 1])
      BY <2>2
    <3> HIDE DEF W
    <3>8. Extends(W[Len(A)], W[k])
      BY <3>2, <3>6, <3>7, ExtendsTrans
    <3> QED
      BY <3>1, <3>8
  <2>3. Len(B) \in T
    <3> HIDE DEF T
    <3>1. Len(A)..Len(B) \subseteq T
      BY <1>1, <2>1, <2>2, Ascent
    <3> QED
      BY <1>1, <3>1
  <2> QED
    BY <2>3
<1> QED
  BY <1>1, <1>2, <1>3

(* Names that are neither of the two are where they lead to.                *)
LEMMA WalkPlain ==
  ASSUME NEW A \in Spelled,
         \A k \in 1..Len(A) : \E j \in 1..Len(A[k]) : A[k][j] # "."
  PROVE  WalkTo(A)[Len(A)] = A
<1> DEFINE W == WalkTo(A)
           T == {n \in 0..Len(A) : Len(W[n]) = n /\ \A k \in 1..n : W[n][k] = A[k]}
<1>1. Len(A) \in Nat
  BY SpelledNames
<1>2. 0 \in T
  BY <1>1, WalkToDef
<1>3. ASSUME NEW n \in 0 + 1 .. Len(A), n - 1 \in T PROVE n \in T
  <2>1. n \in 1..Len(A) /\ n \in 0..Len(A) /\ n - 1 \in 0..Len(A)
    BY <1>1
  <2>2. A[n] # <<".">> /\ A[n] # <<".", ".">>
    BY <2>1
  <2>3. W[n] = Append(W[n - 1], A[n]) /\ W[n - 1] \in Spelled
    BY <2>1, <2>2, WalkToDef DEF Led
  <2>4. Len(W[n - 1]) = n - 1 /\ \A k \in 1..n - 1 : W[n - 1][k] = A[k]
    BY <1>3
  <2> HIDE DEF W
  <2>5. Len(W[n]) = n /\ \A k \in 1..n : W[n][k] = A[k]
    BY <2>1, <2>3, <2>4 DEF Spelled
  <2> QED
    BY <2>1, <2>5
<1>4. Len(A) \in T
  <2> HIDE DEF T
  <2>1. 0..Len(A) \subseteq T
    BY <1>1, <1>2, <1>3, Ascent
  <2> QED
    BY <1>1, <2>1
<1>5. W[Len(A)] \in Spelled /\ Len(W[Len(A)]) = Len(A) /\ \A k \in 1..Len(A) : W[Len(A)][k] = A[k]
  BY <1>1, <1>4, WalkToDef
<1> HIDE DEF W
<1>6. W[Len(A)] = A
  BY <1>5, SeqEqual DEF Spelled
<1> QED
  BY <1>6 DEF W

-------------------------------------------------------------------------------
(* A root names something.                                                  *)
AnyRoots == {r \in Seq(Chars) : \E i \in 1..Len(r) : r[i] \notin Separators}

(* So it stops at one of its characters.                                     *)
LEMMA RootStop ==
  ASSUME NEW r \in AnyRoots, NEW q, q = StopOf(r)
  PROVE  q \in 1..Len(r) /\ r[q] \notin Separators
<1>1. r \in Seq(Chars) /\ \E i \in 1..Len(r) : r[i] \notin Separators
  BY DEF AnyRoots
<1> QED
  BY <1>1, NormalIs

(* How the two spellings compare.                                           *)
Under(s, r) ==
  /\ StopOf(r) <= StopOf(s)
  /\ \A i \in 1..StopOf(r) : Folded(r[i]) = Folded(s[i])
  /\ StopOf(r) < StopOf(s) => s[StopOf(r) + 1] \in Separators

(* The comparison of the normalized spellings, character by character.       *)
LEMMA BelowIs ==
  ASSUME NEW s \in Seq(Chars), NEW r \in Seq(Chars)
  PROVE  Below(normalized(s), normalized(r)) <=> Under(s, r)
<1> DEFINE t == normalized(s)
           u == normalized(r)
           p == StopOf(s)
           q == StopOf(r)
<1>1. /\ t \in Seq(Chars) /\ Len(t) = p /\ p \in 0..Len(s)
      /\ \A i \in 1..p : t[i] = Folded(s[i])
  BY NormalIs DEF StopOf
<1>2. /\ u \in Seq(Chars) /\ Len(u) = q /\ q \in 0..Len(r)
      /\ \A i \in 1..q : u[i] = Folded(r[i])
  BY NormalIs DEF StopOf
<1>3. \A i \in 1..p : t[i] = "\\" <=> s[i] \in Separators
  BY <1>1, FoldedChar
<1> DEFINE w == Append(u, "\\")
<1>4. /\ w \in Seq(Chars) /\ Len(w) = q + 1 /\ w[q + 1] = "\\"
      /\ \A i \in 1..q : w[i] = u[i]
  BY <1>2 DEF Chars, Separators
<1>5. IsPrefix(w, t) <=> q + 1 <= p /\ \A i \in 1..q + 1 : w[i] = t[i]
  <2> HIDE DEF w, t, p, q
  <2> QED
    BY <1>1, <1>2, <1>4 DEF IsPrefix
<1>6. t = u <=> q = p /\ \A i \in 1..q : u[i] = t[i]
  <2> HIDE DEF t, u, p, q
  <2> QED
    BY <1>1, <1>2, SeqEqual
<1>7. Below(t, u) <=> t = u \/ IsPrefix(w, t)
  BY DEF Below
<1>8. Under(s, r) <=> /\ q <= p /\ \A i \in 1..q : Folded(r[i]) = Folded(s[i])
                      /\ q < p => s[q + 1] \in Separators
  BY DEF Under
<1> HIDE DEF t, u, w, p, q
<1>9. p \in Nat /\ q \in Nat
  BY <1>1, <1>2
<1>10. CASE Below(t, u)
  <2>1. q <= p /\ \A i \in 1..q : u[i] = t[i]
    BY <1>4, <1>5, <1>6, <1>7, <1>9, <1>10
  <2>2. q < p => t[q + 1] = "\\"
    BY <1>4, <1>5, <1>6, <1>7, <1>9, <1>10
  <2>3. \A i \in 1..q : Folded(r[i]) = Folded(s[i])
    BY <1>1, <1>2, <1>9, <2>1
  <2>4. q < p => s[q + 1] \in Separators
    BY <1>3, <1>9, <2>2
  <2> QED
    BY <1>8, <1>10, <2>1, <2>3, <2>4 DEF t, u
<1>11. CASE Under(s, r)
  <2>1. \A i \in 1..q : u[i] = t[i]
    BY <1>1, <1>2, <1>8, <1>9, <1>11
  <2>2. CASE q = p
    BY <1>6, <1>7, <1>11, <2>1, <2>2 DEF t, u
  <2>3. CASE q < p
    <3>1. t[q + 1] = "\\"
      BY <1>3, <1>8, <1>9, <1>11, <2>3
    <3>2. \A i \in 1..q + 1 : w[i] = t[i]
      BY <1>4, <1>9, <2>1, <3>1
    <3> QED
      BY <1>5, <1>7, <1>9, <1>11, <2>3, <3>2 DEF t, u
  <2> QED
    BY <1>8, <1>9, <1>11, <2>2, <2>3
<1> QED
  BY <1>10, <1>11 DEF t, u

(* Equal when folded, both are separators or neither is.                     *)
LEMMA SameSeparators ==
  ASSUME NEW r \in Seq(Chars), NEW s \in Seq(Chars), NEW i \in 1..Len(r), i \in 1..Len(s),
         Folded(r[i]) = Folded(s[i])
  PROVE  r[i] \in Separators <=> s[i] \in Separators
  BY FoldedChar

(* A prefix, name by name.                                                   *)
LEMMA PrefixIs ==
  ASSUME NEW V \in Spelled, NEW W \in Spelled
  PROVE  IsPrefix(V, W) <=> Extends(V, W)
<1>1. V \in Seq(Seq(Chars)) /\ W \in Seq(Seq(Chars)) /\ Len(V) \in Nat /\ Len(W) \in Nat
  BY DEF Spelled
<1>2. SubSeq(V, 1, Len(V)) = V
  BY <1>1
<1>3. ASSUME Len(V) <= Len(W)
      PROVE  SubSeq(W, 1, Len(V)) = V <=> \A k \in 1..Len(V) : W[k] = V[k]
  <2> DEFINE u == SubSeq(W, 1, Len(V))
  <2>1. u \in Seq(Seq(Chars)) /\ Len(u) = Len(V) /\ \A k \in 1..Len(V) : u[k] = W[k]
    BY <1>1, <1>3
  <2> HIDE DEF u
  <2>2. u = V <=> \A k \in 1..Len(V) : u[k] = V[k]
    BY <1>1, <2>1, SeqEqual
  <2> QED
    BY <2>1, <2>2 DEF u
<1> QED
  BY <1>2, <1>3 DEF IsPrefix, Extends

(* What is accepted leads to a place inside the root.                       *)
LEMMA UnderIsInside ==
  ASSUME NEW s \in Seq(Chars), ~ ClimbsUp(s), NEW r \in AnyRoots, Under(s, r)
  PROVE  Inside(s, r)
<1> DEFINE q == StopOf(r)
           p == StopOf(s)
<1>0. r \in Seq(Chars)
  BY DEF AnyRoots
<1>1. q \in 1..Len(r) /\ r[q] \notin Separators
  BY RootStop
<1>2. p \in 0..Len(s) /\ \A i \in p + 1..Len(s) : s[i] \in Separators
  BY NormalIs
<1>3. /\ q <= p /\ \A i \in 1..q : Folded(r[i]) = Folded(s[i])
      /\ q < p => s[q + 1] \in Separators
  BY DEF Under
<1> HIDE DEF p, q
<1>4. q \in 1..Len(s) /\ \A i \in 1..q : r[i] \in Separators <=> s[i] \in Separators
  BY <1>0, <1>1, <1>2, <1>3, SameSeparators
<1>5. q < Len(s) => s[q + 1] \in Separators
  BY <1>1, <1>2, <1>3
<1>6. Leading(s) = Leading(r)
  <2> DEFINE l == Leading(r)
             m == Leading(s)
  <2>1. /\ l \in 0..Len(r) /\ \A i \in 1..l : r[i] \in Separators
        /\ l = Len(r) \/ r[l + 1] \notin Separators
    BY <1>0, LeadingIs
  <2>2. /\ m \in 0..Len(s) /\ \A i \in 1..m : s[i] \in Separators
        /\ m = Len(s) \/ s[m + 1] \notin Separators
    BY LeadingIs
  <2> HIDE DEF l, m
  <2>3. l < q /\ m < q
    BY <1>1, <1>4, <2>1, <2>2
  <2>4. r[l + 1] \notin Separators /\ s[m + 1] \notin Separators
    BY <1>1, <1>4, <2>1, <2>2, <2>3
  <2>5. s[l + 1] \notin Separators /\ r[m + 1] \notin Separators
    BY <1>4, <2>1, <2>2, <2>3, <2>4
  <2>6. ~ (l < m) /\ ~ (m < l)
    BY <2>1, <2>2, <2>5
  <2> QED
    BY <2>1, <2>2, <2>6 DEF l, m
<1>7. PathNames(r) = NamesTo(s)[q]
  <2>1. PathNames(r) = NamesTo(r)[q]
    BY <1>0, <1>1, NormalIs, NamesAtEnd DEF q
  <2>2. NamesTo(r)[q] = NamesTo(s)[q]
    BY <1>0, <1>1, <1>3, <1>4, SameNames
  <2> QED
    BY <2>1, <2>2
<1>8. Extends(NamesTo(s)[q], PathNames(s))
  <2>1. CASE q = Len(s)
    BY <1>4, <2>1, NamesTyped, SpelledNames DEF Extends, PathNames
  <2>2. CASE q < Len(s)
    <3>1. q + 1 \in 1..Len(s) /\ q + 1 - 1 = q /\ Len(s) \in q + 1..Len(s) /\ q + 1 \in 0..Len(s)
      BY <1>4, <2>2
    <3>2. NamesTo(s)[q + 1] = NamesTo(s)[q]
      <4>1. Step(s, q + 1, NamesTo(s)[q], NamesTo(s)[q + 1])
        BY <1>4, <2>2, NamesNext
      <4> QED
        BY <1>5, <2>2, <4>1 DEF Step
    <3>3. Extends(NamesTo(s)[q + 1], NamesTo(s)[Len(s)])
      BY <1>5, <2>2, <3>1, NamesKept
    <3> QED
      BY <3>2, <3>3 DEF PathNames
  <2> QED
    BY <1>4, <2>1, <2>2
<1> DEFINE A == PathNames(r)
           B == PathNames(s)
<1>9. A \in Spelled /\ B \in Spelled /\ Extends(A, B) /\ NoStepUp(B)
  <2>1. Len(s) \in 0..Len(s) /\ Len(r) \in 0..Len(r)
    BY <1>0
  <2> QED
    BY <2>1, <1>0, <1>7, <1>8, NamesTyped, NoNameStepsUp DEF PathNames
<1> HIDE DEF A, B
<1>10. Extends(WalkTo(A)[Len(A)], WalkTo(B)[Len(B)])
  BY <1>9, WalkExtends
<1>11. WalkTo(A)[Len(A)] \in Spelled /\ WalkTo(B)[Len(B)] \in Spelled
  BY <1>9, WalkToDef, SpelledNames
<1>12. IsPrefix(WalkTo(A)[Len(A)], WalkTo(B)[Len(B)])
  BY <1>10, <1>11, PrefixIs
<1> QED
  BY <1>6, <1>12 DEF Inside, Walk, A, B
(* A path that leads to a place inside the root, both spelled plainly, has  *)
(* the root before it, one character after the other.                       *)
Follows(s, r, n) == n <= Len(s) /\ \A i \in 1..n : Folded(r[i]) = Folded(s[i])

Undetoured(s) ==
  \A i \in Leading(s) + 1..Len(s) - 1 : {s[i], s[i + 1]} \subseteq Separators
                                          => \A j \in i..Len(s) : s[j] \in Separators

(* One more character of the root: it begins a name, goes on with one, or    *)
(* separates two, and what the path has there can be nothing else.           *)
LEMMA FollowsOn ==
  ASSUME NEW s \in Seq(Chars), NEW r \in Seq(Chars), NEW q \in 1..Len(r), r[q] \notin Separators,
         Leading(s) = Leading(r), Extends(PathNames(r), PathNames(s)),
         PathNames(r) = NamesTo(r)[q], Undetoured(s), Undetoured(r),
         NEW n \in 1..q, Follows(s, r, n - 1)
  PROVE  Follows(s, r, n)
<1> DEFINE A == PathNames(r)
           B == PathNames(s)
           M == NamesTo(r)[n - 1]
           m == Len(M)
           l == Leading(r)
<1>1. n \in 1..Len(r) /\ n - 1 \in 0..Len(r) /\ n - 1 \in Nat /\ n - 1 <= Len(s)
  BY DEF Follows
<1>2. M \in Spelled /\ A \in Spelled /\ B \in Spelled /\ m \in Nat /\ Len(B) \in Nat /\ Len(A) \in Nat
  <2>1. Len(s) \in 0..Len(s) /\ q \in 0..Len(r)
    OBVIOUS
  <2>2. B = NamesTo(s)[Len(s)] /\ A = NamesTo(r)[q]
    BY DEF PathNames
  <2>3. M \in Spelled /\ A \in Spelled /\ B \in Spelled
    BY <1>1, <2>1, <2>2, NamesTyped
  <2> HIDE DEF M, A, B
  <2> QED
    BY <2>3, SpelledNames
<1>3. M = NamesTo(s)[n - 1]
  <2> DEFINE k == n - 1
  <2>1. /\ k \in Nat /\ k <= Len(r) /\ k <= Len(s) /\ k \in 0..k
        /\ \A i \in 1..k : Folded(r[i]) = Folded(s[i])
    BY <1>1 DEF Follows
  <2> HIDE DEF k
  <2>2. NamesTo(r)[k] = NamesTo(s)[k]
    BY <2>1, SameNames
  <2> QED
    BY <2>2 DEF k
<1>4. Step(r, n, M, NamesTo(r)[n]) /\ NamesTo(r)[n] \in Spelled
  BY <1>1, NamesStep, NamesTyped
<1>5. ASSUME n <= Len(s) PROVE n \in 1..Len(s) /\ Step(s, n, M, NamesTo(s)[n]) /\ NamesTo(s)[n] \in Spelled
  BY <1>1, <1>3, <1>5, NamesStep, NamesTyped
<1>6. n > Len(s) => B = M
  <2>1. n > Len(s) => n - 1 = Len(s)
    BY <1>1
  <2> QED
    BY <2>1, <1>3 DEF PathNames
<1>7. /\ l \in 0..Len(r) /\ \A i \in 1..l : r[i] \in Separators
      /\ l = Len(r) \/ r[l + 1] \notin Separators
  BY LeadingIs
<1>8. /\ l \in 0..Len(s) /\ \A i \in 1..l : s[i] \in Separators
      /\ l = Len(s) \/ s[l + 1] \notin Separators
  BY LeadingIs
<1>9. n > 1 => (n - 1 \in 1..Len(s) /\ n - 1 \in 1..Len(r)
                /\ (r[n - 1] \in Separators <=> s[n - 1] \in Separators))
  BY <1>1, SameSeparators DEF Follows
<1>10. Len(A) <= Len(B) /\ \A k \in 1..Len(A) : B[k] = A[k]
  BY DEF Extends
<1>11. SUFFICES n <= Len(s) /\ Folded(r[n]) = Folded(s[n])
  BY <1>1 DEF Follows
<1> HIDE DEF A, B, M, m, l
<1>12. CASE n <= l
  BY <1>7, <1>8, <1>1, <1>12 DEF Separators, Folded
<1>13. CASE Begins(r, n)
  <2>1. NamesTo(r)[n] = NamesTo(r)[n] /\ q \in n..Len(r)
    OBVIOUS
  <2>2. Grows(NamesTo(r)[n], A)
    <3>1. Grows(NamesTo(r)[n], NamesTo(r)[q])
      BY <1>1, <1>13, <2>1, NamesGrow DEF Begins
    <3> QED
      BY <3>1 DEF A
  <2>3. Len(NamesTo(r)[n]) = m + 1 /\ NamesTo(r)[n][m + 1] = <<Folded(r[n])>>
    BY <1>4, <1>13 DEF Step, m
  <2>4. Len(A) >= m + 1 /\ Len(A[m + 1]) >= 1 /\ A[m + 1][1] = Folded(r[n])
    BY <2>2, <2>3 DEF Grows, Extends
  <2>5. Len(B) >= m + 1 /\ B[m + 1] = A[m + 1]
    BY <1>2, <1>10, <2>4
  <2>6. n <= Len(s)
    BY <1>2, <1>6, <2>5 DEF m
  <2>7. s[n] \notin Separators
    <3>1. SUFFICES ASSUME s[n] \in Separators PROVE FALSE
      OBVIOUS
    <3>2. \A i \in n..Len(s) : s[i] \in Separators
      <4>1. CASE n = 1
        <5>1. l = 0
          BY <1>1, <1>7, <1>13, <4>1 DEF Begins
        <5> QED
          BY <1>8, <2>6, <3>1, <4>1, <5>1
      <4>2. CASE n > 1
        <5>1. s[n - 1] \in Separators
          BY <1>9, <1>13, <4>2 DEF Begins
        <5>2. l <= n - 1
          BY <1>1, <1>7, <1>13 DEF Begins
        <5>3. CASE l = n - 1
          BY <1>1, <1>8, <2>6, <3>1, <5>3
        <5>4. CASE l < n - 1
          <6>1. n - 1 \in Leading(s) + 1..Len(s) - 1 /\ n - 1 + 1 = n
            BY <1>1, <1>7, <2>6, <5>4 DEF l
          <6> QED
            BY <3>1, <5>1, <6>1 DEF Undetoured
        <5> QED
          BY <1>1, <1>7, <5>2, <5>3, <5>4
      <4> QED
        BY <1>1, <4>1, <4>2
    <3>3. B = M
      <4>1. n - 1 \in 0..Len(s) /\ n - 1 + 1 = n
        BY <1>1
      <4> QED
        BY <1>3, <3>2, <4>1, NamesAtEnd DEF B
    <3> QED
      BY <1>2, <2>5, <3>3 DEF m
  <2>8. Begins(s, n)
    BY <1>1, <1>9, <1>13, <2>7 DEF Begins
  <2>9. Len(NamesTo(s)[n]) = m + 1 /\ NamesTo(s)[n][m + 1] = <<Folded(s[n])>>
    BY <1>5, <2>6, <2>8 DEF Step, m
  <2>10. Grows(NamesTo(s)[n], B)
    <3>1. n \in 1..Len(s) /\ Len(s) \in n..Len(s)
      BY <1>5, <2>6
    <3> QED
      BY <2>7, <3>1, NamesGrow DEF B, PathNames
  <2>11. B[m + 1][1] = Folded(s[n])
    BY <2>9, <2>10 DEF Grows, Extends
  <2> QED
    BY <2>4, <2>5, <2>6, <2>11
<1>14. CASE Continues(r, n)
  <2>1. q \in n..Len(r)
    OBVIOUS
  <2>2. Grows(NamesTo(r)[n], A)
    <3>1. Grows(NamesTo(r)[n], NamesTo(r)[q])
      BY <1>1, <1>14, <2>1, NamesGrow DEF Continues
    <3> QED
      BY <3>1 DEF A
  <2>3. /\ m >= 1 /\ Len(NamesTo(r)[n]) = m
        /\ NamesTo(r)[n][m] = Append(M[m], Folded(r[n]))
    BY <1>4, <1>14 DEF Step, m
  <2> DEFINE c == M[m]
             k == Len(c)
  <2>4. c \in Seq(Chars) /\ k \in Nat
    BY <1>2, <2>3, SpelledNames DEF m
  <2>5. \A x \in Chars : /\ Len(Append(c, x)) = k + 1 /\ Append(c, x)[k + 1] = x
    BY <2>4
  <2>6. Len(A) >= m /\ Len(A[m]) >= k + 1 /\ A[m][k + 1] = Folded(r[n])
    <3>1. Folded(r[n]) \in Chars
      BY <1>1, FoldedChar
    <3> HIDE DEF c, k
    <3>2. Extends(Append(c, Folded(r[n])), A[m]) /\ m <= Len(A)
      BY <2>2, <2>3 DEF Grows, c
    <3>3. k + 1 \in 1..k + 1
      BY <2>4
    <3> QED
      BY <2>5, <3>1, <3>2, <3>3 DEF Extends
  <2>7. m <= Len(B) /\ B[m] = A[m]
    BY <1>2, <1>10, <2>3, <2>6
  <2>8. n <= Len(s)
    BY <1>6, <2>4, <2>6, <2>7
  <2>9. n > 1 /\ s[n - 1] \notin Separators
    BY <1>9, <1>14 DEF Continues
  <2>10. s[n] \notin Separators
    <3>1. SUFFICES ASSUME s[n] \in Separators PROVE FALSE
      OBVIOUS
    <3>2. NamesTo(s)[n] = M
      BY <1>5, <2>8, <3>1 DEF Step
    <3>3. Extends(NamesTo(s)[n], B)
      <4>1. n \in 0..Len(s) /\ Len(s) \in n..Len(s)
        BY <1>5, <2>8
      <4> QED
        BY <3>1, <4>1, NamesKept DEF B, PathNames
    <3>4. B[m] = c
      BY <2>3, <3>2, <3>3, <1>2 DEF Extends, m
    <3> QED
      BY <2>4, <2>6, <2>7, <3>4
  <2>11. Continues(s, n)
    BY <2>9, <2>10 DEF Continues
  <2>12. /\ Len(NamesTo(s)[n]) = m /\ NamesTo(s)[n][m] = Append(c, Folded(s[n]))
    BY <1>5, <2>8, <2>11 DEF Step, m
  <2>13. Grows(NamesTo(s)[n], B)
    <3>1. n \in 1..Len(s) /\ Len(s) \in n..Len(s)
      BY <1>5, <2>8
    <3> QED
      BY <2>10, <3>1, NamesGrow DEF B, PathNames
  <2>14. B[m][k + 1] = Folded(s[n])
    <3>1. Folded(s[n]) \in Chars
      BY <1>5, <2>8, FoldedChar
    <3> HIDE DEF c, k
    <3>2. Extends(Append(c, Folded(s[n])), B[m])
      BY <2>12, <2>13 DEF Grows
    <3>3. k + 1 \in 1..k + 1
      BY <2>4
    <3> QED
      BY <2>5, <3>1, <3>2, <3>3 DEF Extends
  <2> QED
    BY <2>6, <2>7, <2>8, <2>14
<1>15. CASE r[n] \in Separators /\ n > l
  <2>1. n < q /\ n \in 1..Len(r) - 1
    BY <1>15
  <2>2. r[n - 1] \notin Separators /\ n > 1
    <3>1. CASE n = l + 1
      BY <1>1, <1>7, <1>15, <3>1
    <3>2. CASE n > l + 1
      <4>1. n - 1 \in Leading(r) + 1..Len(r) - 1 /\ n - 1 + 1 = n /\ q \in n - 1..Len(r)
        BY <1>7, <2>1, <3>2 DEF l
      <4>2. SUFFICES ASSUME r[n - 1] \in Separators PROVE FALSE
        BY <1>7, <3>2
      <4> QED
        BY <1>15, <4>1, <4>2 DEF Undetoured
    <3> QED
      BY <1>7, <1>15, <3>1, <3>2
  <2>3. NamesTo(r)[n] = M
    BY <1>4, <1>15 DEF Step
  <2>4. Len(A) > m /\ (m >= 1 => A[m] = M[m])
    <3>1. n \in 0..Len(r) /\ q \in n..Len(r)
      BY <1>1
    <3>2. Extends(M, A) /\ Len(A) > m
      BY <1>15, <2>1, <2>3, <3>1, NamesKept DEF A, m
    <3> QED
      BY <1>2, <3>2 DEF Extends, m
  <2>5. m >= 1
    <3>1. n - 1 \in 1..Len(r)
      BY <1>1, <2>2
    <3> QED
      BY <2>2, <3>1, NameOpen DEF M, m
  <2>6. Len(B) > m /\ B[m] = M[m]
    BY <1>2, <1>10, <2>4, <2>5
  <2>7. n <= Len(s)
    BY <1>2, <1>6, <2>6 DEF m
  <2>8. s[n - 1] \notin Separators
    BY <1>9, <2>2
  <2>9. s[n] \in Separators
    <3>1. SUFFICES ASSUME s[n] \notin Separators PROVE FALSE
      OBVIOUS
    <3>2. Continues(s, n)
      BY <2>2, <2>8, <3>1 DEF Continues
    <3>3. /\ Len(NamesTo(s)[n]) = m
          /\ NamesTo(s)[n][m] = Append(M[m], Folded(s[n]))
      BY <1>5, <2>7, <3>2 DEF Step, m
    <3>4. Grows(NamesTo(s)[n], B)
      <4>1. n \in 1..Len(s) /\ Len(s) \in n..Len(s)
        BY <1>5, <2>7
      <4> QED
        BY <3>1, <4>1, NamesGrow DEF B, PathNames
    <3>5. Extends(Append(M[m], Folded(s[n])), M[m])
      BY <2>6, <3>3, <3>4 DEF Grows
    <3>6. M[m] \in Seq(Chars) /\ Folded(s[n]) \in Chars
      BY <1>2, <1>5, <2>5, <2>7, SpelledNames, FoldedChar DEF m
    <3> DEFINE c == M[m]
    <3>7. Len(Append(c, Folded(s[n]))) = Len(c) + 1 /\ Len(c) \in Nat
      BY <3>6
    <3> QED
      BY <3>5, <3>7 DEF Extends
  <2> QED
    BY <1>15, <2>7, <2>9 DEF Separators, Folded
<1> QED
  BY <1>1, <1>7, <1>12, <1>13, <1>14, <1>15 DEF Begins, Continues

(* So a path inside the root is below it as it is spelled.                   *)
LEMMA InsideIsUnder ==
  ASSUME NEW s \in Seq(Chars), NEW r \in AnyRoots, Inside(s, r), Plain(s), Plain(r)
  PROVE  Under(s, r)
<1> DEFINE A == PathNames(r)
           B == PathNames(s)
           q == StopOf(r)
           p == StopOf(s)
<1>1. r \in Seq(Chars) /\ q \in 1..Len(r) /\ r[q] \notin Separators
  BY RootStop DEF AnyRoots
<1>2. A \in Spelled /\ B \in Spelled
  <2>1. Len(s) \in 0..Len(s) /\ Len(r) \in 0..Len(r)
    BY <1>1
  <2> QED
    BY <2>1, <1>1, NamesTyped DEF PathNames
<1>3. Walk(r) = A /\ Walk(s) = B
  <2>1. DOMAIN A = 1..Len(A) /\ DOMAIN B = 1..Len(B)
    BY <1>2 DEF Spelled
  <2>2. /\ \A k \in 1..Len(A) : DOMAIN A[k] = 1..Len(A[k])
        /\ \A k \in 1..Len(B) : DOMAIN B[k] = 1..Len(B[k])
    BY <1>2, SpelledNames
  <2>3. \A k \in 1..Len(A) : \E j \in 1..Len(A[k]) : A[k][j] # "."
    BY <2>1, <2>2 DEF Plain
  <2>4. \A k \in 1..Len(B) : \E j \in 1..Len(B[k]) : B[k][j] # "."
    BY <2>1, <2>2 DEF Plain
  <2> HIDE DEF A, B
  <2>5. WalkTo(A)[Len(A)] = A /\ WalkTo(B)[Len(B)] = B
    BY <1>2, <2>3, <2>4, WalkPlain
  <2> QED
    BY <2>5 DEF Walk, A, B
<1>4. Leading(s) = Leading(r) /\ Extends(A, B)
  BY <1>2, <1>3, PrefixIs DEF Inside
<1>5. Undetoured(s) /\ Undetoured(r)
  BY DEF Plain, Undetoured
<1>6. A = NamesTo(r)[q]
  BY <1>1, NormalIs, NamesAtEnd
<1>7. Follows(s, r, q)
  <2> DEFINE T == {n \in 0..q : Follows(s, r, n)}
  <2>1. 0 \in T
    BY <1>1 DEF Follows
  <2>2. ASSUME NEW n \in 0 + 1 .. q, n - 1 \in T PROVE n \in T
    <3>1. n \in 1..q /\ n \in 0..q /\ Follows(s, r, n - 1)
      BY <2>2
    <3>2. Follows(s, r, n)
      <4> HIDE DEF q
      <4> QED
        BY <1>1, <1>4, <1>5, <1>6, <3>1, FollowsOn
    <3> QED
      BY <3>1, <3>2
  <2>3. q \in T
    <3>1. q \in Nat
      BY <1>1
    <3> HIDE DEF T, q
    <3>2. 0..q \subseteq T
      BY <3>1, <2>1, <2>2, Ascent
    <3> QED
      BY <3>1, <3>2
  <2> QED
    BY <2>3
<1>8. /\ p \in 0..Len(s) /\ \A i \in p + 1..Len(s) : s[i] \in Separators
      /\ p = 0 \/ s[p] \notin Separators
  BY NormalIs
<1> HIDE DEF p, q
<1>9. q \in 1..Len(s) /\ \A i \in 1..q : Folded(r[i]) = Folded(s[i])
  BY <1>1, <1>7 DEF Follows
<1>10. s[q] \notin Separators
  BY <1>1, <1>9, SameSeparators
<1>11. q <= p
  BY <1>8, <1>9, <1>10
<1>12. q < p => s[q + 1] \in Separators
  <2>1. SUFFICES ASSUME q < p, s[q + 1] \notin Separators PROVE FALSE
    OBVIOUS
  <2>2. q + 1 \in 1..Len(s) /\ q + 1 - 1 = q /\ Len(s) \in q + 1..Len(s)
    BY <1>8, <1>9, <2>1
  <2>3. Continues(s, q + 1)
    BY <1>9, <1>10, <2>1, <2>2 DEF Continues
  <2>4. NamesTo(s)[q] = A
    BY <1>1, <1>6, <1>9, SameNames
  <2> DEFINE m == Len(A)
             c == A[m]
  <2>5. Step(s, q + 1, A, NamesTo(s)[q + 1])
    <3>1. Step(s, q + 1, NamesTo(s)[q], NamesTo(s)[q + 1])
      BY <1>9, <2>2, NamesNext
    <3> QED
      BY <2>4, <3>1
  <2>6. m >= 1 /\ Len(NamesTo(s)[q + 1]) = m /\ NamesTo(s)[q + 1][m] = Append(c, Folded(s[q + 1]))
    BY <2>3, <2>5 DEF Step
  <2>7. Grows(NamesTo(s)[q + 1], B)
    BY <2>1, <2>2, NamesGrow DEF PathNames
  <2>8. Extends(Append(c, Folded(s[q + 1])), B[m])
    BY <2>6, <2>7 DEF Grows
  <2>9. c \in Seq(Chars) /\ m \in Nat /\ Folded(s[q + 1]) \in Chars
    BY <1>2, <2>2, <2>6, SpelledNames, FoldedChar
  <2>10. B[m] = c
    BY <1>4, <2>6, <2>9 DEF Extends
  <2> HIDE DEF c
  <2>11. Len(Append(c, Folded(s[q + 1]))) = Len(c) + 1 /\ Len(c) \in Nat
    BY <2>9
  <2> QED
    BY <2>8, <2>10, <2>11 DEF Extends
<1> QED
  BY <1>9, <1>11, <1>12 DEF Under, p, q

-------------------------------------------------------------------------------
(* Both directions, and the same verdict on both sides.                      *)
LEMMA Agreement ==
  ASSUME path \in Seq(Chars), roots \subseteq AnyRoots
  PROVE  PathRulesAgree
<1>1. ASSUME NEW r \in roots PROVE path # <<>> \/ ~ Under(path, r) 
  <2>1. StopOf(r) >= 1
    BY <1>1, RootStop
  <2>2. path = <<>> => StopOf(path) = 0
    <3>1. StopOf(path) \in 0..Len(path)
      BY NormalIs
    <3> QED
      BY <3>1
  <2> QED
    BY <2>1, <2>2, NormalIs, RootStop DEF Under
<1>2. \A r \in roots : r \in Seq(Chars) /\ (Below(normalized(path), normalized(r)) <=> Under(path, r))
  BY BelowIs DEF AnyRoots
<1>3. AcceptedIsInside
  BY <1>2, UnderIsInside DEF AcceptedIsInside, requirePath, isPathUnderAllowedRoot, ClimbsOut
<1>4. InsideIsAccepted
  BY <1>1, <1>2, InsideIsUnder DEF InsideIsAccepted, requirePath, isPathUnderAllowedRoot, ClimbsOut
<1>5. SameVerdict
  BY DEF SameVerdict, requirePath, isPathUnderAllowedRoot, ClimbsOut, IsUnderAllowedRoot, Below, Normalize
<1> QED
  BY <1>3, <1>4, <1>5 DEF PathRulesAgree

\* The shape of the variables, without the bounds of the runs.
PathTyped == path \in Seq(Chars) /\ roots \subseteq AnyRoots

(* A path that the server accepts lies inside an allowed root, no ordinary   *)
(* path inside one is turned away, and the server and the Agent never        *)
(* disagree, whatever the lengths of the path and of the roots.              *)
THEOREM PathsAgree == PathSpec => []PathRulesAgree
<1>1. PathInit => PathTyped
  <2>1. RootNames \subseteq AnyRoots
    BY AllowedPathsAssumption DEF RootNames, AnyRoots
  <2> QED
    BY <2>1 DEF PathInit, PathTyped
<1>2. PathTyped /\ [PathNext]_pathVars => PathTyped'
  BY DEF PathTyped, PathNext, Add, pathVars
<1>3. PathTyped => PathRulesAgree
  BY Agreement DEF PathTyped
<1> QED
  BY <1>1, <1>2, <1>3, PTL DEF PathSpec
=============================================================================
