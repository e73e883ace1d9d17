----------------------------- MODULE PortalProofs -----------------------------
(***************************************************************************)
(* Proofs about UploadPortal, for any number of uploads, files, clients,   *)
(* units and transfers.                                                    *)
(*                                                                         *)
(* PortalInv holds without a condition.  An upload's lock has one holder   *)
(* at most, so what a handler waits on (Sound) is its own to change: its   *)
(* row is there, and its chunk fits the file.                              *)
(*                                                                         *)
(* The sources and the jobs need a condition.  Cleanup decides on a record *)
(* that it may have read long before it took the lock.  As long as such a  *)
(* record is still the row (RecordsCurrent), TraceInv holds: each stage    *)
(* tells what its upload has come to (Staged), each id accounts for its    *)
(* engine job (JobKept), and no file goes under its reader (Undisturbed).  *)
(* A portal that removes one record at a time meets the condition.         *)
(***************************************************************************)
EXTENDS UploadPortal, SequenceTheorems, FiniteSetTheorems, TLAPS

\* The table.
TableOK ==
  /\ issued \in 0..MaxUploads /\ DOMAIN rows \subseteq 1..issued
  /\ rows \in [DOMAIN rows -> Row]
  /\ order \in Seq(DOMAIN rows) /\ IsInjective(order) /\ Range(order) = DOMAIN rows

LEMMA WithoutTyped ==
  ASSUME TableOK, NEW u
  PROVE  /\ Without(u) \in Seq(DOMAIN rows \ {u})
         /\ IsInjective(Without(u))
         /\ Range(Without(u)) = DOMAIN rows \ {u}
<1>1. order \in Seq(DOMAIN rows) /\ IsInjective(order) /\ Range(order) = DOMAIN rows
  BY DEF TableOK
<1>2. CASE u \notin Range(order)
  <2>1. Without(u) = order
    BY <1>2 DEF Without
  <2>2. DOMAIN rows \ {u} = DOMAIN rows
    BY <1>1, <1>2
  <2> QED BY <1>1, <2>1, <2>2
<1>3. CASE u \in Range(order)
  <2> DEFINE k == CHOOSE i \in DOMAIN order : order[i] = u
  <2>1. k \in DOMAIN order /\ order[k] = u
    BY <1>3 DEF Range
  <2>2. Without(u) = SubSeq(order, 1, k - 1) \o SubSeq(order, k + 1, Len(order))
    BY <1>3 DEF Without, RemoveAt
  <2> HIDE DEF k
  <2> DEFINE n == Len(order)
             a == SubSeq(order, 1, k - 1)
             b == SubSeq(order, k + 1, n)
             w == a \o b
  <2>3. n \in Nat /\ DOMAIN order = 1..n /\ k \in 1..n
    BY <1>1, <2>1, LenProperties
  <2>4. /\ a \in Seq(DOMAIN rows) /\ Len(a) = k - 1
        /\ \A i \in 1..k - 1 : a[i] = order[i]
    <3>1. \A i \in 1..k - 1 : order[i] \in DOMAIN rows
      BY <1>1, <2>3 DEF Range
    <3>2. /\ a \in Seq(DOMAIN rows)
          /\ Len(a) = IF 1 <= k - 1 THEN k - 1 - 1 + 1 ELSE 0
          /\ \A i \in 1..k - 1 - 1 + 1 : a[i] = order[1 + i - 1]
      BY <2>3, <3>1, SubSeqProperties
    <3>3. ASSUME NEW i \in 1..k - 1 PROVE a[i] = order[i]
      <4>1. i \in 1..k - 1 - 1 + 1 /\ 1 + i - 1 = i
        BY <2>3
      <4> HIDE DEF a
      <4> QED BY <3>2, <4>1
    <3> HIDE DEF a
    <3> QED BY <2>3, <3>2, <3>3
  <2>5. /\ b \in Seq(DOMAIN rows) /\ Len(b) = n - k
        /\ \A i \in 1..n - k : b[i] = order[k + i]
    <3>1. \A i \in k + 1..n : order[i] \in DOMAIN rows
      BY <1>1, <2>3 DEF Range
    <3>2. /\ b \in Seq(DOMAIN rows)
          /\ Len(b) = IF k + 1 <= n THEN n - (k + 1) + 1 ELSE 0
          /\ \A i \in 1..n - (k + 1) + 1 : b[i] = order[k + 1 + i - 1]
      BY <2>3, <3>1, SubSeqProperties
    <3>3. ASSUME NEW i \in 1..n - k PROVE b[i] = order[k + i]
      <4>1. i \in 1..n - (k + 1) + 1 /\ k + 1 + i - 1 = k + i
        BY <2>3
      <4> HIDE DEF b
      <4> QED BY <3>2, <4>1
    <3> HIDE DEF b
    <3> HIDE DEF n
    <3>4. CASE k = n
      BY <2>3, <3>2, <3>3, <3>4
    <3>5. CASE k + 1 <= n
      BY <2>3, <3>2, <3>3, <3>5
    <3> QED BY <2>3, <3>4, <3>5
  <2> HIDE DEF a, b
  <2>6. /\ w \in Seq(DOMAIN rows) /\ Len(w) = n - 1
        /\ \A i \in 1..n - 1 : w[i] = IF i < k THEN order[i] ELSE order[i + 1]
    <3>1. /\ w \in Seq(DOMAIN rows) /\ Len(w) = Len(a) + Len(b)
          /\ \A i \in 1..Len(a) + Len(b) : w[i] = IF i <= Len(a) THEN a[i] ELSE b[i - Len(a)]
      BY <2>4, <2>5, ConcatProperties
    <3> HIDE DEF w
    <3>2. Len(a) + Len(b) = n - 1
      BY <2>3, <2>4, <2>5
    <3>3. ASSUME NEW i \in 1..n - 1 PROVE w[i] = IF i < k THEN order[i] ELSE order[i + 1]
      <4>1. CASE i < k
        <5>1. i \in 1..Len(a) + Len(b) /\ i <= Len(a) /\ i \in 1..k - 1
          BY <2>3, <2>4, <3>2, <4>1
        <5> QED BY <2>4, <3>1, <4>1, <5>1
      <4>2. CASE ~ (i < k)
        <5>1. w[i] = b[i - (k - 1)] /\ i - (k - 1) \in 1..n - k
          BY <2>3, <2>4, <3>1, <3>2, <4>2
        <5>2. b[i - (k - 1)] = order[k + (i - (k - 1))]
          BY <2>5, <5>1
        <5>3. k + (i - (k - 1)) = i + 1
          BY <2>3
        <5> QED BY <4>2, <5>1, <5>2, <5>3
      <4> QED BY <4>1, <4>2
    <3> QED BY <3>1, <3>2, <3>3
  <2> HIDE DEF w
  <2>7. DOMAIN w = 1..n - 1
    BY <2>3, <2>6, LenProperties
  <2> HIDE DEF n
  <2>8. n - 1 \in Int /\ \A i \in 1..n - 1 : i \in 1..n /\ i + 1 \in 1..n /\ (i < k => i # k) /\ (~ (i < k) => i + 1 # k)
    BY <2>3
  <2>9. \A i, j \in 1..n : order[i] = order[j] => i = j
    BY <1>1, <2>3 DEF IsInjective
  <2>10. \A i \in 1..n : order[i] \in DOMAIN rows
    BY <1>1, <2>3 DEF Range
  <2>11. \A i \in 1..n - 1 : w[i] # u /\ w[i] \in DOMAIN rows
    <3> SUFFICES ASSUME NEW i \in 1..n - 1 PROVE w[i] # u /\ w[i] \in DOMAIN rows
      OBVIOUS
    <3>1. CASE i < k
      BY <2>1, <2>3, <2>6, <2>8, <2>9, <2>10, <3>1
    <3>2. CASE ~ (i < k)
      BY <2>1, <2>3, <2>6, <2>8, <2>9, <2>10, <3>2
    <3> QED BY <3>1, <3>2
  <2>12. w \in Seq(DOMAIN rows \ {u})
    BY <2>3, <2>6, <2>7, <2>11, ElementOfSeq
  <2>13. IsInjective(w)
    <3> SUFFICES ASSUME NEW i \in 1..n - 1, NEW j \in 1..n - 1, w[i] = w[j] PROVE i = j
      BY <2>7 DEF IsInjective
    <3>1. w[i] = order[IF i < k THEN i ELSE i + 1] /\ w[j] = order[IF j < k THEN j ELSE j + 1]
      BY <2>6
    <3>2. (IF i < k THEN i ELSE i + 1) = (IF j < k THEN j ELSE j + 1)
      BY <2>8, <2>9, <3>1
    <3> QED BY <2>3, <3>2
  <2>14. ASSUME NEW v \in DOMAIN rows \ {u} PROVE v \in Range(w)
    <3>1. PICK i \in 1..n : order[i] = v
      BY <1>1, <2>3 DEF Range
    <3>2. i # k
      BY <2>1, <2>14, <3>1
    <3>3. CASE i < k
      BY <2>3, <2>6, <2>7, <3>1, <3>3 DEF Range
    <3>4. CASE i > k
      <4>1. i - 1 \in 1..n - 1 /\ ~ (i - 1 < k) /\ i - 1 + 1 = i
        BY <2>3, <3>4
      <4>2. w[i - 1] = v
        BY <2>6, <3>1, <4>1
      <4> QED BY <2>7, <4>1, <4>2 DEF Range
    <3> QED BY <2>3, <3>2, <3>3, <3>4
  <2>15. Range(w) = DOMAIN rows \ {u}
    BY <2>7, <2>11, <2>14 DEF Range
  <2> QED BY <2>2, <2>12, <2>13, <2>15 DEF w, a, b, n
<1> QED BY <1>2, <1>3

\* An UPDATE keeps the table well formed and every other row as it is.
LEMMA UpdateTyped ==
  ASSUME TableOK, NEW u \in DOMAIN rows, NEW row \in Row, Update(u, row)
  PROVE  /\ TableOK'
         /\ DOMAIN rows' = DOMAIN rows
         /\ rows'[u] = row
         /\ \A v \in DOMAIN rows \ {u} : rows'[v] = rows[v]
<1> DEFINE w == Without(u)
<1>1. /\ w \in Seq(DOMAIN rows \ {u}) /\ IsInjective(w)
      /\ Range(w) = DOMAIN rows \ {u}
  BY WithoutTyped
<1>2. /\ rows' = [rows EXCEPT ![u] = row] /\ order' = Append(w, u) /\ issued' = issued
  BY DEF Update
<1> HIDE DEF w
<1>3. /\ DOMAIN rows' = DOMAIN rows /\ rows'[u] = row
      /\ \A v \in DOMAIN rows \ {u} : rows'[v] = rows[v]
      /\ rows' \in [DOMAIN rows' -> Row]
  BY <1>2 DEF TableOK
<1>4. /\ Len(w) \in Nat /\ DOMAIN w = 1..Len(w)
  BY <1>1, LenProperties
<1>5. /\ order' \in Seq(DOMAIN rows) /\ DOMAIN order' = 1..Len(w) + 1
      /\ \A i \in 1..Len(w) : order'[i] = w[i]
      /\ order'[Len(w) + 1] = u
  <2>1. w \in Seq(DOMAIN rows)
    BY <1>1
  <2> QED BY <1>2, <1>4, <2>1, AppendProperties
<1>6. IsInjective(order')
  <2>1. \A i \in 1..Len(w) : w[i] # u
    BY <1>1, <1>4 DEF Range
  <2> QED BY <1>1, <1>4, <1>5, <2>1 DEF IsInjective
<1>7. Range(order') = DOMAIN rows
  <2>1. Range(order') = Range(w) \cup {u}
    BY <1>4, <1>5 DEF Range
  <2> QED BY <1>1, <2>1
<1> QED BY <1>2, <1>3, <1>5, <1>6, <1>7 DEF TableOK

------------------------------------------------------------------------------
(* The handlers, whatever the batches.                                     *)

FilesOK == part \in [Ids -> Seq(Units)] /\ source \in [Ids -> Seq(Units)]

\* Only a finished job is claimed, and a job that never was has no claim.
EngineOK ==
  /\ engine \in [Ids -> EngineJob]
  /\ \A u \in Ids : /\ engine[u].claimed => engine[u].status \in {"COMPLETED", "FAILED"}
                    /\ engine[u].status = "none" => engine[u] = NoEngineJob

LateOK == late \subseteq [op: Effective, u: Ids]

HandlersOK == handlers \in [Slots -> Working \cup {Idle, Expire}]

\* Two handlers never hold the lock of the same upload.
Exclusion ==
  \A s, t \in Slots : Locks(s) /\ Locks(t) /\ Upload(s) = Upload(t) => s = t

\* The stages at which a handler goes on to write its row.
Writers == {"open", "writing", "check", "ready", "submit", "create", "created"}

\* What a handler may rely on while it waits.
Sound(s) ==
  /\ Busy(s) => /\ Upload(s) <= issued
                /\ \A i \in DOMAIN handlers[s].rest : handlers[s].rest[i].u <= issued
  /\ At(s, Writers) => Upload(s) \in DOMAIN rows
  /\ At(s, {"open", "writing"}) => rows[Upload(s)].offset + handlers[s].n <= Size
  /\ At(s, {"writing"}) => /\ Len(part[Upload(s)]) >= rows[Upload(s)].offset
                           /\ Received(Upload(s)) <= handlers[s].n

\* An id not given out has left no trace.
Blank ==
  \A u \in Ids : u > issued => /\ part[u] = <<>> /\ source[u] = <<>> /\ engine[u] = NoEngineJob
                               /\ \A op \in Effective : [op |-> op, u |-> u] \notin late

Handling == HandlersOK /\ Exclusion /\ \A s \in Slots : Sound(s)

PortalInv == TableOK /\ FilesOK /\ EngineOK /\ LateOK /\ Handling /\ Blank /\ CommittedIntact

\* A busy handler has a stage, an item and a rest.
LEMMA BusyTyped ==
  ASSUME HandlersOK, NEW s \in Slots
  PROVE  /\ Busy(s) <=> handlers[s] \in Working
         /\ Busy(s) <=> At(s, Stages)
         /\ Busy(s) => /\ handlers[s].at \in Stages /\ handlers[s].item \in Item
                       /\ Upload(s) \in Ids /\ handlers[s].n \in 0..Size
                       /\ handlers[s].rest \in Seq(Item)
         /\ ~ Busy(s) => handlers[s].at \in {"idle", "expire"}
<1>1. handlers[s] \in Working \/ handlers[s] = Idle \/ handlers[s] = Expire
  BY DEF HandlersOK
<1>2. Idle.at = "idle" /\ Expire.at = "expire"
  BY DEF Idle, Expire
<1>3. "idle" \notin Stages /\ "expire" \notin Stages
  BY DEF Stages, Local, Serving, Operations, Effective
<1>4. ASSUME handlers[s] \in Working
      PROVE  /\ handlers[s].at \in Stages /\ handlers[s].item \in Item
             /\ Upload(s) \in Ids /\ handlers[s].n \in 0..Size
             /\ handlers[s].rest \in Seq(Item)
  BY <1>4 DEF Working, Upload, Item
<1> QED BY <1>1, <1>2, <1>3, <1>4 DEF Busy, At

\* A handler that is done leaves the others alone.
LEMMA Finished ==
  ASSUME Handling, NEW s \in Slots, NEW h \in {Idle, Expire}, Become(s, h)
  PROVE  /\ HandlersOK' /\ Exclusion'
         /\ handlers'[s] = h /\ \A t \in Slots \ {s} : handlers'[t] = handlers[t]
         /\ Sound(s)'
<1>1. /\ HandlersOK' /\ handlers'[s] = h
      /\ \A t \in Slots \ {s} : handlers'[t] = handlers[t]
  BY DEF Handling, HandlersOK, Become
<1>2. ~ Busy(s)'
  BY <1>1 DEF Busy
<1>3. handlers'[s].at \in {"idle", "expire"}
  BY <1>1 DEF Idle, Expire
<1>4. Sound(s)'
  BY <1>2, <1>3 DEF Sound, At, Writers
<1>5. Exclusion'
  BY <1>1, <1>2 DEF Handling, Exclusion, Locks, Busy, At, Upload
<1> QED BY <1>1, <1>4, <1>5

\* A handler that goes to its next stage keeps its item and its lock.
LEMMA Advanced ==
  ASSUME Handling, NEW s \in Slots, NEW stage \in Stages, Busy(s), Advance(s, stage),
         Locks(s) \/ stage \in Serving
  PROVE  /\ HandlersOK' /\ Exclusion'
         /\ handlers'[s] = [handlers[s] EXCEPT !.at = stage]
         /\ handlers'[s] \in Working
         /\ handlers'[s].at = stage /\ handlers'[s].item = handlers[s].item
         /\ handlers'[s].n = handlers[s].n /\ handlers'[s].rest = handlers[s].rest
         /\ Upload(s)' = Upload(s)
         /\ \A t \in Slots \ {s} : handlers'[t] = handlers[t]
<1>1. HandlersOK /\ Exclusion
  BY DEF Handling
<1>2. handlers[s] \in Working
  BY <1>1, BusyTyped
<1>3. handlers' = [handlers EXCEPT ![s] = [handlers[s] EXCEPT !.at = stage]]
  BY DEF Advance, Become
<1> DEFINE h == [handlers[s] EXCEPT !.at = stage]
<1>4. /\ h \in Working /\ h.at = stage /\ h.item = handlers[s].item
      /\ h.n = handlers[s].n /\ h.rest = handlers[s].rest
  BY <1>2 DEF Working
<1> HIDE DEF h
<1>5. /\ handlers' \in [Slots -> Working \cup {Idle, Expire}] /\ handlers'[s] = h
      /\ \A t \in Slots \ {s} : handlers'[t] = handlers[t]
  BY <1>1, <1>3, <1>4 DEF HandlersOK, h
<1>6. Upload(s)' = Upload(s)
  BY <1>4, <1>5 DEF Upload
<1>7. Locks(s)' => Locks(s)
  BY <1>4, <1>5 DEF Locks, At
<1>8. Exclusion'
  BY <1>1, <1>5, <1>6, <1>7 DEF Exclusion, Locks, Busy, At, Upload
<1> QED BY <1>4, <1>5, <1>6, <1>8 DEF HandlersOK, h

LEMMA Unlocked ==
  ASSUME NEW u, ~ Locked(u)
  PROVE  \A t \in Slots : Locks(t) => Upload(t) # u
BY DEF Locked, Locks, On, Upload

\* A handler that begins takes its lock, or does not need one.
LEMMA Begun ==
  ASSUME Handling, TableOK, NEW s \in Slots, NEW stage \in Stages, NEW u \in DOMAIN rows,
         NEW n \in 0..Size,
         Become(s, Work(stage, Snapshot(u), n, <<>>)),
         \/ \A t \in Slots \ {s} : Locks(t) => Upload(t) # u
         \/ stage \in Serving \cup {"status"}
  PROVE  /\ HandlersOK' /\ Exclusion'
         /\ handlers'[s] = Work(stage, Snapshot(u), n, <<>>)
         /\ handlers'[s] \in Working
         /\ handlers'[s].at = stage /\ handlers'[s].item = Snapshot(u)
         /\ handlers'[s].n = n /\ handlers'[s].rest = <<>>
         /\ Upload(s)' = u
         /\ \A t \in Slots \ {s} : handlers'[t] = handlers[t]
<1>1. HandlersOK /\ Exclusion
  BY DEF Handling
<1>2. Snapshot(u) \in Item /\ Snapshot(u).u = u
  <2>1. u \in Ids /\ u <= issued
    BY PortalAssumption DEF TableOK, Ids
  <2>2. rows[u] \in Row
    BY DEF TableOK
  <2>3. rows[u].state \in States /\ rows[u].job \in BOOLEAN
    BY <2>2 DEF Row
  <2> QED BY <2>1, <2>3 DEF Snapshot, Item
<1> DEFINE h == Work(stage, Snapshot(u), n, <<>>)
<1>3. /\ h \in Working /\ h.at = stage /\ h.item = Snapshot(u)
      /\ h.n = n /\ h.rest = <<>>
  BY <1>2 DEF Working, Work
<1> HIDE DEF h
<1>4. /\ handlers' \in [Slots -> Working \cup {Idle, Expire}] /\ handlers'[s] = h
      /\ \A t \in Slots \ {s} : handlers'[t] = handlers[t]
  BY <1>1, <1>3 DEF HandlersOK, Become, h
<1>5. Upload(s)' = u
  BY <1>2, <1>3, <1>4 DEF Upload
<1>6. \A t \in Slots \ {s} : Locks(s)' /\ Locks(t) => Upload(t) # u
  BY <1>3, <1>4 DEF Locks, At
<1>7. Exclusion'
  BY <1>1, <1>4, <1>5, <1>6 DEF Exclusion, Locks, Busy, At, Upload
<1> QED BY <1>3, <1>4, <1>5, <1>7 DEF HandlersOK, h

\* A handler that takes its next item locks it; one that has none left is done.
LEMMA Taken ==
  ASSUME Handling, NEW s \in Slots, NEW rest \in Seq(Item), NextItem(s, rest),
         \A i \in DOMAIN rest : rest[i].u <= issued, issued' = issued
  PROVE  /\ HandlersOK' /\ Exclusion' /\ Sound(s)'
         /\ \A t \in Slots \ {s} : handlers'[t] = handlers[t]
         /\ \/ handlers'[s] = Idle
            \/ \E i \in DOMAIN rest :
                 /\ handlers'[s] = Work(IF s = Maintenance THEN "remove" ELSE "access",
                                        rest[i], 0, SubSeq(rest, i + 1, Len(rest)))
                 /\ handlers'[s] \in Working
                 /\ \A t \in Slots \ {s} : Locks(t) => Upload(t) # rest[i].u
<1>1. HandlersOK /\ Exclusion
  BY DEF Handling
<1>2. CASE Become(s, Idle)
  BY <1>2, Finished
<1>3. ASSUME NEW i \in DOMAIN rest,
             \A t \in Slots \ {s} : ~ (Locks(t) /\ On(t, rest[i].u)),
             Become(s, Work(IF s = Maintenance THEN "remove" ELSE "access",
                            rest[i], 0, SubSeq(rest, i + 1, Len(rest))))
      PROVE  /\ HandlersOK' /\ Exclusion' /\ Sound(s)'
             /\ \A t \in Slots \ {s} : handlers'[t] = handlers[t]
             /\ handlers'[s] = Work(IF s = Maintenance THEN "remove" ELSE "access",
                                    rest[i], 0, SubSeq(rest, i + 1, Len(rest)))
             /\ handlers'[s] \in Working
             /\ \A t \in Slots \ {s} : Locks(t) => Upload(t) # rest[i].u
  <2> DEFINE left == SubSeq(rest, i + 1, Len(rest))
             stage == IF s = Maintenance THEN "remove" ELSE "access"
             h == Work(stage, rest[i], 0, left)
  <2>1. /\ Len(rest) \in Nat /\ DOMAIN rest = 1..Len(rest) /\ i \in 1..Len(rest)
        /\ \A j \in 1..Len(rest) : rest[j] \in Item
    BY LenProperties, ElementOfSeq
  <2>2. /\ left \in Seq(Item)
        /\ \A j \in 1..Len(rest) - (i + 1) + 1 : left[j] = rest[i + 1 + j - 1]
        /\ Len(left) = IF i + 1 <= Len(rest) THEN Len(rest) - (i + 1) + 1 ELSE 0
    BY <2>1, SubSeqProperties
  <2> HIDE DEF left
  <2>3. \A j \in DOMAIN left : left[j].u <= issued
    <3>1. DOMAIN left = 1..Len(left) /\ Len(left) \in Nat
      BY <2>2, LenProperties
    <3>2. ASSUME NEW j \in DOMAIN left PROVE left[j].u <= issued
      <4>1. j \in 1..Len(rest) - (i + 1) + 1 /\ i + 1 + j - 1 \in 1..Len(rest)
        BY <2>1, <2>2, <3>1
      <4> QED BY <2>1, <2>2, <4>1
    <3> QED BY <3>2
  <2>4. stage \in {"remove", "access"}
    OBVIOUS
  <2> HIDE DEF stage
  <2>5. /\ h \in Working /\ h.at = stage /\ h.item = rest[i] /\ h.rest = left
    <3>1. stage \in Stages
      BY <2>4 DEF Stages, Local
    <3>2. 0 \in 0..Size
      BY PortalAssumption
    <3> QED BY <2>1, <2>2, <3>1, <3>2 DEF Working, Work
  <2> HIDE DEF h
  <2>6. /\ handlers' \in [Slots -> Working \cup {Idle, Expire}] /\ handlers'[s] = h
        /\ \A t \in Slots \ {s} : handlers'[t] = handlers[t]
    BY <1>1, <1>3, <2>5 DEF HandlersOK, Become, h, stage, left
  <2>7. Upload(s)' = rest[i].u
    BY <2>5, <2>6 DEF Upload
  <2>8. \A t \in Slots \ {s} : Locks(t) => Upload(t) # rest[i].u
    BY <1>3 DEF Locks, On, Upload
  <2>9. Exclusion'
    BY <1>1, <2>6, <2>7, <2>8 DEF Exclusion, Locks, Busy, At, Upload
  <2>10. Sound(s)'
    <3>1. ~ At(s, Writers)' /\ ~ At(s, {"open", "writing"})' /\ ~ At(s, {"writing"})'
      BY <2>4, <2>5, <2>6 DEF At, Writers
    <3> QED BY <2>1, <2>3, <2>5, <2>6, <2>7, <3>1 DEF Sound
  <2> QED BY <2>5, <2>6, <2>8, <2>9, <2>10 DEF HandlersOK, h, stage, left
<1> QED BY <1>2, <1>3 DEF NextItem

\* A step of handler s that leaves table and files alone disturbs no other.
LEMMA OthersAlone ==
  ASSUME Handling, NEW s \in Slots, UNCHANGED <<rows, issued, part>>,
         \A t \in Slots \ {s} : handlers'[t] = handlers[t]
  PROVE  \A t \in Slots \ {s} : Sound(t)'
BY DEF Handling, Sound, Busy, At, Upload, Received

\* Nor does one that touches only the upload it holds.
LEMMA OthersSpared ==
  ASSUME Handling, TableOK, FilesOK, NEW s \in Slots, NEW u, issued' = issued,
         \A v \in DOMAIN rows \ {u} : v \in DOMAIN rows' /\ rows'[v] = rows[v],
         \A v \in Ids \ {u} : part'[v] = part[v],
         \A t \in Slots \ {s} : handlers'[t] = handlers[t],
         \A t \in Slots \ {s} : Locks(t) => Upload(t) # u
  PROVE  \A t \in Slots \ {s} : Sound(t)'
<1> SUFFICES ASSUME NEW t \in Slots \ {s} PROVE Sound(t)'
  OBVIOUS
<1>1. Sound(t) /\ HandlersOK /\ handlers'[t] = handlers[t]
  BY DEF Handling
<1>2. /\ Busy(t)' <=> Busy(t)
      /\ Upload(t)' = Upload(t)
      /\ handlers'[t].rest = handlers[t].rest /\ handlers'[t].n = handlers[t].n
      /\ \A stages : At(t, stages)' <=> handlers[t].at \in stages
  BY <1>1 DEF Busy, Upload, At
<1>3. ASSUME At(t, Writers)
      PROVE  /\ Upload(t) \in DOMAIN rows' /\ rows'[Upload(t)] = rows[Upload(t)]
             /\ part'[Upload(t)] = part[Upload(t)]
  <2>1. Locks(t)
    BY <1>1, <1>3, BusyTyped DEF Locks, At, Writers, Serving, Stages, Local, Operations, Effective
  <2>2. Upload(t) # u
    BY <2>1
  <2>3. Upload(t) \in DOMAIN rows /\ Upload(t) \in Ids
    BY <1>1, <1>3, <2>1, BusyTyped DEF Sound, Locks
  <2> QED BY <2>2, <2>3
<1>4. At(t, {"open", "writing"}) => At(t, Writers)
  BY DEF At, Writers
<1>5. At(t, {"writing"}) => At(t, {"open", "writing"})
  BY DEF At
<1> QED BY <1>1, <1>2, <1>3, <1>4, <1>5 DEF Sound, At, Received

\* The upload a handler holds is held by no other.
LEMMA HeldAlone ==
  ASSUME Handling, NEW s \in Slots, Locks(s)
  PROVE  \A t \in Slots \ {s} : Locks(t) => Upload(t) # Upload(s)
BY DEF Handling, Exclusion

\* The table, the files, the engine and the late requests stay as they are.
LEMMA UntouchedKept ==
  ASSUME PortalInv, UNCHANGED <<rows, order, issued, part, source>>
  PROVE  TableOK' /\ FilesOK' /\ CommittedIntact'
BY DEF PortalInv, TableOK, FilesOK, CommittedIntact

LEMMA EngineKept ==
  ASSUME PortalInv, UNCHANGED <<issued, engine, late, part, source>>
  PROVE  EngineOK' /\ LateOK' /\ Blank'
BY DEF PortalInv, EngineOK, LateOK, Blank

------------------------------------------------------------------------------
(* The engine and the portal's requests to it.                             *)

\* A request to the engine about an issued id.
LEMMA ServeKept ==
  ASSUME PortalInv, NEW op \in Operations, NEW u \in Ids, u <= issued, Serve(op, u),
         UNCHANGED <<issued, part, source>>, late' \subseteq late
  PROVE  EngineOK' /\ LateOK' /\ Blank'
<1>1. engine \in [Ids -> EngineJob] /\ engine[u] \in EngineJob
  BY DEF PortalInv, EngineOK
<1>2. engine[u].claimed => engine[u].status \in {"COMPLETED", "FAILED"}
  BY DEF PortalInv, EngineOK
<1>3. engine[u].status = "none" => engine[u] = NoEngineJob
  BY DEF PortalInv, EngineOK
<1> DEFINE e == Served(op, u)
<1>4. /\ e \in EngineJob
      /\ e.claimed => e.status \in {"COMPLETED", "FAILED"}
      /\ e.status = "none" => e = NoEngineJob
  <2>1. CASE op = "create" /\ engine[u] = NoEngineJob
    <3>1. e = [status |-> "ACTIVE", live |-> TRUE, claimed |-> FALSE]
      BY <2>1 DEF Served
    <3> HIDE DEF e
    <3> QED BY <3>1 DEF EngineJob
  <2>2. CASE op = "claim" /\ Accepted(op, u)
    <3>1. e = [engine[u] EXCEPT !.claimed = TRUE]
      BY <2>2 DEF Served
    <3>2. engine[u].status \in {"COMPLETED", "FAILED"}
      BY <2>2 DEF Accepted
    <3> HIDE DEF e
    <3> QED BY <1>1, <3>1, <3>2 DEF EngineJob
  <2>3. CASE op = "cancel" /\ engine[u].live /\ engine[u].status = "ACTIVE"
    <3>1. e = [engine[u] EXCEPT !.status = "CANCELLED"]
      BY <2>3 DEF Served
    <3> HIDE DEF e
    <3> QED BY <1>1, <1>2, <2>3, <3>1 DEF EngineJob
  <2>4. CASE /\ ~ (op = "create" /\ engine[u] = NoEngineJob)
             /\ ~ (op = "claim" /\ Accepted(op, u))
             /\ ~ (op = "cancel" /\ engine[u].live /\ engine[u].status = "ACTIVE")
    <3>1. e = engine[u]
      BY <2>4 DEF Served
    <3> HIDE DEF e
    <3> QED BY <1>1, <1>2, <1>3, <3>1
  <2> QED BY <2>1, <2>2, <2>3, <2>4
<1> HIDE DEF e
<1>5. engine' = [engine EXCEPT ![u] = e]
  BY DEF Serve, e
<1>6. EngineOK'
  BY <1>1, <1>4, <1>5 DEF PortalInv, EngineOK
<1>7. LateOK'
  BY DEF PortalInv, LateOK
<1>8. Blank'
  <2> SUFFICES ASSUME NEW v \in Ids, v > issued
               PROVE  /\ part[v] = <<>> /\ source[v] = <<>> /\ engine'[v] = NoEngineJob
                      /\ \A o \in Effective : [op |-> o, u |-> v] \notin late
    BY DEF Blank
  <2>1. v # u
    BY PortalAssumption DEF PortalInv, TableOK, Ids
  <2> QED BY <1>1, <1>5, <2>1 DEF PortalInv, Blank
<1> QED BY <1>6, <1>7, <1>8

\* What the engine's own users do to an issued job.
LEMMA EngineMovesInv ==
  ASSUME PortalInv, NEW u \in Ids, EngineMoves(u)
  PROVE  PortalInv'
<1>1. UNCHANGED <<rows, order, issued, part, source, late, handlers>>
  BY DEF EngineMoves, table, files
<1>2. engine \in [Ids -> EngineJob] /\ engine[u] \in EngineJob
  BY DEF PortalInv, EngineOK
<1>3. PICK e \in EngineJob :
        /\ engine' = [engine EXCEPT ![u] = e]
        /\ e.claimed => e.status \in {"COMPLETED", "FAILED"}
        /\ e.status # "none" /\ engine[u].status # "none"
  <2>1. engine[u].claimed => engine[u].status \in {"COMPLETED", "FAILED"}
    BY DEF PortalInv, EngineOK
  <2>2. CASE /\ engine[u].status = "ACTIVE"
             /\ \E end \in {"COMPLETED", "FAILED", "CANCELLED"} :
                  engine' = [engine EXCEPT ![u].status = end]
    <3>1. PICK end \in {"COMPLETED", "FAILED", "CANCELLED"} :
            engine' = [engine EXCEPT ![u].status = end]
      BY <2>2
    <3>2. engine' = [engine EXCEPT ![u] = [engine[u] EXCEPT !.status = end]]
      BY <3>1
    <3>3. /\ [engine[u] EXCEPT !.status = end] \in EngineJob
          /\ [engine[u] EXCEPT !.status = end].claimed = engine[u].claimed
          /\ [engine[u] EXCEPT !.status = end].status = end
      BY <1>2 DEF EngineJob
    <3> QED BY <2>1, <2>2, <3>2, <3>3
  <2>3. CASE /\ engine[u].status = "FAILED" /\ engine[u].live /\ ~ engine[u].claimed
             /\ engine' = [engine EXCEPT ![u].status = "ACTIVE"]
    <3>1. engine' = [engine EXCEPT ![u] = [engine[u] EXCEPT !.status = "ACTIVE"]]
      BY <2>3
    <3>2. /\ [engine[u] EXCEPT !.status = "ACTIVE"] \in EngineJob
          /\ [engine[u] EXCEPT !.status = "ACTIVE"].claimed = engine[u].claimed
          /\ [engine[u] EXCEPT !.status = "ACTIVE"].status = "ACTIVE"
      BY <1>2 DEF EngineJob
    <3> QED BY <2>3, <3>1, <3>2
  <2>4. CASE /\ engine[u].status \in {"COMPLETED", "FAILED", "CANCELLED"} /\ engine[u].live
             /\ engine' = [engine EXCEPT ![u].live = FALSE]
    <3>1. engine' = [engine EXCEPT ![u] = [engine[u] EXCEPT !.live = FALSE]]
      BY <2>4
    <3>2. /\ [engine[u] EXCEPT !.live = FALSE] \in EngineJob
          /\ [engine[u] EXCEPT !.live = FALSE].claimed = engine[u].claimed
          /\ [engine[u] EXCEPT !.live = FALSE].status = engine[u].status
      BY <1>2 DEF EngineJob
    <3> QED BY <2>1, <2>4, <3>1, <3>2
  <2> QED BY <2>2, <2>3, <2>4 DEF EngineMoves
<1>4. EngineOK'
  BY <1>2, <1>3 DEF PortalInv, EngineOK
<1>5. Blank'
  <2>1. engine[u] # NoEngineJob
    BY <1>3 DEF NoEngineJob
  <2>2. ~ (u > issued)
    BY <2>1 DEF PortalInv, Blank
  <2>3. \A v \in Ids : v > issued => engine'[v] = engine[v]
    BY <1>2, <1>3, <2>2
  <2> QED BY <1>1, <2>3 DEF PortalInv, Blank
<1>6. Handling'
  BY <1>1 DEF PortalInv, Handling, HandlersOK, Exclusion, Sound, Locks, Busy, At, Upload, Received
<1> QED BY <1>1, <1>4, <1>5, <1>6, UntouchedKept DEF PortalInv, LateOK

LEMMA ServeLateInv ==
  ASSUME PortalInv, NEW request \in late, ServeLate(request)
  PROVE  PortalInv'
<1>1. /\ UNCHANGED <<rows, order, issued, part, source, handlers>>
      /\ late' \subseteq late /\ Serve(request.op, request.u)
  BY DEF ServeLate, table, files
<1>2. /\ request.op \in Effective /\ request.u \in Ids
      /\ request = [op |-> request.op, u |-> request.u]
  BY DEF PortalInv, LateOK
<1>3. request.u <= issued
  <2>1. ~ (request.u > issued)
    BY <1>2 DEF PortalInv, Blank
  <2> QED BY <1>2, <2>1, PortalAssumption DEF PortalInv, TableOK, Ids
<1>4. EngineOK' /\ LateOK' /\ Blank'
  BY <1>1, <1>2, <1>3, ServeKept DEF Operations
<1>5. Handling'
  BY <1>1 DEF PortalInv, Handling, HandlersOK, Exclusion, Sound, Locks, Busy, At, Upload, Received
<1> QED BY <1>1, <1>4, <1>5, UntouchedKept DEF PortalInv

\* Requests given up on are about issued ids.
LEMMA GivenUpKept ==
  ASSUME PortalInv, NEW slots \in SUBSET Slots, NEW sent \in SUBSET GivenUp(slots),
         late' = late \cup sent, UNCHANGED <<issued, part, source, engine>>
  PROVE  EngineOK' /\ LateOK' /\ Blank'
<1>1. ASSUME NEW r \in sent
      PROVE  \E s \in slots : /\ r = [op |-> handlers[s].at, u |-> Upload(s)]
                              /\ handlers[s].at \in Effective
                              /\ Upload(s) \in Ids /\ Upload(s) <= issued
  <2>1. PICK s \in slots : At(s, Effective) /\ r = [op |-> handlers[s].at, u |-> Upload(s)]
    BY <1>1 DEF GivenUp
  <2>2. Busy(s)
    BY <2>1, BusyTyped DEF At, Stages, Operations, PortalInv, Handling
  <2> QED BY <2>1, <2>2, BusyTyped DEF PortalInv, Handling, Sound, At
<1>2. LateOK'
  BY <1>1 DEF PortalInv, LateOK
<1>3. Blank'
  <2> SUFFICES ASSUME NEW u \in Ids, u > issued, NEW op \in Effective
               PROVE  [op |-> op, u |-> u] \notin sent
    BY DEF PortalInv, Blank
  <2> SUFFICES ASSUME [op |-> op, u |-> u] \in sent PROVE FALSE
    OBVIOUS
  <2>1. PICK s \in slots : /\ [op |-> op, u |-> u] = [op |-> handlers[s].at, u |-> Upload(s)]
                           /\ Upload(s) \in Ids /\ Upload(s) <= issued
    BY <1>1
  <2>2. u = Upload(s)
    BY <2>1
  <2> QED BY <2>1, <2>2, PortalAssumption DEF PortalInv, TableOK, Ids
<1> QED BY <1>2, <1>3 DEF PortalInv, EngineOK

\* A handler that comes to its end, by an error or not.
LEMMA EndedHandling ==
  ASSUME PortalInv, NEW s \in Slots, NEW h \in {Idle, Expire}, Become(s, h),
         UNCHANGED <<rows, issued, part>>
  PROVE  Handling'
<1>1. /\ HandlersOK' /\ Exclusion' /\ Sound(s)'
      /\ \A t \in Slots \ {s} : handlers'[t] = handlers[t]
  BY Finished DEF PortalInv
<1>2. \A t \in Slots \ {s} : Sound(t)'
  BY <1>1, OthersAlone DEF PortalInv
<1> QED BY <1>1, <1>2 DEF Handling

LEMMA NextItemHandling ==
  ASSUME PortalInv, NEW s \in Slots, NEW rest \in Seq(Item), NextItem(s, rest),
         \A i \in DOMAIN rest : rest[i].u <= issued, UNCHANGED <<rows, issued, part>>
  PROVE  Handling'
<1>1. /\ HandlersOK' /\ Exclusion' /\ Sound(s)'
      /\ \A t \in Slots \ {s} : handlers'[t] = handlers[t]
  BY Taken DEF PortalInv
<1>2. \A t \in Slots \ {s} : Sound(t)'
  BY <1>1, OthersAlone DEF PortalInv
<1> QED BY <1>1, <1>2 DEF Handling

\* Abandon, case by case.
LEMMA AbandonCases ==
  ASSUME NEW s \in Slots, Abandon(s)
  PROVE  \/ Become(s, Idle)
         \/ s = Maintenance /\ Become(s, Expire)
         \/ /\ s # Maintenance /\ At(s, {"access", "claim", "remove", "removed"})
            /\ NextItem(s, handlers[s].rest)
BY DEF Abandon

LEMMA AbandonHandling ==
  ASSUME PortalInv, NEW s \in Slots, Busy(s), Abandon(s), UNCHANGED <<rows, issued, part>>
  PROVE  Handling'
<1>1. /\ handlers[s].rest \in Seq(Item)
      /\ \A i \in DOMAIN handlers[s].rest : handlers[s].rest[i].u <= issued
  BY BusyTyped DEF PortalInv, Handling, Sound
<1> QED BY <1>1, AbandonCases, EndedHandling, NextItemHandling

LEMMA FailsInv ==
  ASSUME PortalInv, NEW s \in Slots, Fails(s)
  PROVE  PortalInv'
<1>1. Busy(s)
  BY BusyTyped DEF Fails, At, PortalInv, Handling, Stages, Local, Serving
<1>2. UNCHANGED <<rows, order, issued, part, source, engine, late>> /\ Abandon(s)
  BY DEF Fails, table, files
<1> QED BY <1>1, <1>2, AbandonHandling, UntouchedKept, EngineKept DEF PortalInv

\* A handler with a request under way works on an issued upload.
LEMMA AskingTyped ==
  ASSUME PortalInv, NEW s \in Slots, At(s, Operations)
  PROVE  /\ Busy(s) /\ handlers[s].at \in Operations
         /\ Upload(s) \in Ids /\ Upload(s) <= issued
         /\ Locks(s) \/ handlers[s].at = "status"
<1>1. Busy(s)
  BY BusyTyped DEF At, PortalInv, Handling, Stages
<1> QED BY <1>1, BusyTyped
        DEF At, PortalInv, Handling, Sound, Locks, Operations, Effective, Serving

LEMMA AnsweredInv ==
  ASSUME PortalInv, NEW s \in Slots, Answered(s)
  PROVE  PortalInv'
<1>1. /\ UNCHANGED <<rows, order, issued, part, source, late>>
      /\ At(s, Operations) /\ Serve(handlers[s].at, Upload(s))
  BY DEF Answered, table, files
<1>2. /\ Busy(s) /\ handlers[s].at \in Operations
      /\ Upload(s) \in Ids /\ Upload(s) <= issued
      /\ Locks(s) \/ handlers[s].at = "status"
  BY <1>1, AskingTyped
<1>3. EngineOK' /\ LateOK' /\ Blank'
  BY <1>1, <1>2, ServeKept
<1>4. \/ Become(s, Idle)
      \/ handlers[s].at = "create" /\ Advance(s, "created")
      \/ handlers[s].at = "claim" /\ Advance(s, "remove")
      \/ handlers[s].at = "status" /\ Advance(s, "locate")
  BY <1>2 DEF Answered, Operations, Effective
<1>5. ASSUME NEW stage \in {"created", "remove", "locate"}, Advance(s, stage),
             stage = "created" => handlers[s].at = "create",
             Locks(s) \/ stage = "locate"
      PROVE  Handling'
  <2>1. stage \in Stages /\ (Locks(s) \/ stage \in Serving)
    BY <1>5 DEF Stages, Local, Serving
  <2>2. /\ HandlersOK' /\ Exclusion'
        /\ handlers'[s].at = stage /\ handlers'[s].rest = handlers[s].rest
        /\ Upload(s)' = Upload(s)
        /\ \A t \in Slots \ {s} : handlers'[t] = handlers[t]
    BY <1>2, <1>5, <2>1, Advanced DEF PortalInv
  <2>3. \A t \in Slots \ {s} : Sound(t)'
    BY <1>1, <2>2, OthersAlone DEF PortalInv
  <2>4. Sound(s)'
    <3>1. Sound(s)
      BY DEF PortalInv, Handling
    <3>2. ~ At(s, {"open", "writing"})' /\ ~ At(s, {"writing"})'
      BY <1>5, <2>2 DEF At
    <3>3. At(s, Writers)' => At(s, Writers)
      BY <1>5, <2>2 DEF At, Writers
    <3> QED BY <1>1, <1>2, <2>2, <3>1, <3>2, <3>3 DEF Sound
  <2> QED BY <2>2, <2>3, <2>4 DEF Handling
<1>6. Handling'
  BY <1>1, <1>2, <1>4, <1>5, EndedHandling
<1> QED BY <1>1, <1>3, <1>6, UntouchedKept DEF PortalInv

LEMMA NotAnsweredInv ==
  ASSUME PortalInv, NEW s \in Slots, NotAnswered(s)
  PROVE  PortalInv'
<1>1. /\ UNCHANGED <<rows, order, issued, part, source, late>>
      /\ At(s, Operations) /\ Serve(handlers[s].at, Upload(s)) /\ Abandon(s)
  BY DEF NotAnswered, table, files
<1>2. EngineOK' /\ LateOK' /\ Blank' /\ Busy(s)
  BY <1>1, AskingTyped, ServeKept
<1> QED BY <1>1, <1>2, AbandonHandling, UntouchedKept DEF PortalInv

LEMMA TimesOutInv ==
  ASSUME PortalInv, NEW s \in Slots, TimesOut(s)
  PROVE  PortalInv'
<1>1. /\ UNCHANGED <<rows, order, issued, part, source, engine>>
      /\ At(s, Operations) /\ Abandon(s)
  BY DEF TimesOut, table, files
<1>2. PICK sent \in SUBSET GivenUp({s}) : late' = late \cup sent
  BY DEF TimesOut
<1>3. EngineOK' /\ LateOK' /\ Blank'
  BY <1>1, <1>2, GivenUpKept
<1>4. Busy(s)
  BY <1>1, AskingTyped
<1> QED BY <1>1, <1>3, <1>4, AbandonHandling, UntouchedKept DEF PortalInv

LEMMA RestartInv ==
  ASSUME PortalInv, Restart
  PROVE  PortalInv'
<1>1. /\ UNCHANGED <<rows, order, issued, part, source, engine>>
      /\ handlers' = [s \in Slots |-> Idle]
  BY DEF Restart, table, files
<1>2. PICK sent \in SUBSET GivenUp(Slots) : late' = late \cup sent
  BY DEF Restart
<1>3. EngineOK' /\ LateOK' /\ Blank'
  BY <1>1, <1>2, GivenUpKept
<1>4. \A s \in Slots : ~ Busy(s)' /\ handlers'[s].at = "idle"
  BY <1>1 DEF Busy, Idle
<1>5. Handling'
  <2>1. HandlersOK' /\ Exclusion'
    BY <1>1, <1>4 DEF HandlersOK, Exclusion, Locks
  <2>2. \A s \in Slots : Sound(s)'
    BY <1>4 DEF Sound, At, Writers
  <2> QED BY <2>1, <2>2 DEF Handling
<1> QED BY <1>1, <1>3, <1>5, UntouchedKept DEF PortalInv

------------------------------------------------------------------------------
(* Receiving a file.                                                       *)

\* A step that begins a handler which writes nothing yet.
LEMMA BeginInv ==
  ASSUME PortalInv, NEW s \in Slots, NEW u \in DOMAIN rows, NEW n \in 0..Size,
         NEW stage \in {"open", "check", "cancel", "status"},
         Become(s, Work(stage, Snapshot(u), n, <<>>)),
         ~ Locked(u) \/ stage = "status",
         stage = "open" => rows[u].offset + n <= Size,
         UNCHANGED <<rows, order, issued, part, source, engine, late>>
  PROVE  PortalInv'
<1>1. stage \in Stages /\ (stage = "status" => stage \in Serving \cup {"status"})
  BY DEF Stages, Local, Operations, Effective
<1>2. /\ HandlersOK' /\ Exclusion'
      /\ handlers'[s].at = stage /\ handlers'[s].n = n /\ handlers'[s].rest = <<>>
      /\ Upload(s)' = u
      /\ \A t \in Slots \ {s} : handlers'[t] = handlers[t]
  BY <1>1, Unlocked, Begun DEF PortalInv
<1>3. \A t \in Slots \ {s} : Sound(t)'
  BY <1>2, OthersAlone DEF PortalInv
<1>4. Sound(s)'
  <2>1. u <= issued
    BY DEF PortalInv, TableOK
  <2> QED BY <1>2, <2>1 DEF Sound, At
<1>5. Handling'
  BY <1>2, <1>3, <1>4 DEF Handling
<1> QED BY <1>5, UntouchedKept, EngineKept DEF PortalInv

LEMMA CreateInv ==
  ASSUME PortalInv, NEW f \in Files, Create(f)
  PROVE  PortalInv'
<1> DEFINE u == issued + 1
           new == [file |-> f, state |-> "uploading", offset |-> 0, job |-> FALSE]
<1>1. /\ issued < MaxUploads /\ issued' = u
      /\ rows' = [v \in DOMAIN rows \cup {u} |-> IF v = u THEN new ELSE rows[v]]
      /\ order' = Append(order, u)
      /\ UNCHANGED <<part, source, engine, late, handlers>>
  BY DEF Create, files
<1>2. /\ issued \in Nat /\ u \in Ids /\ u \in Nat /\ MaxUploads \in Nat
      /\ DOMAIN rows \subseteq 1..issued /\ u \notin DOMAIN rows
  BY <1>1, PortalAssumption DEF PortalInv, TableOK, Ids
<1>3. new \in Row
  BY PortalAssumption DEF Row, States
<1> HIDE DEF new
<1>4. /\ DOMAIN rows' = DOMAIN rows \cup {u} /\ rows'[u] = new
      /\ \A v \in DOMAIN rows : rows'[v] = rows[v]
      /\ rows' \in [DOMAIN rows' -> Row]
  <2>1. rows' = [v \in DOMAIN rows \cup {u} |-> IF v = u THEN new ELSE rows[v]]
    BY <1>1
  <2> HIDE DEF u
  <2>2. /\ DOMAIN rows' = DOMAIN rows \cup {u} /\ rows'[u] = new
        /\ \A v \in DOMAIN rows : rows'[v] = rows[v]
    BY <1>2, <2>1
  <2>3. \A v \in DOMAIN rows : rows[v] \in Row
    BY DEF PortalInv, TableOK
  <2> QED BY <1>3, <2>1, <2>2, <2>3
<1>5. TableOK'
  <2>1. order \in Seq(DOMAIN rows) /\ IsInjective(order) /\ Range(order) = DOMAIN rows
    BY DEF PortalInv, TableOK
  <2>2. Len(order) \in Nat /\ DOMAIN order = 1..Len(order)
    BY <2>1, LenProperties
  <2>3. order \in Seq(DOMAIN rows')
    BY <1>4, <2>1, SeqMonotonic
  <2>4. /\ order' \in Seq(DOMAIN rows') /\ DOMAIN order' = 1..Len(order) + 1
        /\ \A i \in 1..Len(order) : order'[i] = order[i]
        /\ order'[Len(order) + 1] = u
    <3>1. u \in DOMAIN rows'
      BY <1>4
    <3> HIDE DEF u
    <3> QED BY <1>1, <2>2, <2>3, <3>1, AppendProperties
  <2>5. \A i \in 1..Len(order) : order[i] \in DOMAIN rows /\ order[i] # u
    BY <1>2, <2>1, <2>2 DEF Range
  <2> HIDE DEF u
  <2>6. IsInjective(order')
    BY <2>1, <2>2, <2>4, <2>5 DEF IsInjective
  <2>7. Range(order') = DOMAIN rows'
    <3>1. Range(order') = Range(order) \cup {u}
      BY <2>2, <2>4 DEF Range
    <3> QED BY <1>4, <2>1, <3>1
  <2>8. issued' \in 0..MaxUploads /\ DOMAIN rows' \subseteq 1..issued'
    BY <1>1, <1>2, <1>4 DEF u
  <2> QED BY <1>4, <2>4, <2>6, <2>7, <2>8 DEF TableOK
<1>6. Handling'
  <2>1. HandlersOK' /\ Exclusion'
    BY <1>1 DEF PortalInv, Handling, HandlersOK, Exclusion, Locks, Busy, At, Upload
  <2>2. ASSUME NEW s \in Slots PROVE Sound(s)'
    <3>1. Sound(s) /\ HandlersOK
      BY DEF PortalInv, Handling
    <3>2. Busy(s) => /\ Upload(s) <= issued'
                     /\ \A i \in DOMAIN handlers[s].rest : handlers[s].rest[i].u <= issued'
      <4>1. SUFFICES ASSUME Busy(s)
                     PROVE  /\ Upload(s) <= issued'
                            /\ \A i \in DOMAIN handlers[s].rest : handlers[s].rest[i].u <= issued'
        OBVIOUS
      <4>2. Upload(s) \in Ids /\ handlers[s].rest \in Seq(Item)
        BY <3>1, <4>1, BusyTyped
      <4>3. \A i \in DOMAIN handlers[s].rest : handlers[s].rest[i].u \in Ids
        <5>1. \A i \in DOMAIN handlers[s].rest : handlers[s].rest[i] \in Item
          BY <4>2, LenProperties, ElementOfSeq
        <5> QED BY <5>1 DEF Item
      <4> QED BY <1>1, <1>2, <3>1, <4>1, <4>2, <4>3 DEF Sound, Ids
    <3>3. At(s, {"open", "writing"}) => At(s, Writers)
      BY DEF At, Writers
    <3>4. At(s, {"writing"}) => At(s, Writers)
      BY DEF At, Writers
    <3> QED BY <1>1, <1>4, <3>1, <3>2, <3>3, <3>4 DEF Sound, At, Busy, Upload, Received
  <2> QED BY <2>1, <2>2 DEF Handling
<1>7. Blank'
  <2>1. \A v \in Ids : v > issued' => v > issued
    BY <1>1, <1>2 DEF Ids
  <2> QED BY <1>1, <2>1 DEF PortalInv, Blank
<1>8. CommittedIntact'
  <2>1. source[u] = <<>>
    BY <1>2 DEF PortalInv, Blank
  <2>2. new.offset = 0
    BY DEF new
  <2> SUFFICES ASSUME NEW v \in DOMAIN rows'
               PROVE  /\ Len(part[v]) >= rows'[v].offset =>
                           \A i \in 1..rows'[v].offset : part[v][i] = "ok"
                      /\ source[v] # <<>> => source[v] = [i \in 1..Size |-> "ok"]
    BY <1>1 DEF CommittedIntact
  <2>3. CASE v = u
    BY <1>4, <2>1, <2>2, <2>3
  <2>4. CASE v \in DOMAIN rows
    BY <1>4, <2>4 DEF PortalInv, CommittedIntact
  <2> QED BY <1>4, <2>3, <2>4
<1> QED BY <1>1, <1>5, <1>6, <1>7, <1>8 DEF PortalInv, FilesOK, EngineOK, LateOK

LEMMA BeginChunkInv ==
  ASSUME PortalInv, NEW s \in Slots, NEW u \in DOMAIN rows, BeginChunk(s, u)
  PROVE  PortalInv'
<1>1. PICK n \in Lengths(u) : Become(s, Work("open", Snapshot(u), n, <<>>))
  BY DEF BeginChunk
<1>2. /\ ~ Locked(u)
      /\ UNCHANGED <<rows, order, issued, part, source, engine, late>>
  BY DEF BeginChunk, table, files
<1>3. n \in 0..Size /\ rows[u].offset + n <= Size
  <2>1. rows[u].offset \in 0..Size
    BY DEF PortalInv, TableOK, Row
  <2> QED BY <2>1, PortalAssumption DEF Lengths
<1> QED BY <1>1, <1>2, <1>3, BeginInv

LEMMA BeginCancelInv ==
  ASSUME PortalInv, NEW s \in Slots, NEW u \in DOMAIN rows,
         BeginCancel(s, u) \/ BeginDownload(s, u)
  PROVE  PortalInv'
<1>1. \E stage \in {"cancel", "status"} : Become(s, Work(stage, Snapshot(u), 0, <<>>))
  BY DEF BeginCancel, BeginDownload, Begin
<1>2. /\ ~ Locked(u)
      /\ UNCHANGED <<rows, order, issued, part, source, engine, late>>
  BY DEF BeginCancel, BeginDownload, table, files
<1>3. 0 \in 0..Size
  BY PortalAssumption
<1> QED BY <1>1, <1>2, <1>3, BeginInv

\* Unit by unit, the committed part of a file stays what it was.
LEMMA PrefixKept ==
  ASSUME NEW p \in Seq(Units), NEW n \in Nat, n <= Len(p)
  PROVE  /\ SubSeq(p, 1, n) \in Seq(Units) /\ Len(SubSeq(p, 1, n)) = n
         /\ \A i \in 1..n : SubSeq(p, 1, n)[i] = p[i]
<1>1. \A i \in 1..n : p[i] \in Units
  BY ElementOfSeq, LenProperties
<1>2. /\ SubSeq(p, 1, n) \in Seq(Units)
      /\ Len(SubSeq(p, 1, n)) = IF 1 <= n THEN n - 1 + 1 ELSE 0
      /\ \A i \in 1..n - 1 + 1 : SubSeq(p, 1, n)[i] = p[1 + i - 1]
  BY <1>1, SubSeqProperties
<1>3. Len(SubSeq(p, 1, n)) = n
  BY <1>2
<1>4. ASSUME NEW i \in 1..n PROVE SubSeq(p, 1, n)[i] = p[i]
  <2>1. i \in 1..n - 1 + 1 /\ 1 + i - 1 = i
    OBVIOUS
  <2> QED BY <1>2, <2>1
<1> QED BY <1>2, <1>3, <1>4

\* A handler about to write its row holds it.
LEMMA WriterHolds ==
  ASSUME PortalInv, NEW s \in Slots, At(s, Writers)
  PROVE  /\ Busy(s) /\ Locks(s) /\ handlers[s] \in Working
         /\ Upload(s) \in DOMAIN rows /\ Upload(s) \in Ids /\ Upload(s) <= issued
         /\ rows[Upload(s)] \in Row
         /\ part[Upload(s)] \in Seq(Units) /\ source[Upload(s)] \in Seq(Units)
         /\ \A t \in Slots \ {s} : Locks(t) => Upload(t) # Upload(s)
<1>1. HandlersOK /\ Sound(s)
  BY DEF PortalInv, Handling
<1>2. Busy(s) /\ Locks(s)
  BY <1>1, BusyTyped DEF At, Writers, Stages, Local, Operations, Effective, Locks, Serving
<1>3. \A t \in Slots \ {s} : Locks(t) => Upload(t) # Upload(s)
  BY <1>2, HeldAlone DEF PortalInv
<1> QED BY <1>1, <1>2, <1>3, BusyTyped DEF Sound, PortalInv, FilesOK, TableOK

\* A step of handler s that writes the row it holds.
LEMMA RowStepInv ==
  ASSUME PortalInv, NEW s \in Slots, NEW u \in DOMAIN rows, NEW row \in Row, Update(u, row),
         \A t \in Slots \ {s} : Locks(t) => Upload(t) # u,
         UNCHANGED <<part, source, engine, late>>,
         Len(part[u]) >= row.offset => \A i \in 1..row.offset : part[u][i] = "ok",
         HandlersOK', Exclusion', Sound(s)',
         \A t \in Slots \ {s} : handlers'[t] = handlers[t]
  PROVE  PortalInv'
<1>1. /\ TableOK' /\ DOMAIN rows' = DOMAIN rows /\ rows'[u] = row
      /\ \A v \in DOMAIN rows \ {u} : rows'[v] = rows[v]
      /\ issued' = issued
  BY UpdateTyped DEF PortalInv, Update
<1>2. \A t \in Slots \ {s} : Sound(t)'
  BY <1>1, OthersSpared DEF PortalInv
<1>3. Handling'
  BY <1>2 DEF Handling
<1>4. CommittedIntact'
  <2> SUFFICES ASSUME NEW v \in DOMAIN rows
               PROVE  /\ Len(part[v]) >= rows'[v].offset =>
                           \A i \in 1..rows'[v].offset : part[v][i] = "ok"
                      /\ source[v] # <<>> => source[v] = [i \in 1..Size |-> "ok"]
    BY <1>1 DEF CommittedIntact
  <2>1. CASE v = u
    BY <1>1, <2>1 DEF PortalInv, CommittedIntact
  <2>2. CASE v # u
    BY <1>1, <2>2 DEF PortalInv, CommittedIntact
  <2> QED BY <2>1, <2>2
<1> QED BY <1>1, <1>3, <1>4, EngineKept DEF PortalInv, FilesOK

\* A step of handler s that writes the files of the upload it holds.
LEMMA FileStepInv ==
  ASSUME PortalInv, NEW s \in Slots, NEW u \in Ids, NEW p \in Seq(Units), NEW q \in Seq(Units),
         u <= issued, \A t \in Slots \ {s} : Locks(t) => Upload(t) # u,
         part' = [part EXCEPT ![u] = p], source' = [source EXCEPT ![u] = q],
         UNCHANGED <<rows, order, issued, engine, late>>,
         u \in DOMAIN rows =>
           /\ Len(p) >= rows[u].offset => \A i \in 1..rows[u].offset : p[i] = "ok"
           /\ q # <<>> => q = [i \in 1..Size |-> "ok"],
         HandlersOK', Exclusion', Sound(s)',
         \A t \in Slots \ {s} : handlers'[t] = handlers[t]
  PROVE  PortalInv'
<1>1. /\ FilesOK' /\ part'[u] = p /\ source'[u] = q
      /\ \A v \in Ids \ {u} : part'[v] = part[v] /\ source'[v] = source[v]
  BY DEF PortalInv, FilesOK
<1>2. \A t \in Slots \ {s} : Sound(t)'
  BY <1>1, OthersSpared DEF PortalInv
<1>3. Handling'
  BY <1>2 DEF Handling
<1>4. DOMAIN rows \subseteq Ids /\ issued \in Nat
  BY PortalAssumption DEF PortalInv, TableOK, Ids
<1>5. CommittedIntact'
  <2> SUFFICES ASSUME NEW v \in DOMAIN rows
               PROVE  /\ Len(part'[v]) >= rows[v].offset =>
                           \A i \in 1..rows[v].offset : part'[v][i] = "ok"
                      /\ source'[v] # <<>> => source'[v] = [i \in 1..Size |-> "ok"]
    BY DEF CommittedIntact
  <2>1. CASE v = u
    BY <1>1, <2>1
  <2>2. CASE v # u
    <3>1. part'[v] = part[v] /\ source'[v] = source[v]
      BY <1>1, <1>4, <2>2
    <3> QED BY <3>1 DEF PortalInv, CommittedIntact
  <2> QED BY <2>1, <2>2
<1>6. Blank'
  <2> SUFFICES ASSUME NEW v \in Ids, v > issued PROVE part'[v] = <<>> /\ source'[v] = <<>>
    BY DEF PortalInv, Blank
  <2>1. v # u
    BY <1>4 DEF Ids
  <2> QED BY <1>1, <2>1 DEF PortalInv, Blank
<1> QED BY <1>1, <1>3, <1>5, <1>6 DEF PortalInv, TableOK, EngineOK, LateOK

LEMMA OpenPartInv ==
  ASSUME PortalInv, NEW s \in Slots, OpenPart(s)
  PROVE  PortalInv'
<1> DEFINE u == Upload(s)
           n == rows[u].offset
           p == SubSeq(part[u], 1, n)
<1>1. /\ At(s, {"open"}) /\ Len(part[u]) >= n
      /\ part' = [part EXCEPT ![u] = p] /\ Advance(s, "writing")
      /\ UNCHANGED <<rows, order, issued, source, engine, late>>
  <2>1. part' = [part EXCEPT ![Upload(s)] = SubSeq(part[Upload(s)], 1, rows[Upload(s)].offset)]
    BY DEF OpenPart, Truncate
  <2> QED BY <2>1 DEF OpenPart, table
<1>2. At(s, Writers) /\ At(s, {"open", "writing"})
  BY <1>1 DEF At, Writers
<1>3. /\ Busy(s) /\ Locks(s) /\ handlers[s] \in Working
      /\ u \in DOMAIN rows /\ u \in Ids /\ u <= issued /\ rows[u] \in Row
      /\ part[u] \in Seq(Units) /\ source[u] \in Seq(Units)
      /\ \A t \in Slots \ {s} : Locks(t) => Upload(t) # u
  BY <1>2, WriterHolds
<1>4. n \in Nat /\ n <= Len(part[u])
  BY <1>1, <1>3 DEF Row
<1>5. p \in Seq(Units) /\ Len(p) = n /\ \A i \in 1..n : p[i] = part[u][i]
  BY <1>3, <1>4, PrefixKept
<1>6. /\ HandlersOK' /\ Exclusion' /\ Upload(s)' = u
      /\ handlers'[s].at = "writing" /\ handlers'[s].n = handlers[s].n
      /\ handlers'[s].rest = handlers[s].rest
      /\ \A t \in Slots \ {s} : handlers'[t] = handlers[t]
  <2>1. "writing" \in Stages
    BY DEF Stages, Local
  <2> QED BY <1>1, <1>3, <2>1, Advanced DEF PortalInv
<1>7. Sound(s) /\ handlers[s].n \in Nat
  BY <1>3 DEF PortalInv, Handling, Working
<1>8. part'[u] = p
  BY <1>1, <1>3 DEF PortalInv, FilesOK
<1>9. source' = [source EXCEPT ![u] = source[u]]
  BY <1>1 DEF PortalInv, FilesOK
<1> HIDE DEF u, p
<1>10. Len(part'[u]) - rows'[u].offset = 0 /\ rows'[u].offset = n /\ Len(part'[u]) = n
  BY <1>1, <1>4, <1>5, <1>8
<1>11. Sound(s)'
  <2>1. u <= issued' /\ \A i \in DOMAIN handlers'[s].rest : handlers'[s].rest[i].u <= issued'
    BY <1>1, <1>3, <1>6, <1>7 DEF Sound
  <2>2. u \in DOMAIN rows' /\ rows'[u].offset + handlers'[s].n <= Size
    BY <1>1, <1>2, <1>3, <1>6, <1>7 DEF Sound, u
  <2>3. /\ Len(part'[u]) >= rows'[u].offset
        /\ Len(part'[u]) - rows'[u].offset <= handlers'[s].n
    BY <1>4, <1>6, <1>7, <1>10
  <2> QED BY <1>6, <2>1, <2>2, <2>3 DEF Sound, Received
<1>12. \A i \in 1..n : p[i] = "ok"
  BY <1>3, <1>4, <1>5 DEF PortalInv, CommittedIntact
<1>13. source[u] # <<>> => source[u] = [i \in 1..Size |-> "ok"]
  BY <1>3 DEF PortalInv, CommittedIntact
<1> QED BY <1>1, <1>3, <1>5, <1>6, <1>9, <1>11, <1>12, <1>13, FileStepInv

LEMMA WriteUnitInv ==
  ASSUME PortalInv, NEW s \in Slots, WriteUnit(s)
  PROVE  PortalInv'
<1> DEFINE u == Upload(s)
           n == rows[u].offset
<1>1. /\ At(s, {"writing"}) /\ Received(u) < handlers[s].n
      /\ UNCHANGED <<rows, order, issued, source, engine, late, handlers>>
  BY DEF WriteUnit, table
<1>2. PICK x \in Units : part' = [part EXCEPT ![u] = Append(part[u], x)]
  BY DEF WriteUnit
<1>3. At(s, Writers) /\ At(s, {"open", "writing"})
  BY <1>1 DEF At, Writers
<1>4. /\ Busy(s) /\ Locks(s) /\ handlers[s] \in Working
      /\ u \in DOMAIN rows /\ u \in Ids /\ u <= issued /\ rows[u] \in Row
      /\ part[u] \in Seq(Units) /\ source[u] \in Seq(Units)
      /\ \A t \in Slots \ {s} : Locks(t) => Upload(t) # u
  BY <1>3, WriterHolds
<1> DEFINE p == Append(part[u], x)
<1>5. /\ p \in Seq(Units) /\ Len(p) = Len(part[u]) + 1 /\ Len(part[u]) \in Nat
      /\ \A i \in 1..Len(part[u]) : p[i] = part[u][i]
  BY <1>4, AppendProperties, LenProperties
<1>6. /\ Sound(s) /\ handlers[s].n \in Nat /\ n \in Nat
  BY <1>4 DEF PortalInv, Handling, Working, Row
<1>7. Len(part[u]) >= n
  BY <1>1, <1>6 DEF Sound
<1> HIDE DEF u, p
<1>8. part'[u] = p
  BY <1>2, <1>4 DEF PortalInv, FilesOK, p
<1>9. Len(part'[u]) - rows'[u].offset <= handlers[s].n /\ Len(part'[u]) >= n
  BY <1>1, <1>5, <1>6, <1>7, <1>8 DEF Received
<1>10. Sound(s)'
  BY <1>1, <1>6, <1>9 DEF Sound, At, Busy, Upload, Received, u
<1>11. \A i \in 1..n : p[i] = "ok"
  BY <1>4, <1>5, <1>6, <1>7 DEF PortalInv, CommittedIntact
<1>12. source[u] # <<>> => source[u] = [i \in 1..Size |-> "ok"]
  BY <1>4 DEF PortalInv, CommittedIntact
<1>13. HandlersOK' /\ Exclusion'
  BY <1>1 DEF PortalInv, Handling, HandlersOK, Exclusion, Locks, Busy, At, Upload
<1>14. source' = [source EXCEPT ![u] = source[u]] /\ part' = [part EXCEPT ![u] = p]
  BY <1>1, <1>2 DEF PortalInv, FilesOK, p
<1> QED BY <1>1, <1>4, <1>5, <1>10, <1>11, <1>12, <1>13, <1>14, FileStepInv

\* What a handler that is writing has received, and where.
LEMMA WritingHolds ==
  ASSUME PortalInv, NEW s \in Slots, At(s, {"writing"})
  PROVE  LET u == Upload(s) IN
         /\ At(s, Writers) /\ u \in DOMAIN rows /\ u \in Ids /\ u <= issued
         /\ rows[u] \in Row /\ rows[u].offset \in Nat
         /\ handlers[s].n \in Nat /\ rows[u].offset + handlers[s].n <= Size
         /\ part[u] \in Seq(Units) /\ Len(part[u]) \in Nat /\ Len(part[u]) >= rows[u].offset
         /\ source[u] \in Seq(Units)
         /\ \A i \in 1..rows[u].offset : part[u][i] = "ok"
         /\ source[u] # <<>> => source[u] = [i \in 1..Size |-> "ok"]
<1>1. At(s, Writers) /\ At(s, {"open", "writing"})
  BY DEF At, Writers
<1>2. /\ handlers[s] \in Working
      /\ Upload(s) \in DOMAIN rows /\ Upload(s) \in Ids /\ Upload(s) <= issued
      /\ rows[Upload(s)] \in Row /\ part[Upload(s)] \in Seq(Units)
      /\ source[Upload(s)] \in Seq(Units)
  BY <1>1, WriterHolds
<1>3. /\ rows[Upload(s)].offset + handlers[s].n <= Size
      /\ Len(part[Upload(s)]) >= rows[Upload(s)].offset
  BY <1>1 DEF PortalInv, Handling, Sound
<1>4. rows[Upload(s)].offset \in Nat /\ handlers[s].n \in Nat /\ Len(part[Upload(s)]) \in Nat
  BY <1>2, LenProperties DEF Row, Working
<1>5. /\ \A i \in 1..rows[Upload(s)].offset : part[Upload(s)][i] = "ok"
      /\ source[Upload(s)] # <<>> => source[Upload(s)] = [i \in 1..Size |-> "ok"]
  BY <1>2, <1>3 DEF PortalInv, CommittedIntact
<1> QED BY <1>1, <1>2, <1>3, <1>4, <1>5

LEMMA CommitChunkInv ==
  ASSUME PortalInv, NEW s \in Slots, CommitChunk(s)
  PROVE  PortalInv'
<1> DEFINE u == Upload(s)
           n == rows[u].offset
           row == [rows[u] EXCEPT !.offset = Len(part[u])]
<1>1. /\ At(s, {"writing"}) /\ Received(u) = handlers[s].n /\ DigestMatches(u)
      /\ Update(u, row) /\ Become(s, Idle)
      /\ UNCHANGED <<part, source, engine, late>>
  BY DEF CommitChunk, files
<1>2. /\ At(s, Writers) /\ u \in DOMAIN rows /\ u \in Ids /\ u <= issued
      /\ rows[u] \in Row /\ n \in Nat
      /\ handlers[s].n \in Nat /\ n + handlers[s].n <= Size
      /\ Len(part[u]) \in Nat /\ Len(part[u]) >= n
      /\ \A i \in 1..n : part[u][i] = "ok"
  BY <1>1, WritingHolds
<1>3. Len(part[u]) - n = handlers[s].n
  BY <1>1 DEF Received
<1>4. \A i \in n + 1..Len(part[u]) : part[u][i] = "ok"
  BY <1>1 DEF DigestMatches
<1>5. row \in Row /\ row.offset = Len(part[u])
  <2>1. Len(part[u]) \in 0..Size
    BY <1>2, <1>3, PortalAssumption
  <2> HIDE DEF u
  <2> QED BY <1>2, <2>1 DEF Row
<1> HIDE DEF row, n
<1>6. \A i \in 1..row.offset : part[u][i] = "ok"
  BY <1>2, <1>4, <1>5
<1>7. /\ HandlersOK' /\ Exclusion' /\ Sound(s)'
      /\ \A t \in Slots \ {s} : handlers'[t] = handlers[t]
  BY <1>1, Finished DEF PortalInv
<1>8. \A t \in Slots \ {s} : Locks(t) => Upload(t) # u
  BY <1>2, WriterHolds
<1> HIDE DEF u
<1> QED BY <1>1, <1>2, <1>5, <1>6, <1>7, <1>8, RowStepInv

LEMMA FailChunkInv ==
  ASSUME PortalInv, NEW s \in Slots, FailChunk(s)
  PROVE  PortalInv'
<1> DEFINE u == Upload(s)
           n == rows[u].offset
           p == SubSeq(part[u], 1, n)
<1>1. /\ At(s, {"writing"}) /\ Become(s, Idle)
      /\ UNCHANGED <<rows, order, issued, source, engine, late>>
  BY DEF FailChunk, table
<1>2. part' = [part EXCEPT ![u] = p]
  BY DEF FailChunk, Truncate
<1>3. /\ At(s, Writers) /\ u \in DOMAIN rows /\ u \in Ids /\ u <= issued
      /\ n \in Nat /\ part[u] \in Seq(Units) /\ Len(part[u]) >= n
      /\ source[u] \in Seq(Units)
      /\ \A i \in 1..n : part[u][i] = "ok"
      /\ source[u] # <<>> => source[u] = [i \in 1..Size |-> "ok"]
  BY <1>1, WritingHolds
<1>4. p \in Seq(Units) /\ \A i \in 1..n : p[i] = "ok"
  BY <1>3, PrefixKept
<1>5. source' = [source EXCEPT ![u] = source[u]]
  BY <1>1 DEF PortalInv, FilesOK
<1>6. /\ HandlersOK' /\ Exclusion' /\ Sound(s)'
      /\ \A t \in Slots \ {s} : handlers'[t] = handlers[t]
  BY <1>1, Finished DEF PortalInv
<1>7. \A t \in Slots \ {s} : Locks(t) => Upload(t) # u
  BY <1>3, WriterHolds
<1> HIDE DEF u, n, p
<1>8. u \in DOMAIN rows =>
        /\ Len(p) >= rows[u].offset => \A i \in 1..rows[u].offset : p[i] = "ok"
        /\ source[u] # <<>> => source[u] = [i \in 1..Size |-> "ok"]
  BY <1>3, <1>4 DEF n
<1> QED BY <1>1, <1>2, <1>3, <1>4, <1>5, <1>6, <1>7, <1>8, FileStepInv

------------------------------------------------------------------------------
(* Completing and submitting.                                              *)

\* A record stored in another state is as whole as it was.
LEMMA RowIntact ==
  ASSUME PortalInv, NEW u \in DOMAIN rows, NEW row, row.offset = rows[u].offset
  PROVE  Len(part[u]) >= row.offset => \A i \in 1..row.offset : part[u][i] = "ok"
BY DEF PortalInv, CommittedIntact

LEMMA SubmitInv ==
  ASSUME PortalInv, NEW s \in Slots, NEW u \in DOMAIN rows, Submit(s, u),
         \A t \in Slots \ {s} : Locks(t) => Upload(t) # u,
         UNCHANGED <<part, source, engine, late>>
  PROVE  PortalInv'
<1> DEFINE row == [rows[u] EXCEPT !.state = "submitting"]
<1>1. Update(u, row) /\ Become(s, Work("create", Snapshot(u), 0, <<>>))
  BY DEF Submit, Begin
<1>2. rows[u] \in Row
  BY DEF PortalInv, TableOK
<1>3. row \in Row /\ row.offset = rows[u].offset
  BY <1>2 DEF Row, States
<1> HIDE DEF row
<1>4. "create" \in Stages /\ 0 \in 0..Size
  BY PortalAssumption DEF Stages, Operations, Effective
<1>5. /\ HandlersOK' /\ Exclusion'
      /\ handlers'[s].at = "create" /\ handlers'[s].rest = <<>> /\ Upload(s)' = u
      /\ \A t \in Slots \ {s} : handlers'[t] = handlers[t]
  BY <1>1, <1>4, Begun DEF PortalInv
<1>6. u \in DOMAIN rows' /\ u <= issued'
  BY <1>1, <1>3 DEF PortalInv, TableOK, Update
<1>7. Sound(s)'
  BY <1>5, <1>6 DEF Sound, At
<1> QED BY <1>1, <1>3, <1>5, <1>7, RowIntact, RowStepInv

LEMMA BeginCompleteInv ==
  ASSUME PortalInv, NEW s \in Slots, NEW u \in DOMAIN rows, BeginComplete(s, u)
  PROVE  PortalInv'
<1>1. ~ Locked(u) /\ UNCHANGED <<part, source, engine, late>>
  BY DEF BeginComplete, files
<1>2. 0 \in 0..Size
  BY PortalAssumption
<1>3. \/ Become(s, Work("check", Snapshot(u), 0, <<>>)) /\ UNCHANGED <<rows, order, issued>>
      \/ Submit(s, u)
  BY DEF BeginComplete, Begin, table
<1>4. \A t \in Slots : Locks(t) => Upload(t) # u
  BY <1>1, Unlocked
<1> QED BY <1>1, <1>2, <1>3, <1>4, BeginInv, SubmitInv

LEMMA MaintenanceSubmitsInv ==
  ASSUME PortalInv, NEW u \in Ids, MaintenanceSubmits(u)
  PROVE  PortalInv'
<1>1. u \in DOMAIN rows /\ ~ Locked(u)
  BY DEF MaintenanceSubmits, Due, PortalInv, TableOK, Range
<1>2. Submit(Maintenance, u) /\ UNCHANGED <<part, source, engine, late>>
  BY DEF MaintenanceSubmits, files
<1>3. \A t \in Slots : Locks(t) => Upload(t) # u
  BY <1>1, Unlocked
<1> QED BY <1>1, <1>2, <1>3, SubmitInv DEF Slots

LEMMA SubmitReadyInv ==
  ASSUME PortalInv, NEW s \in Slots, SubmitReady(s)
  PROVE  PortalInv'
<1>1. At(s, Writers)
  BY DEF SubmitReady, At, Writers
<1>2. Submit(s, Upload(s)) /\ UNCHANGED <<part, source, engine, late>>
  BY DEF SubmitReady, files
<1> QED BY <1>1, <1>2, WriterHolds, SubmitInv

LEMMA MarkReadyInv ==
  ASSUME PortalInv, NEW s \in Slots, MarkReady(s)
  PROVE  PortalInv'
<1> DEFINE u == Upload(s)
           row == [rows[u] EXCEPT !.state = "ready"]
<1>1. /\ At(s, {"ready"}) /\ Update(u, row) /\ Advance(s, "submit")
      /\ UNCHANGED <<part, source, engine, late>>
  BY DEF MarkReady, files
<1>2. At(s, Writers)
  BY <1>1 DEF At, Writers
<1>3. /\ Busy(s) /\ Locks(s) /\ u \in DOMAIN rows /\ u <= issued /\ rows[u] \in Row
      /\ \A t \in Slots \ {s} : Locks(t) => Upload(t) # u
  BY <1>2, WriterHolds
<1>4. row \in Row /\ row.offset = rows[u].offset
  BY <1>3 DEF Row, States
<1> HIDE DEF row
<1>5. "submit" \in Stages
  BY DEF Stages, Local
<1>6. /\ HandlersOK' /\ Exclusion'
      /\ handlers'[s].at = "submit" /\ handlers'[s].rest = handlers[s].rest /\ Upload(s)' = u
      /\ \A t \in Slots \ {s} : handlers'[t] = handlers[t]
  BY <1>1, <1>3, <1>5, Advanced DEF PortalInv
<1>7. u \in DOMAIN rows' /\ issued' = issued
  BY <1>1, <1>3 DEF PortalInv, TableOK, Update
<1>8. Sound(s)'
  BY <1>3, <1>6, <1>7 DEF Sound, At, PortalInv, Handling
<1> HIDE DEF u
<1> QED BY <1>1, <1>3, <1>4, <1>6, <1>8, RowIntact, RowStepInv

LEMMA StoreJobInv ==
  ASSUME PortalInv, NEW s \in Slots, StoreJob(s)
  PROVE  PortalInv'
<1> DEFINE u == Upload(s)
           row == [rows[u] EXCEPT !.state = "submitted", !.job = TRUE]
           h == IF s = Maintenance THEN Expire ELSE Idle
<1>1. /\ At(s, {"created"}) /\ Update(u, row) /\ Become(s, h) /\ h \in {Idle, Expire}
      /\ UNCHANGED <<part, source, engine, late>>
  BY DEF StoreJob, files
<1> HIDE DEF h
<1>2. At(s, Writers)
  BY <1>1 DEF At, Writers
<1>3. /\ u \in DOMAIN rows /\ rows[u] \in Row
      /\ \A t \in Slots \ {s} : Locks(t) => Upload(t) # u
  BY <1>2, WriterHolds
<1>4. row \in Row /\ row.offset = rows[u].offset
  BY <1>3 DEF Row, States
<1> HIDE DEF row, u
<1>5. /\ HandlersOK' /\ Exclusion' /\ Sound(s)'
      /\ \A t \in Slots \ {s} : handlers'[t] = handlers[t]
  BY <1>1, Finished DEF PortalInv
<1> QED BY <1>1, <1>3, <1>4, <1>5, RowIntact, RowStepInv

LEMMA CheckFileInv ==
  ASSUME PortalInv, NEW s \in Slots, CheckFile(s)
  PROVE  PortalInv'
<1> DEFINE u == Upload(s)
           file == IF source[u] # <<>> THEN source[u] ELSE part[u]
           p == IF source[u] # <<>> THEN part[u] ELSE <<>>
<1>1. /\ At(s, {"check"}) /\ rows[u].offset = Size /\ Len(file) = Size
      /\ source' = [source EXCEPT ![u] = file] /\ Advance(s, "ready")
      /\ UNCHANGED <<rows, order, issued, engine, late>>
  BY DEF CheckFile, table
<1>2. At(s, Writers)
  BY <1>1 DEF At, Writers
<1>3. /\ Busy(s) /\ Locks(s) /\ u \in DOMAIN rows /\ u \in Ids /\ u <= issued /\ rows[u] \in Row
      /\ part[u] \in Seq(Units) /\ source[u] \in Seq(Units)
      /\ \A t \in Slots \ {s} : Locks(t) => Upload(t) # u
  BY <1>2, WriterHolds
<1>4. part' = [part EXCEPT ![u] = p]
  <2>1. CASE source[u] # <<>>
    BY <2>1 DEF CheckFile, PortalInv, FilesOK
  <2>2. CASE source[u] = <<>>
    BY <2>2 DEF CheckFile
  <2> QED BY <2>1, <2>2
<1>5. p \in Seq(Units) /\ file \in Seq(Units)
  BY <1>3, EmptySeq
<1>6. Len(p) >= rows[u].offset => \A i \in 1..rows[u].offset : p[i] = "ok"
  <2>1. CASE source[u] # <<>>
    BY <1>3, <2>1 DEF PortalInv, CommittedIntact
  <2>2. CASE source[u] = <<>>
    BY <1>1, <2>2, EmptySeq, PortalAssumption
  <2> QED BY <2>1, <2>2
<1>7. file = [i \in 1..Size |-> "ok"]
  <2>1. CASE source[u] # <<>>
    BY <1>3, <2>1 DEF PortalInv, CommittedIntact
  <2>2. CASE source[u] = <<>>
    <3>1. file = part[u]
      BY <2>2
    <3>2. \A i \in 1..Size : file[i] = "ok"
      BY <1>1, <1>3, <3>1, PortalAssumption DEF PortalInv, CommittedIntact
    <3> HIDE DEF file
    <3>3. file \in [1..Size -> Units]
      BY <1>1, <1>5, LenProperties
    <3> QED BY <3>2, <3>3
  <2> QED BY <2>1, <2>2
<1>8. "ready" \in Stages
  BY DEF Stages, Local
<1>9. /\ HandlersOK' /\ Exclusion'
      /\ handlers'[s].at = "ready" /\ handlers'[s].rest = handlers[s].rest /\ Upload(s)' = u
      /\ \A t \in Slots \ {s} : handlers'[t] = handlers[t]
  BY <1>1, <1>3, <1>8, Advanced DEF PortalInv
<1>10. Sound(s)'
  BY <1>1, <1>3, <1>9 DEF Sound, At, PortalInv, Handling
<1> HIDE DEF file, p, u
<1> QED BY <1>1, <1>3, <1>4, <1>5, <1>6, <1>7, <1>9, <1>10, FileStepInv

------------------------------------------------------------------------------
(* Cleaning up, downloading, maintenance.                                  *)

\* What a batch has read is typed.
LEMMA SnapshotsTyped ==
  ASSUME PortalInv, NEW us \in Seq(DOMAIN rows)
  PROVE  LET rest == [i \in DOMAIN us |-> Snapshot(us[i])] IN
         /\ rest \in Seq(Item) /\ DOMAIN rest = DOMAIN us
         /\ \A i \in DOMAIN rest : rest[i].u = us[i] /\ rest[i].u <= issued
<1>1. Len(us) \in Nat /\ DOMAIN us = 1..Len(us) /\ \A i \in 1..Len(us) : us[i] \in DOMAIN rows
  BY LenProperties, ElementOfSeq
<1>2. ASSUME NEW u \in DOMAIN rows PROVE Snapshot(u) \in Item /\ Snapshot(u).u = u /\ u <= issued
  <2>1. u \in Ids /\ u <= issued
    BY PortalAssumption DEF PortalInv, TableOK, Ids
  <2>2. rows[u].state \in States /\ rows[u].job \in BOOLEAN
    BY DEF PortalInv, TableOK, Row
  <2> QED BY <2>1, <2>2 DEF Snapshot, Item
<1>3. [i \in 1..Len(us) |-> Snapshot(us[i])] \in [1..Len(us) -> Item]
  BY <1>1, <1>2
<1>4. [i \in 1..Len(us) |-> Snapshot(us[i])] \in Seq(Item)
  BY <1>1, <1>3, SeqDef
<1> QED BY <1>1, <1>2, <1>4

LEMMA BatchInv ==
  ASSUME PortalInv, NEW s \in Slots, NEW us \in Seq(DOMAIN rows),
         NextItem(s, [i \in DOMAIN us |-> Snapshot(us[i])]),
         UNCHANGED <<rows, order, issued, part, source, engine, late>>
  PROVE  PortalInv'
<1> DEFINE rest == [i \in DOMAIN us |-> Snapshot(us[i])]
<1>1. rest \in Seq(Item) /\ \A i \in DOMAIN rest : rest[i].u <= issued
  BY SnapshotsTyped
<1> HIDE DEF rest
<1>2. Handling'
  BY <1>1, NextItemHandling DEF rest
<1> QED BY <1>2, UntouchedKept, EngineKept DEF PortalInv

LEMMA BeginDeleteInv ==
  ASSUME PortalInv, NEW s \in Slots, NEW us, BeginDelete(s, us)
  PROVE  PortalInv'
BY BatchInv DEF BeginDelete, table, files

LEMMA RemoveExpiredInv ==
  ASSUME PortalInv, NEW us, RemoveExpired(us)
  PROVE  PortalInv'
<1>1. us \in Seq(DOMAIN rows)
  BY SeqMonotonic DEF RemoveExpired
<1>2. /\ NextItem(Maintenance, [i \in DOMAIN us |-> Snapshot(us[i])])
      /\ UNCHANGED <<rows, order, issued, part, source, engine, late>>
  BY DEF RemoveExpired, table, files
<1> QED BY <1>1, <1>2, BatchInv DEF Slots

\* A handler that goes on without writing.
LEMMA AdvanceInv ==
  ASSUME PortalInv, NEW s \in Slots, NEW stage \in Stages \ Writers, Advance(s, stage),
         Busy(s), Locks(s) \/ stage \in Serving,
         UNCHANGED <<rows, order, issued, part, source, engine, late>>
  PROVE  PortalInv'
<1>1. /\ HandlersOK' /\ Exclusion'
      /\ handlers'[s].at = stage /\ handlers'[s].rest = handlers[s].rest
      /\ Upload(s)' = Upload(s)
      /\ \A t \in Slots \ {s} : handlers'[t] = handlers[t]
  BY Advanced DEF PortalInv
<1>2. \A t \in Slots \ {s} : Sound(t)'
  BY <1>1, OthersAlone DEF PortalInv
<1>3. Sound(s)'
  BY <1>1 DEF Sound, At, Writers, PortalInv, Handling
<1>4. Handling'
  BY <1>1, <1>2, <1>3 DEF Handling
<1> QED BY <1>4, UntouchedKept, EngineKept DEF PortalInv

LEMMA CheckAccessInv ==
  ASSUME PortalInv, NEW s \in Slots, CheckAccess(s)
  PROVE  PortalInv'
<1>1. Busy(s) /\ Locks(s)
  BY BusyTyped DEF CheckAccess, At, PortalInv, Handling, Stages, Local, Locks, Serving
<1>2. \E stage \in {"claim", "remove"} : Advance(s, stage)
  BY DEF CheckAccess
<1>3. {"claim", "remove"} \subseteq Stages \ Writers
  BY DEF Stages, Local, Operations, Effective, Writers
<1> QED BY <1>1, <1>2, <1>3, AdvanceInv DEF CheckAccess, table, files

LEMMA StartStreamInv ==
  ASSUME PortalInv, NEW s \in Slots, StartStream(s)
  PROVE  PortalInv'
<1>1. Busy(s)
  BY BusyTyped DEF StartStream, At, PortalInv, Handling, Stages, Serving
<1>2. "stream" \in Stages \ Writers /\ "stream" \in Serving
  BY DEF Stages, Serving, Writers
<1>3. UNCHANGED <<rows, order, issued, part, source, engine, late>>
  BY DEF StartStream, table, files
<1>4. CASE Become(s, Idle)
  BY <1>3, <1>4, EndedHandling, UntouchedKept, EngineKept DEF PortalInv
<1>5. CASE Advance(s, "stream")
  BY <1>1, <1>2, <1>3, <1>5, AdvanceInv
<1> QED BY <1>4, <1>5 DEF StartStream

\* A handler that removes holds what it removes.
LEMMA RemoverHolds ==
  ASSUME PortalInv, NEW s \in Slots, At(s, {"remove", "removed"})
  PROVE  /\ Busy(s) /\ Locks(s) /\ Upload(s) \in Ids /\ Upload(s) <= issued
         /\ handlers[s].rest \in Seq(Item)
         /\ \A i \in DOMAIN handlers[s].rest : handlers[s].rest[i].u <= issued
         /\ \A t \in Slots \ {s} : Locks(t) => Upload(t) # Upload(s)
<1>1. HandlersOK /\ Sound(s)
  BY DEF PortalInv, Handling
<1>2. Busy(s) /\ Locks(s)
  BY <1>1, BusyTyped DEF At, Stages, Local, Locks, Serving
<1> QED BY <1>1, <1>2, BusyTyped, HeldAlone DEF PortalInv, Sound

LEMMA RemoveFilesInv ==
  ASSUME PortalInv, NEW s \in Slots, RemoveFiles(s)
  PROVE  PortalInv'
<1> DEFINE u == Upload(s)
<1>1. /\ At(s, {"remove"}) /\ Advance(s, "removed")
      /\ part' = [part EXCEPT ![u] = <<>>] /\ source' = [source EXCEPT ![u] = <<>>]
      /\ UNCHANGED <<rows, order, issued, engine, late>>
  BY DEF RemoveFiles, table
<1>2. /\ Busy(s) /\ Locks(s) /\ u \in Ids /\ u <= issued
      /\ \A t \in Slots \ {s} : Locks(t) => Upload(t) # u
  BY <1>1, RemoverHolds DEF At
<1>3. "removed" \in Stages
  BY DEF Stages, Local
<1>4. /\ HandlersOK' /\ Exclusion'
      /\ handlers'[s].at = "removed" /\ handlers'[s].rest = handlers[s].rest /\ Upload(s)' = u
      /\ \A t \in Slots \ {s} : handlers'[t] = handlers[t]
  BY <1>1, <1>2, <1>3, Advanced DEF PortalInv
<1>5. Sound(s)'
  BY <1>1, <1>2, <1>4 DEF Sound, At, Writers, PortalInv, Handling
<1>6. ASSUME u \in DOMAIN rows, Len(<<>>) >= rows[u].offset
      PROVE  \A i \in 1..rows[u].offset : <<>>[i] = "ok"
  BY <1>6, EmptySeq DEF PortalInv, TableOK, Row
<1> HIDE DEF u
<1> QED BY <1>1, <1>2, <1>4, <1>5, <1>6, EmptySeq, FileStepInv

LEMMA DeleteRowInv ==
  ASSUME PortalInv, NEW s \in Slots, DeleteRow(s)
  PROVE  PortalInv'
<1> DEFINE u == Upload(s)
<1>1. /\ At(s, {"removed"}) /\ NextItem(s, handlers[s].rest)
      /\ rows' = [v \in DOMAIN rows \ {u} |-> rows[v]] /\ order' = Without(u)
      /\ UNCHANGED <<issued, part, source, engine, late>>
  BY DEF DeleteRow, files
<1>2. /\ handlers[s].rest \in Seq(Item)
      /\ \A i \in DOMAIN handlers[s].rest : handlers[s].rest[i].u <= issued
      /\ \A t \in Slots \ {s} : Locks(t) => Upload(t) # u
  BY <1>1, RemoverHolds DEF At
<1> HIDE DEF u
<1>3. /\ DOMAIN rows' = DOMAIN rows \ {u}
      /\ \A v \in DOMAIN rows \ {u} : rows'[v] = rows[v]
  BY <1>1
<1>4. TableOK'
  BY <1>1, <1>3, WithoutTyped DEF PortalInv, TableOK
<1>5. /\ HandlersOK' /\ Exclusion' /\ Sound(s)'
      /\ \A t \in Slots \ {s} : handlers'[t] = handlers[t]
  BY <1>1, <1>2, Taken DEF PortalInv
<1>6. \A t \in Slots \ {s} : Sound(t)'
  BY <1>1, <1>2, <1>3, <1>5, OthersSpared DEF PortalInv
<1>7. CommittedIntact'
  BY <1>1, <1>3 DEF PortalInv, CommittedIntact
<1>8. Handling'
  BY <1>5, <1>6 DEF Handling
<1> QED BY <1>1, <1>4, <1>7, <1>8, EngineKept DEF PortalInv, FilesOK

LEMMA InitPortalInv == Init => PortalInv
<1> SUFFICES ASSUME Init PROVE PortalInv
  OBVIOUS
<1>1. \A s \in Slots : ~ Busy(s) /\ handlers[s].at = "idle"
  BY DEF Init, Busy, Idle
<1>2. Handling
  BY <1>1 DEF Init, Handling, HandlersOK, Exclusion, Locks, Sound, At, Writers
<1>3. DOMAIN rows = {} /\ rows \in [DOMAIN rows -> Row]
  BY DEF Init
<1>4. order \in Seq(DOMAIN rows) /\ IsInjective(order) /\ Range(order) = DOMAIN rows
  BY <1>3, EmptySeq DEF Init, IsInjective, Range
<1>5. TableOK
  BY <1>3, <1>4, PortalAssumption DEF Init, TableOK
<1>6. NoEngineJob \in EngineJob /\ ~ NoEngineJob.claimed
  BY DEF NoEngineJob, EngineJob
<1>7. EngineOK
  BY <1>6 DEF Init, EngineOK
<1>8. FilesOK
  BY EmptySeq DEF Init, FilesOK
<1>9. LateOK /\ Blank /\ CommittedIntact
  BY <1>3 DEF Init, LateOK, Blank, CommittedIntact
<1> QED BY <1>2, <1>5, <1>7, <1>8, <1>9 DEF PortalInv

LEMMA NextPortalInv == PortalInv /\ [Next]_vars => PortalInv'
<1> SUFFICES ASSUME PortalInv, [Next]_vars PROVE PortalInv'
  OBVIOUS
<1>1. CASE UNCHANGED vars
  BY <1>1 DEF vars, PortalInv, TableOK, FilesOK, EngineOK, LateOK, Handling, HandlersOK,
              Exclusion, Sound, Blank, CommittedIntact, Locks, Busy, At, Upload, Received
<1>2. CASE Begins
  <2>1. Requests \subseteq Slots
    BY DEF Slots
  <2> QED BY <1>2, <2>1, CreateInv, BeginChunkInv, BeginCompleteInv, BeginCancelInv,
             BeginDeleteInv DEF Begins
<1>3. CASE Maintains
  BY <1>3, MaintenanceSubmitsInv, RemoveExpiredInv DEF Maintains
<1>4. ASSUME NEW s \in Slots, Proceeds(s) PROVE PortalInv'
  BY <1>4, FailsInv, NotAnsweredInv, TimesOutInv, OpenPartInv, CommitChunkInv, FailChunkInv,
     CheckFileInv, MarkReadyInv, SubmitReadyInv, StoreJobInv, CheckAccessInv, RemoveFilesInv,
     DeleteRowInv, StartStreamInv DEF Proceeds
<1> QED BY <1>1, <1>2, <1>3, <1>4, RestartInv, WriteUnitInv, AnsweredInv, EngineMovesInv,
           ServeLateInv DEF Next

LEMMA PortalInductive == Spec => []PortalInv
BY InitPortalInv, NextPortalInv, PTL DEF Spec

\* The table, the files and the handlers stay well formed: no chunk is stored
\* beyond the end of its file, no row outlives its place in the order.
THEOREM PortalTyped == Spec => []TypeOK
<1>1. PortalInv => TypeOK
  BY DEF PortalInv, TableOK, FilesOK, EngineOK, LateOK, Handling, HandlersOK, TypeOK
<1> QED BY <1>1, PortalInductive, PTL

\* Whatever was cut off, crashed or came in batches: every committed unit is
\* what its sender meant, and so is the whole of every completed file.
THEOREM CommitsIntact == Spec => []CommittedIntact
<1>1. PortalInv => CommittedIntact
  BY DEF PortalInv
<1> QED BY <1>1, PortalInductive, PTL

------------------------------------------------------------------------------
(* The transfers.                                                          *)

Transferring == {"open", "writing", "stream"}
Active == {s \in Slots : At(s, Transferring)}

\* A handler that does not come to transfer adds none.
LEMMA NoMore ==
  ASSUME HandlersOK, NEW s \in Slots, NEW h, Become(s, h),
         h.at \notin Transferring \/ s \in Active
  PROVE  Active' \subseteq Active
<1>1. handlers'[s] = h /\ \A t \in Slots \ {s} : handlers'[t] = handlers[t]
  BY DEF HandlersOK, Become
<1> QED BY <1>1 DEF Active, At

LEMMA NextItemNoMore ==
  ASSUME HandlersOK, NEW s \in Slots, NEW rest, NextItem(s, rest)
  PROVE  Active' \subseteq Active
<1>1. Idle.at \notin Transferring
  BY DEF Idle, Transferring
<1>2. ASSUME NEW i PROVE
        Work(IF s = Maintenance THEN "remove" ELSE "access", rest[i], 0,
             SubSeq(rest, i + 1, Len(rest))).at \notin Transferring
  BY DEF Work, Transferring
<1> QED BY <1>1, <1>2, NoMore DEF NextItem

LEMMA AbandonNoMore ==
  ASSUME HandlersOK, NEW s \in Slots, Abandon(s)
  PROVE  Active' \subseteq Active
<1>1. Idle.at \notin Transferring /\ Expire.at \notin Transferring
  BY DEF Idle, Expire, Transferring
<1> QED BY <1>1, AbandonCases, NoMore, NextItemNoMore

\* Going to a stage that transfers nothing, or on with a transfer.
LEMMA AdvanceNoMore ==
  ASSUME HandlersOK, NEW s \in Slots, Busy(s), NEW stage, Advance(s, stage),
         stage \notin Transferring \/ s \in Active
  PROVE  Active' \subseteq Active
<1>1. handlers[s] \in Working
  BY BusyTyped
<1>2. [handlers[s] EXCEPT !.at = stage].at = stage
  BY <1>1 DEF Working
<1> QED BY <1>2, NoMore DEF Advance

LEMMA BeginNoMore ==
  ASSUME HandlersOK, NEW s \in Slots, NEW u, NEW stage \in {"check", "create", "cancel", "status"},
         Begin(s, stage, u)
  PROVE  Active' \subseteq Active
<1>1. Work(stage, Snapshot(u), 0, <<>>).at \notin Transferring
  BY DEF Work, Transferring
<1> QED BY <1>1, NoMore DEF Begin

\* A step of handler s adds no transfer unless a chunk or a stream begins.
LEMMA ProceedsNoMore ==
  ASSUME PortalInv, NEW s \in Slots, Proceeds(s) \/ WriteUnit(s) \/ Answered(s)
  PROVE  Active' \subseteq Active \/ StartStream(s)
<1>1. HandlersOK
  BY DEF PortalInv, Handling
<1>2. ASSUME At(s, Stages) PROVE Busy(s)
  BY <1>1, <1>2, BusyTyped
<1>3. Idle.at \notin Transferring /\ Expire.at \notin Transferring
  BY DEF Idle, Expire, Transferring
<1>4. CASE Fails(s) \/ NotAnswered(s) \/ TimesOut(s)
  BY <1>1, <1>4, AbandonNoMore DEF Fails, NotAnswered, TimesOut
<1>5. CASE CommitChunk(s) \/ FailChunk(s) \/ StoreJob(s)
  <2>1. \E h \in {Idle, Expire} : Become(s, h)
    BY <1>5 DEF CommitChunk, FailChunk, StoreJob
  <2> QED BY <1>1, <1>3, <2>1, NoMore
<1>6. CASE OpenPart(s)
  BY <1>1, <1>2, <1>6, AdvanceNoMore
     DEF OpenPart, At, Stages, Local, Active, Transferring
<1>7. CASE CheckFile(s) \/ MarkReady(s) \/ CheckAccess(s) \/ RemoveFiles(s)
  <2>1. At(s, Stages)
    BY <1>7 DEF CheckFile, MarkReady, CheckAccess, RemoveFiles, At, Stages, Local
  <2>2. \E stage \in {"ready", "submit", "claim", "remove", "removed"} : Advance(s, stage)
    BY <1>7 DEF CheckFile, MarkReady, CheckAccess, RemoveFiles
  <2>3. {"ready", "submit", "claim", "remove", "removed"} \cap Transferring = {}
    BY DEF Transferring
  <2> QED BY <1>1, <1>2, <2>1, <2>2, <2>3, AdvanceNoMore
<1>8. CASE SubmitReady(s)
  BY <1>1, <1>8, BeginNoMore DEF SubmitReady, Submit
<1>9. CASE DeleteRow(s)
  BY <1>1, <1>9, NextItemNoMore DEF DeleteRow
<1>10. CASE WriteUnit(s)
  BY <1>10 DEF WriteUnit, Active, At
<1>11. CASE Answered(s)
  <2>1. At(s, Stages) /\ handlers[s].at \in Operations
    BY <1>11 DEF Answered, At, Stages
  <2>2. Become(s, Idle) \/ \E stage \in {"created", "remove", "locate"} : Advance(s, stage)
    BY <1>11, <2>1 DEF Answered, Operations, Effective
  <2>3. {"created", "remove", "locate"} \cap Transferring = {}
    BY DEF Transferring
  <2> QED BY <1>1, <1>2, <1>3, <2>1, <2>2, <2>3, AdvanceNoMore, NoMore
<1> QED BY <1>4, <1>5, <1>6, <1>7, <1>8, <1>9, <1>10, <1>11 DEF Proceeds

LEMMA TransferStep ==
  ASSUME PortalInv, [Next]_vars
  PROVE  \/ Active' \subseteq Active
         \/ Transfers < MaxTransfers /\ \E s \in Slots : Active' \subseteq Active \cup {s}
<1>1. HandlersOK
  BY DEF PortalInv, Handling
<1>2. \A s \in Requests : s \in Slots
  BY DEF Slots
<1>3. ASSUME NEW s \in Slots, \A t \in Slots \ {s} : handlers'[t] = handlers[t]
      PROVE  Active' \subseteq Active \cup {s}
  BY <1>3 DEF Active, At
<1>4. ASSUME NEW s \in Slots, NEW h, Become(s, h)
      PROVE  \A t \in Slots \ {s} : handlers'[t] = handlers[t]
  BY <1>1, <1>4 DEF HandlersOK, Become
<1>5. CASE UNCHANGED vars
  BY <1>5 DEF vars, Active, At
<1>6. CASE Begins
  <2>1. CASE \E f \in Files : Create(f)
    BY <2>1 DEF Create, Active, At
  <2>2. ASSUME NEW s \in Requests, NEW u \in DOMAIN rows, BeginChunk(s, u)
        PROVE  Transfers < MaxTransfers /\ Active' \subseteq Active \cup {s}
    BY <1>2, <1>3, <1>4, <2>2 DEF BeginChunk
  <2>3. ASSUME NEW s \in Requests, NEW u \in DOMAIN rows,
               BeginComplete(s, u) \/ BeginCancel(s, u) \/ BeginDownload(s, u)
        PROVE  Active' \subseteq Active
    <3>1. \E stage \in {"check", "create", "cancel", "status"} : Begin(s, stage, u)
      BY <2>3 DEF BeginComplete, BeginCancel, BeginDownload, Submit
    <3> QED BY <1>1, <1>2, <3>1, BeginNoMore
  <2>4. ASSUME NEW s \in Requests, NEW us, BeginDelete(s, us) PROVE Active' \subseteq Active
    BY <1>1, <1>2, <2>4, NextItemNoMore DEF BeginDelete
  <2> QED BY <1>2, <1>6, <2>1, <2>2, <2>3, <2>4 DEF Begins
<1>7. CASE Maintains
  <2>1. Maintenance \in Slots
    BY DEF Slots
  <2> QED BY <1>1, <1>7, <2>1, BeginNoMore, NextItemNoMore
          DEF Maintains, MaintenanceSubmits, Submit, RemoveExpired
<1>8. CASE Restart
  BY <1>8 DEF Restart, Active, At, Idle, Transferring
<1>9. ASSUME NEW s \in Slots, Proceeds(s) \/ WriteUnit(s) \/ Answered(s)
      PROVE  \/ Active' \subseteq Active
             \/ Transfers < MaxTransfers /\ Active' \subseteq Active \cup {s}
  <2>1. CASE StartStream(s)
    <3>1. CASE Transfers < MaxTransfers
      BY <1>3, <1>4, <2>1, <3>1 DEF StartStream, Advance
    <3>2. CASE ~ (Transfers < MaxTransfers)
      BY <1>1, <2>1, <3>2, NoMore DEF StartStream, Idle, Transferring
    <3> QED BY <3>1, <3>2
  <2> QED BY <1>9, <2>1, ProceedsNoMore
<1>10. CASE \E u \in Ids : EngineMoves(u)
  BY <1>10 DEF EngineMoves, Active, At
<1>11. CASE \E request \in late : ServeLate(request)
  BY <1>11 DEF ServeLate, Active, At
<1> QED BY <1>5, <1>6, <1>7, <1>8, <1>9, <1>10, <1>11 DEF Next

LEMMA ActiveFinite == IsFiniteSet(Active) /\ Cardinality(Active) \in Nat /\ Transfers = Cardinality(Active)
<1>1. IsFiniteSet(Slots)
  BY PortalAssumption, FS_AddElement DEF Slots
<1>2. IsFiniteSet(Active)
  BY <1>1, FS_Subset DEF Active
<1> QED BY <1>2, FS_CardinalityType DEF Active, Transfers, Transferring

\* However requests overlap, uploads and downloads together stay within the
\* limit, although a download checks it before its awaits and counts after.
THEOREM TransfersWithin == Spec => []TransfersBounded
<1>1. Init => TransfersBounded
  <2> SUFFICES ASSUME Init PROVE TransfersBounded
    OBVIOUS
  <2>1. Active = {}
    BY DEF Init, Active, At, Idle, Transferring
  <2> QED BY <2>1, ActiveFinite, FS_EmptySet, PortalAssumption DEF TransfersBounded
<1>2. PortalInv /\ TransfersBounded /\ [Next]_vars => TransfersBounded'
  <2> SUFFICES ASSUME PortalInv, TransfersBounded, [Next]_vars PROVE TransfersBounded'
    OBVIOUS
  <2> DEFINE a == Active
             b == Active'
  <2>1. /\ IsFiniteSet(a) /\ Cardinality(a) \in Nat /\ Transfers = Cardinality(a)
        /\ Cardinality(a) <= MaxTransfers
    BY ActiveFinite DEF TransfersBounded
  <2>2. Transfers' = Cardinality(b)
    BY DEF Transfers, Active, Transferring, b
  <2> HIDE DEF a, b
  <2>3. CASE b \subseteq a
    <3>1. Cardinality(b) <= Cardinality(a) /\ Cardinality(b) \in Nat
      BY <2>1, <2>3, FS_Subset, FS_CardinalityType
    <3> QED BY <2>1, <2>2, <3>1, PortalAssumption DEF TransfersBounded
  <2>4. ASSUME NEW s \in Slots, Transfers < MaxTransfers, b \subseteq a \cup {s}
        PROVE  TransfersBounded'
    <3>1. /\ IsFiniteSet(a \cup {s})
          /\ Cardinality(a \cup {s}) = IF s \in a THEN Cardinality(a) ELSE Cardinality(a) + 1
      BY <2>1, FS_AddElement
    <3>2. Cardinality(b) <= Cardinality(a \cup {s}) /\ Cardinality(b) \in Nat
      BY <2>4, <3>1, FS_Subset, FS_CardinalityType
    <3> QED BY <2>1, <2>2, <2>4, <3>1, <3>2, PortalAssumption DEF TransfersBounded
  <2> QED BY <2>3, <2>4, TransferStep DEF a, b
<1> QED BY <1>1, <1>2, PortalInductive, PTL DEF Spec

------------------------------------------------------------------------------
(* Sources and jobs, as long as the records a batch has read are current.  *)

Cleaning == {"claim", "remove", "removed"}
Reading  == Serving \cup {"status"}

\* When a batch takes up a record, and until it is done with it, the record is
\* the row as it stands.
Current(s) ==
  At(s, Cleaning \cup {"access"}) =>
    Upload(s) \in DOMAIN rows /\ handlers[s].item = Snapshot(Upload(s))
RecordsCurrent == \A s \in Slots : Current(s)

\* Every cleanup asks for one record, and every maintenance run removes one.
OneAtATime == \A s \in Slots : Busy(s) => handlers[s].rest = <<>>

\* What the stage of a handler tells of its upload.
Staged(s) ==
  /\ At(s, {"open", "writing", "check", "ready"}) => rows[Upload(s)].state = "uploading"
  /\ At(s, {"ready"}) => source[Upload(s)] # <<>>
  /\ At(s, {"submit"}) => rows[Upload(s)].state = "ready"
  /\ At(s, {"create", "created"}) => rows[Upload(s)].state = "submitting"
  /\ At(s, {"created"}) => engine[Upload(s)].status # "none"
  /\ At(s, Cleaning) => handlers[s].item.state \notin Unconfirmed
  /\ At(s, {"remove", "removed"}) /\ handlers[s].item.job => engine[Upload(s)].claimed
  /\ s = Maintenance /\ Busy(s) =>
       \A i \in DOMAIN handlers[s].rest : handlers[s].rest[i].state = "uploading"

\* A download reads the result of a recorded job, and nobody removes it.
Undisturbed(s) ==
  At(s, Reading) =>
    /\ Upload(s) \in DOMAIN rows /\ rows[Upload(s)].job
    /\ \A t \in Slots : ~ (At(t, Cleaning) /\ Upload(t) = Upload(s))

CreateRequest(u) == [op |-> "create", u |-> u]
Asked(u) == CreateRequest(u) \in late \/ engine[u].status # "none"

\* The row a job may be created for, or what makes its creation impossible.
Expected(u) == IF u \in DOMAIN rows THEN rows[u].state \in {"submitting", "submitted"}
                                   ELSE engine[u].claimed

\* What row, files and job of one upload have to do with each other.
JobKept(u) ==
  /\ Asked(u) => Expected(u)
  /\ engine[u].status # "none" /\ ~ engine[u].claimed => source[u] # <<>>
  /\ u \in DOMAIN rows => /\ rows[u].state \in Unconfirmed => source[u] # <<>>
                          /\ rows[u].job <=> rows[u].state = "submitted"
                          /\ rows[u].job => engine[u].status # "none"

JobsKept == \A u \in Ids : JobKept(u)
TraceInv == JobsKept /\ \A s \in Slots : Staged(s) /\ Undisturbed(s)

\* The engine never forgets that a job was, nor that it was claimed.
Remembers ==
  \A u \in Ids : /\ engine[u].status # "none" => engine'[u].status # "none"
                 /\ engine[u].claimed => engine'[u].claimed

\* Row, source, job and request of upload u stay as they are.
Spared(u) ==
  /\ u \in DOMAIN rows' <=> u \in DOMAIN rows
  /\ u \in DOMAIN rows => rows'[u] = rows[u]
  /\ source'[u] = source[u] /\ engine'[u] = engine[u]
  /\ CreateRequest(u) \in late' => CreateRequest(u) \in late

LEMMA SparedKept ==
  ASSUME NEW u \in Ids, JobKept(u), Spared(u)
  PROVE  JobKept(u)'
BY DEF JobKept, Spared, Asked, Expected, CreateRequest

\* Every stage that Staged speaks of holds the lock.
LEMMA StagedLocks ==
  ASSUME HandlersOK, NEW s \in Slots, At(s, Writers \cup Cleaning \cup {"access"})
  PROVE  Busy(s) /\ Locks(s) /\ handlers[s] \in Working /\ Upload(s) \in Ids
<1>1. At(s, Stages)
  BY DEF At, Writers, Cleaning, Stages, Local, Operations, Effective
<1>2. ~ At(s, Serving \cup {"status"})
  BY DEF At, Writers, Cleaning, Serving
<1> QED BY <1>1, <1>2, BusyTyped DEF Locks

\* A handler that does not move keeps what it knows of an upload it holds, as
\* long as nobody else touches it.
LEMMA StagedKept ==
  ASSUME PortalInv, NEW t \in Slots, Staged(t), handlers'[t] = handlers[t], Remembers,
         Locks(t) => /\ Upload(t) \in DOMAIN rows => rows'[Upload(t)] = rows[Upload(t)]
                     /\ source'[Upload(t)] = source[Upload(t)]
  PROVE  Staged(t)'
<1>1. HandlersOK /\ Sound(t)
  BY DEF PortalInv, Handling
<1>2. ASSUME At(t, Writers)
      PROVE  /\ Upload(t) \in DOMAIN rows /\ rows'[Upload(t)] = rows[Upload(t)]
             /\ source'[Upload(t)] = source[Upload(t)] /\ Upload(t) \in Ids
  BY <1>1, <1>2, StagedLocks DEF At, Sound
<1>3. ASSUME At(t, Cleaning) PROVE Upload(t) \in Ids
  BY <1>1, <1>3, StagedLocks DEF At
<1>4. /\ At(t, {"open", "writing", "check", "ready"}) => At(t, Writers)
      /\ At(t, {"ready"}) => At(t, Writers)
      /\ At(t, {"submit"}) => At(t, Writers)
      /\ At(t, {"create", "created"}) => At(t, Writers)
      /\ At(t, {"created"}) => At(t, Writers)
      /\ At(t, {"remove", "removed"}) => At(t, Cleaning)
  BY DEF At, Writers, Cleaning
<1>5. /\ \A stages : At(t, stages)' <=> handlers[t].at \in stages
      /\ Upload(t)' = Upload(t)
      /\ Busy(t)' <=> Busy(t)
  BY DEF At, Upload, Busy
<1> QED BY <1>2, <1>3, <1>4, <1>5 DEF Staged, At, Remembers

\* A download goes on undisturbed when its row keeps its job and nobody begins
\* to remove it.
LEMMA UndisturbedKept ==
  ASSUME PortalInv, NEW t \in Slots, Undisturbed(t), handlers'[t] = handlers[t],
         At(t, Reading) => /\ Upload(t) \in DOMAIN rows' /\ rows'[Upload(t)].job
                           /\ \A s \in Slots : At(s, Cleaning)' /\ Upload(s)' = Upload(t) =>
                                At(s, Cleaning) /\ Upload(s) = Upload(t)
  PROVE  Undisturbed(t)'
BY DEF Undisturbed, At, Upload

\* A step of the slots in moved, which touches row and files of u at most.
LEMMA OthersKept ==
  ASSUME PortalInv, TraceInv, NEW moved \in SUBSET Slots, NEW u, Remembers,
         \A t \in Slots \ moved : handlers'[t] = handlers[t],
         \A v \in DOMAIN rows \ {u} : v \in DOMAIN rows' /\ rows'[v] = rows[v],
         \A v \in Ids \ {u} : source'[v] = source[v],
         \/ \A t \in Slots \ moved : Locks(t) => Upload(t) # u
         \/ UNCHANGED <<rows, source>>,
         u \in DOMAIN rows /\ rows[u].job =>
           \/ u \in DOMAIN rows' /\ rows'[u].job
           \/ \E s \in Slots : At(s, Cleaning) /\ Upload(s) = u,
         \A s \in moved : At(s, Cleaning)' =>
           \/ At(s, Cleaning) /\ Upload(s)' = Upload(s)
           \/ ~ Downloading(Upload(s)')
           \/ ~ (Upload(s)' \in DOMAIN rows' /\ rows'[Upload(s)'].job)
  PROVE  \A t \in Slots \ moved : Staged(t)' /\ Undisturbed(t)'
<1> SUFFICES ASSUME NEW t \in Slots \ moved PROVE Staged(t)' /\ Undisturbed(t)'
  OBVIOUS
<1>1. HandlersOK /\ Staged(t) /\ Undisturbed(t)
  BY DEF PortalInv, Handling, TraceInv
<1>2. Staged(t)'
  <2>1. Locks(t) => Upload(t) \in Ids
    BY <1>1, BusyTyped DEF Locks
  <2> QED BY <1>1, <2>1, StagedKept
<1>3. ASSUME At(t, Reading)
      PROVE  /\ Upload(t) \in DOMAIN rows' /\ rows'[Upload(t)].job
             /\ \A s \in Slots : At(s, Cleaning)' /\ Upload(s)' = Upload(t) =>
                  At(s, Cleaning) /\ Upload(s) = Upload(t)
  <2>1. /\ Upload(t) \in DOMAIN rows /\ rows[Upload(t)].job
        /\ \A s \in Slots : ~ (At(s, Cleaning) /\ Upload(s) = Upload(t))
    BY <1>1, <1>3 DEF Undisturbed
  <2>2. Upload(t) \in DOMAIN rows' /\ rows'[Upload(t)].job
    BY <2>1
  <2>3. Downloading(Upload(t))
    <3>1. Busy(t)
      BY <1>1, <1>3, BusyTyped DEF At, Reading, Stages, Operations
    <3> QED BY <1>3, <3>1 DEF Downloading, At, Reading, On, Upload
  <2>4. ASSUME NEW s \in Slots, At(s, Cleaning)', Upload(s)' = Upload(t)
        PROVE  At(s, Cleaning) /\ Upload(s) = Upload(t)
    <3>1. CASE s \in moved
      BY <2>2, <2>3, <2>4, <3>1
    <3>2. CASE s \notin moved
      BY <2>4, <3>2 DEF At, Upload
    <3> QED BY <3>1, <3>2
  <2> QED BY <2>2, <2>4
<1> QED BY <1>1, <1>2, <1>3, UndisturbedKept

------------------------------------------------------------------------------
(* The engine again.                                                       *)

LEMMA ServeRemembers ==
  ASSUME PortalInv, JobsKept, NEW op \in Operations, NEW u \in Ids, Serve(op, u),
         UNCHANGED <<rows, source>>, late' \subseteq late, op = "create" => Expected(u)
  PROVE  /\ Remembers /\ JobsKept'
         /\ op = "create" /\ Accepted(op, u) => engine'[u].status # "none"
         /\ op = "claim" /\ Accepted(op, u) => engine'[u].claimed
<1> DEFINE e == Served(op, u)
<1>1. /\ engine \in [Ids -> EngineJob] /\ engine[u] \in EngineJob
      /\ engine[u].status = "none" => engine[u] = NoEngineJob
      /\ ~ NoEngineJob.live /\ ~ NoEngineJob.claimed /\ NoEngineJob.status = "none"
  BY DEF PortalInv, EngineOK, NoEngineJob
<1>2. /\ engine[u].status # "none" => e.status # "none"
      /\ engine[u].claimed => e.claimed
      /\ e.status # "none" =>
           engine[u].status # "none" \/ (op = "create" /\ engine[u] = NoEngineJob)
      /\ op = "create" /\ Accepted(op, u) => e.status # "none"
      /\ op = "claim" /\ Accepted(op, u) => e.claimed
  <2>1. CASE op = "create" /\ engine[u] = NoEngineJob
    <3>1. e = [status |-> "ACTIVE", live |-> TRUE, claimed |-> FALSE]
      BY <2>1 DEF Served
    <3> HIDE DEF e
    <3> QED BY <1>1, <2>1, <3>1
  <2>2. CASE op = "claim" /\ Accepted(op, u)
    <3>1. e = [engine[u] EXCEPT !.claimed = TRUE]
      BY <2>2 DEF Served
    <3>2. engine[u].status \in {"COMPLETED", "FAILED"}
      BY <2>2 DEF Accepted
    <3> HIDE DEF e
    <3> QED BY <1>1, <2>2, <3>1, <3>2 DEF EngineJob
  <2>3. CASE op = "cancel" /\ engine[u].live /\ engine[u].status = "ACTIVE"
    <3>1. e = [engine[u] EXCEPT !.status = "CANCELLED"]
      BY <2>3 DEF Served
    <3> HIDE DEF e
    <3> QED BY <1>1, <2>3, <3>1 DEF EngineJob
  <2>4. CASE /\ ~ (op = "create" /\ engine[u] = NoEngineJob)
             /\ ~ (op = "claim" /\ Accepted(op, u))
             /\ ~ (op = "cancel" /\ engine[u].live /\ engine[u].status = "ACTIVE")
    <3>1. e = engine[u]
      BY <2>4 DEF Served
    <3>2. op = "create" /\ Accepted(op, u) => engine[u].live
      BY <2>4 DEF Accepted
    <3> HIDE DEF e
    <3> QED BY <1>1, <2>4, <3>1, <3>2
  <2> QED BY <2>1, <2>2, <2>3, <2>4
<1> HIDE DEF e
<1>3. /\ engine' = [engine EXCEPT ![u] = e] /\ engine'[u] = e
      /\ \A v \in Ids \ {u} : engine'[v] = engine[v]
  BY <1>1 DEF Serve, e
<1>4. Remembers
  BY <1>2, <1>3 DEF Remembers
<1>5. JobKept(u)'
  <2>1. JobKept(u)
    BY DEF JobsKept
  <2>2. CASE engine[u].status # "none"
    <3>1. Expected(u)'
      BY <1>2, <1>3, <2>1, <2>2 DEF JobKept, Asked, Expected
    <3>2. engine'[u].status # "none" /\ ~ engine'[u].claimed => source'[u] # <<>>
      BY <1>2, <1>3, <2>1, <2>2 DEF JobKept
    <3> QED BY <1>2, <1>3, <2>1, <2>2, <3>1, <3>2 DEF JobKept
  <2>3. CASE engine[u].status = "none" /\ e.status = "none"
    BY <1>1, <1>2, <1>3, <2>1, <2>3 DEF JobKept, Asked, Expected, CreateRequest
  <2>4. CASE engine[u].status = "none" /\ e.status # "none"
    <3>1. op = "create" /\ engine[u] = NoEngineJob
      BY <1>2, <2>4
    <3>2. u \in DOMAIN rows /\ rows[u].state \in {"submitting", "submitted"}
      BY <1>1, <3>1 DEF Expected
    <3>3. rows[u].state = "submitting" /\ source[u] # <<>>
      BY <2>1, <2>4, <3>2 DEF JobKept, Unconfirmed
    <3> QED BY <1>3, <2>1, <2>4, <3>2, <3>3 DEF JobKept, Asked, Expected
  <2> QED BY <2>2, <2>3, <2>4
<1>6. \A v \in Ids \ {u} : JobKept(v)'
  BY <1>3, SparedKept DEF JobsKept, Spared
<1> QED BY <1>2, <1>3, <1>4, <1>5, <1>6 DEF JobsKept

LEMMA EngineMovesTrace ==
  ASSUME PortalInv, TraceInv, NEW u \in Ids, EngineMoves(u)
  PROVE  TraceInv'
<1>1. UNCHANGED <<rows, source, late, handlers>>
  BY DEF EngineMoves, table, files
<1>2. engine \in [Ids -> EngineJob] /\ engine[u] \in EngineJob
  BY DEF PortalInv, EngineOK
<1>3. /\ engine[u].status # "none" /\ engine'[u].status # "none"
      /\ engine'[u].claimed = engine[u].claimed
      /\ \A v \in Ids \ {u} : engine'[v] = engine[v]
  BY <1>2 DEF EngineMoves, EngineJob
<1>4. Remembers
  BY <1>3 DEF Remembers
<1>5. JobKept(u)'
  BY <1>1, <1>3 DEF TraceInv, JobsKept, JobKept, Asked, Expected
<1>6. \A v \in Ids \ {u} : JobKept(v)'
  BY <1>1, <1>3, SparedKept DEF TraceInv, JobsKept, Spared
<1>7. \A t \in Slots \ {} : Staged(t)' /\ Undisturbed(t)'
  BY <1>1, <1>4, OthersKept
<1> QED BY <1>5, <1>6, <1>7 DEF TraceInv, JobsKept

LEMMA ServeLateTrace ==
  ASSUME PortalInv, TraceInv, NEW request \in late, ServeLate(request)
  PROVE  TraceInv'
<1>1. /\ UNCHANGED <<rows, source, handlers>>
      /\ late' \subseteq late /\ Serve(request.op, request.u)
  BY DEF ServeLate, table, files
<1>2. /\ request.op \in Operations /\ request.u \in Ids
      /\ request = [op |-> request.op, u |-> request.u]
  BY DEF PortalInv, LateOK, Operations
<1>3. request.op = "create" => Expected(request.u)
  BY <1>2 DEF TraceInv, JobsKept, JobKept, Asked, CreateRequest
<1>4. Remembers /\ JobsKept'
  BY <1>1, <1>2, <1>3, ServeRemembers DEF TraceInv
<1>5. \A t \in Slots \ {} : Staged(t)' /\ Undisturbed(t)'
  BY <1>1, <1>2, <1>4, OthersKept
<1> QED BY <1>4, <1>5 DEF TraceInv

------------------------------------------------------------------------------
(* The handlers again.                                                     *)

LEMMA SlotsKnown == PortalInv /\ TraceInv => HandlersOK /\ \A s \in Slots : Sound(s) /\ Staged(s) /\ Undisturbed(s)
BY DEF PortalInv, Handling, TraceInv

LEMMA FinishedStaged ==
  ASSUME PortalInv, NEW s \in Slots, NEW h \in {Idle, Expire}, Become(s, h)
  PROVE  /\ Staged(s)' /\ Undisturbed(s)' /\ ~ At(s, Cleaning)'
         /\ \A t \in Slots \ {s} : handlers'[t] = handlers[t]
<1>1. handlers'[s] = h /\ \A t \in Slots \ {s} : handlers'[t] = handlers[t]
  BY Finished DEF PortalInv
<1>2. ~ Busy(s)' /\ handlers'[s].at \in {"idle", "expire"}
  BY <1>1 DEF Busy, Idle, Expire
<1> QED BY <1>1, <1>2
        DEF Staged, Undisturbed, At, Cleaning, Reading, Serving

\* Removing a record that is current and was still uploading takes no job.
LEMMA TakenStaged ==
  ASSUME PortalInv, NEW s \in Slots, NEW rest \in Seq(Item), NextItem(s, rest),
         \A i \in DOMAIN rest : rest[i].u <= issued, issued' = issued,
         s = Maintenance => \A i \in DOMAIN rest : rest[i].state = "uploading",
         JobsKept', RecordsCurrent'
  PROVE  /\ Staged(s)' /\ Undisturbed(s)'
         /\ At(s, Cleaning)' => ~ (Upload(s)' \in DOMAIN rows' /\ rows'[Upload(s)'].job)
         /\ \A t \in Slots \ {s} : handlers'[t] = handlers[t]
<1>1. /\ \A t \in Slots \ {s} : handlers'[t] = handlers[t]
      /\ \/ handlers'[s] = Idle
         \/ \E i \in DOMAIN rest :
              /\ handlers'[s] = Work(IF s = Maintenance THEN "remove" ELSE "access",
                                     rest[i], 0, SubSeq(rest, i + 1, Len(rest)))
              /\ handlers'[s] \in Working
  BY Taken DEF PortalInv
<1>2. CASE handlers'[s] = Idle
  <2>1. ~ Busy(s)' /\ handlers'[s].at = "idle"
    BY <1>2 DEF Busy, Idle
  <2> QED BY <1>1, <2>1 DEF Staged, Undisturbed, At, Cleaning, Reading, Serving
<1>3. ASSUME NEW i \in DOMAIN rest, handlers'[s] \in Working,
             handlers'[s] = Work(IF s = Maintenance THEN "remove" ELSE "access",
                                 rest[i], 0, SubSeq(rest, i + 1, Len(rest)))
      PROVE  /\ Staged(s)' /\ Undisturbed(s)'
             /\ At(s, Cleaning)' => ~ (Upload(s)' \in DOMAIN rows' /\ rows'[Upload(s)'].job)
  <2>1. CASE s # Maintenance
    <3>1. handlers'[s].at = "access"
      BY <1>3, <2>1 DEF Work
    <3> QED BY <2>1, <3>1 DEF Staged, Undisturbed, At, Cleaning, Reading, Serving
  <2>2. CASE s = Maintenance
    <3> DEFINE left == SubSeq(rest, i + 1, Len(rest))
    <3>1. /\ handlers'[s].at = "remove" /\ handlers'[s].item = rest[i]
          /\ handlers'[s].rest = left /\ Upload(s)' = rest[i].u
      BY <1>3, <2>2 DEF Work, Upload
    <3>2. \A j \in DOMAIN left : left[j].state = "uploading"
      <4>1. /\ Len(rest) \in Nat /\ DOMAIN rest = 1..Len(rest)
            /\ \A j \in 1..Len(rest) : rest[j] \in Item
        BY LenProperties, ElementOfSeq
      <4>2. /\ left \in Seq(Item)
            /\ \A j \in 1..Len(rest) - (i + 1) + 1 : left[j] = rest[i + 1 + j - 1]
            /\ Len(left) = IF i + 1 <= Len(rest) THEN Len(rest) - (i + 1) + 1 ELSE 0
        BY <4>1, SubSeqProperties
      <4> HIDE DEF left
      <4>3. DOMAIN left = 1..Len(left) /\ Len(left) \in Nat
        BY <4>2, LenProperties
      <4>4. ASSUME NEW j \in DOMAIN left PROVE left[j].state = "uploading"
        <5>1. j \in 1..Len(rest) - (i + 1) + 1 /\ i + 1 + j - 1 \in DOMAIN rest
          BY <4>1, <4>2, <4>3
        <5> QED BY <2>2, <4>2, <5>1
      <4> QED BY <4>4
    <3> HIDE DEF left
    <3>3. /\ rest[i].u \in DOMAIN rows' /\ rest[i].state = "uploading"
          /\ rest[i] = Snapshot(rest[i].u)'
      <4>1. Current(s)' /\ At(s, Cleaning \cup {"access"})'
        BY <3>1 DEF RecordsCurrent, At, Cleaning
      <4> QED BY <2>2, <3>1, <4>1 DEF Current, Snapshot
    <3>4. rest[i].u \in Ids
      <4>1. rest[i] \in Item
        BY ElementOfSeq, LenProperties
      <4> QED BY <4>1 DEF Item
    <3>5. rows'[rest[i].u].state = "uploading" /\ rest[i].job = rows'[rest[i].u].job
      BY <3>3 DEF Snapshot
    <3>6. ~ rows'[rest[i].u].job
      BY <3>3, <3>4, <3>5 DEF JobsKept, JobKept
    <3>7. ~ At(s, Reading)'
      BY <3>1 DEF At, Reading, Serving
    <3> QED BY <3>1, <3>2, <3>3, <3>5, <3>6, <3>7
            DEF Staged, Undisturbed, At, Unconfirmed
  <2> QED BY <2>1, <2>2
<1> QED BY <1>1, <1>2, <1>3

\* A step of one handler that touches neither table nor files.
LEMMA HandlerTrace ==
  ASSUME PortalInv, TraceInv, NEW s \in Slots, UNCHANGED <<rows, source>>, Remembers, JobsKept',
         \A t \in Slots \ {s} : handlers'[t] = handlers[t],
         Staged(s)', Undisturbed(s)',
         At(s, Cleaning)' =>
           \/ At(s, Cleaning) /\ Upload(s)' = Upload(s)
           \/ ~ Downloading(Upload(s)')
           \/ ~ (Upload(s)' \in DOMAIN rows' /\ rows'[Upload(s)'].job)
  PROVE  TraceInv'
<1>1. \A t \in Slots \ {s} : Staged(t)' /\ Undisturbed(t)'
  <2> DEFINE moved == {s}
  <2>1. moved \in SUBSET Slots /\ Slots \ moved = Slots \ {s}
    OBVIOUS
  <2>2. \A v \in DOMAIN rows \ {0} : v \in DOMAIN rows' /\ rows'[v] = rows[v]
    OBVIOUS
  <2>3. \A v \in Ids \ {0} : source'[v] = source[v]
    OBVIOUS
  <2>4. 0 \in DOMAIN rows /\ rows[0].job => 0 \in DOMAIN rows' /\ rows'[0].job
    OBVIOUS
  <2>5. \A t \in moved : At(t, Cleaning)' =>
          \/ At(t, Cleaning) /\ Upload(t)' = Upload(t)
          \/ ~ Downloading(Upload(t)')
          \/ ~ (Upload(t)' \in DOMAIN rows' /\ rows'[Upload(t)'].job)
    OBVIOUS
  <2> HIDE DEF moved
  <2> QED BY <2>1, <2>2, <2>3, <2>4, <2>5, OthersKept
<1> QED BY <1>1 DEF TraceInv

LEMMA SameRemembers == ASSUME UNCHANGED engine PROVE Remembers
BY DEF Remembers

LEMMA JobsSame ==
  ASSUME JobsKept, UNCHANGED <<rows, source, engine>>, late' \subseteq late
  PROVE  JobsKept' /\ Remembers
BY SparedKept, SameRemembers DEF JobsKept, Spared

LEMMA EndedTrace ==
  ASSUME PortalInv, TraceInv, NEW s \in Slots, NEW h \in {Idle, Expire}, Become(s, h),
         UNCHANGED <<rows, source>>, Remembers, JobsKept'
  PROVE  TraceInv'
BY FinishedStaged, HandlerTrace

LEMMA AbandonTrace ==
  ASSUME PortalInv, TraceInv, NEW s \in Slots, Busy(s), Abandon(s),
         UNCHANGED <<rows, source, issued>>, Remembers, JobsKept', RecordsCurrent'
  PROVE  TraceInv'
<1>1. /\ handlers[s].rest \in Seq(Item)
      /\ \A i \in DOMAIN handlers[s].rest : handlers[s].rest[i].u <= issued
  BY BusyTyped, SlotsKnown DEF Sound
<1>2. CASE Become(s, Idle) \/ Become(s, Expire)
  BY <1>2, EndedTrace
<1>3. CASE s # Maintenance /\ NextItem(s, handlers[s].rest)
  BY <1>1, <1>3, TakenStaged, HandlerTrace
<1> QED BY <1>2, <1>3, AbandonCases

LEMMA FailsTrace ==
  ASSUME PortalInv, TraceInv, NEW s \in Slots, Fails(s), RecordsCurrent'
  PROVE  TraceInv'
<1>1. Busy(s)
  BY BusyTyped, SlotsKnown DEF Fails, At, Stages, Local, Serving
<1>2. UNCHANGED <<rows, issued, source, engine, late>> /\ Abandon(s)
  BY DEF Fails, table, files
<1>3. JobsKept' /\ Remembers
  BY <1>2, JobsSame DEF TraceInv
<1> QED BY <1>1, <1>2, <1>3, AbandonTrace

\* A create that was asked for is expected.
LEMMA AskingExpected ==
  ASSUME PortalInv, TraceInv, NEW s \in Slots, At(s, Operations)
  PROVE  handlers[s].at = "create" => Expected(Upload(s))
<1>1. handlers[s].at = "create" => At(s, Writers) /\ At(s, {"create", "created"})
  BY DEF At, Writers
<1> QED BY <1>1, SlotsKnown DEF Sound, Staged, Expected

LEMMA AnsweredTrace ==
  ASSUME PortalInv, TraceInv, NEW s \in Slots, Answered(s), RecordsCurrent'
  PROVE  TraceInv'
<1> DEFINE u == Upload(s)
           op == handlers[s].at
<1>1. /\ UNCHANGED <<rows, issued, source, late>>
      /\ At(s, Operations) /\ Serve(op, u) /\ Accepted(op, u)
  BY DEF Answered, table, files
<1>2. /\ Busy(s) /\ op \in Operations /\ u \in Ids
      /\ Locks(s) \/ op = "status"
  BY <1>1, AskingTyped
<1>3. /\ Remembers /\ JobsKept'
      /\ op = "create" => engine'[u].status # "none"
      /\ op = "claim" => engine'[u].claimed
  BY <1>1, <1>2, AskingExpected, ServeRemembers DEF TraceInv
<1>4. \/ Become(s, Idle)
      \/ op = "create" /\ Advance(s, "created")
      \/ op = "claim" /\ Advance(s, "remove")
      \/ op = "status" /\ Advance(s, "locate")
  BY <1>2 DEF Answered, Operations, Effective
<1>5. CASE Become(s, Idle)
  BY <1>1, <1>3, <1>5, EndedTrace
<1>6. ASSUME NEW stage \in {"created", "remove", "locate"}, Advance(s, stage),
             Locks(s) \/ stage = "locate"
      PROVE  /\ handlers'[s].at = stage /\ handlers'[s].item = handlers[s].item
             /\ handlers'[s].rest = handlers[s].rest /\ Upload(s)' = u
             /\ \A t \in Slots \ {s} : handlers'[t] = handlers[t]
  <2>1. stage \in Stages /\ (Locks(s) \/ stage \in Serving)
    BY <1>6 DEF Stages, Local, Serving
  <2> QED BY <1>2, <1>6, <2>1, Advanced DEF PortalInv
<1>7. Sound(s) /\ Staged(s) /\ Undisturbed(s)
  BY SlotsKnown
<1>8. CASE op = "create" /\ Advance(s, "created")
  <2>1. /\ handlers'[s].at = "created" /\ handlers'[s].item = handlers[s].item
        /\ handlers'[s].rest = handlers[s].rest /\ Upload(s)' = u
        /\ \A t \in Slots \ {s} : handlers'[t] = handlers[t]
    BY <1>2, <1>6, <1>8
  <2>2. rows[u].state = "submitting"
    BY <1>7, <1>8 DEF Staged, At
  <2>3. Staged(s)'
    BY <1>1, <1>2, <1>3, <1>7, <1>8, <2>1, <2>2 DEF Staged, At, Cleaning
  <2>4. Undisturbed(s)' /\ ~ At(s, Cleaning)'
    BY <2>1 DEF Undisturbed, At, Reading, Serving, Cleaning
  <2> QED BY <1>1, <1>3, <2>1, <2>3, <2>4, HandlerTrace
<1>9. CASE op = "claim" /\ Advance(s, "remove")
  <2>1. /\ handlers'[s].at = "remove" /\ handlers'[s].item = handlers[s].item
        /\ handlers'[s].rest = handlers[s].rest /\ Upload(s)' = u
        /\ \A t \in Slots \ {s} : handlers'[t] = handlers[t]
    BY <1>2, <1>6, <1>9
  <2>2. At(s, Cleaning)
    BY <1>9 DEF At, Cleaning
  <2>3. Staged(s)'
    BY <1>2, <1>3, <1>7, <1>9, <2>1, <2>2 DEF Staged, At, Cleaning
  <2>4. Undisturbed(s)'
    BY <2>1 DEF Undisturbed, At, Reading, Serving
  <2> QED BY <1>1, <1>3, <2>1, <2>2, <2>3, <2>4, HandlerTrace
<1>10. CASE op = "status" /\ Advance(s, "locate")
  <2>1. /\ handlers'[s].at = "locate" /\ handlers'[s].item = handlers[s].item
        /\ handlers'[s].rest = handlers[s].rest /\ Upload(s)' = u
        /\ \A t \in Slots \ {s} : handlers'[t] = handlers[t]
    BY <1>2, <1>6, <1>10
  <2>2. At(s, Reading)
    BY <1>10 DEF At, Reading
  <2>3. Staged(s)'
    BY <1>2, <1>7, <2>1 DEF Staged, At, Cleaning
  <2>4. ~ At(s, Cleaning)'
    BY <2>1 DEF At, Cleaning
  <2>5. Undisturbed(s)'
    BY <1>1, <1>7, <2>1, <2>2, <2>4 DEF Undisturbed, At, Upload
  <2> QED BY <1>1, <1>3, <2>1, <2>3, <2>4, <2>5, HandlerTrace
<1> QED BY <1>4, <1>5, <1>8, <1>9, <1>10

LEMMA NotAnsweredTrace ==
  ASSUME PortalInv, TraceInv, NEW s \in Slots, NotAnswered(s), RecordsCurrent'
  PROVE  TraceInv'
<1>1. /\ UNCHANGED <<rows, issued, source, late>>
      /\ At(s, Operations) /\ Serve(handlers[s].at, Upload(s)) /\ Abandon(s)
  BY DEF NotAnswered, table, files
<1>2. Busy(s) /\ handlers[s].at \in Operations /\ Upload(s) \in Ids
  BY <1>1, AskingTyped
<1>3. Remembers /\ JobsKept'
  BY <1>1, <1>2, AskingExpected, ServeRemembers DEF TraceInv
<1> QED BY <1>1, <1>2, <1>3, AbandonTrace

\* A create given up on was expected.
LEMMA GivenUpJobs ==
  ASSUME PortalInv, TraceInv, NEW slots \in SUBSET Slots, NEW sent \in SUBSET GivenUp(slots),
         late' = late \cup sent, UNCHANGED <<rows, source, engine>>
  PROVE  JobsKept' /\ Remembers
<1>1. ASSUME NEW u \in Ids, CreateRequest(u) \in sent PROVE Expected(u)
  <2>1. PICK s \in slots : /\ At(s, Effective)
                           /\ CreateRequest(u) = [op |-> handlers[s].at, u |-> Upload(s)]
    BY <1>1 DEF GivenUp
  <2>2. handlers[s].at = "create" /\ Upload(s) = u
    BY <2>1 DEF CreateRequest
  <2>3. At(s, Operations)
    BY <2>1 DEF At, Operations
  <2> QED BY <2>2, <2>3, AskingExpected
<1>2. ASSUME NEW u \in Ids PROVE JobKept(u)'
  <2>1. JobKept(u)
    BY DEF TraceInv, JobsKept
  <2>2. CreateRequest(u)' = CreateRequest(u)
    BY DEF CreateRequest
  <2> QED BY <1>1, <2>1, <2>2 DEF JobKept, Asked, Expected
<1> QED BY <1>2, SameRemembers DEF JobsKept

LEMMA TimesOutTrace ==
  ASSUME PortalInv, TraceInv, NEW s \in Slots, TimesOut(s), RecordsCurrent'
  PROVE  TraceInv'
<1>1. /\ UNCHANGED <<rows, issued, source, engine>>
      /\ At(s, Operations) /\ Abandon(s)
  BY DEF TimesOut, table, files
<1>2. PICK sent \in SUBSET GivenUp({s}) : late' = late \cup sent
  BY DEF TimesOut
<1>3. JobsKept' /\ Remembers
  BY <1>1, <1>2, GivenUpJobs
<1>4. Busy(s)
  BY <1>1, AskingTyped
<1> QED BY <1>1, <1>3, <1>4, AbandonTrace

LEMMA RestartTrace ==
  ASSUME PortalInv, TraceInv, Restart
  PROVE  TraceInv'
<1>1. /\ UNCHANGED <<rows, source, engine>> /\ handlers' = [s \in Slots |-> Idle]
  BY DEF Restart, table, files
<1>2. PICK sent \in SUBSET GivenUp(Slots) : late' = late \cup sent
  BY DEF Restart
<1>3. JobsKept'
  BY <1>1, <1>2, GivenUpJobs
<1>4. \A s \in Slots : ~ Busy(s)' /\ handlers'[s].at = "idle"
  BY <1>1 DEF Busy, Idle
<1>5. \A s \in Slots : Staged(s)' /\ Undisturbed(s)'
  BY <1>4 DEF Staged, Undisturbed, At, Cleaning, Reading, Serving
<1> QED BY <1>3, <1>5 DEF TraceInv

\* A handler that begins on a row in the state its stage wants.
LEMMA BeginTrace ==
  ASSUME PortalInv, TraceInv, NEW s \in Slots, NEW u \in DOMAIN rows, NEW n \in 0..Size,
         NEW stage \in {"open", "check", "cancel", "status"},
         Become(s, Work(stage, Snapshot(u), n, <<>>)), ~ Locked(u),
         stage \in {"open", "check"} => rows[u].state = "uploading",
         stage = "status" => rows[u].job,
         UNCHANGED <<rows, source, engine, late>>
  PROVE  TraceInv'
<1>1. stage \in Stages
  BY DEF Stages, Local, Operations, Effective
<1>2. /\ handlers'[s].at = stage /\ handlers'[s].rest = <<>> /\ Upload(s)' = u
      /\ \A t \in Slots \ {s} : handlers'[t] = handlers[t]
  BY <1>1, Unlocked, Begun DEF PortalInv
<1>3. JobsKept' /\ Remembers
  BY JobsSame DEF TraceInv
<1>4. Staged(s)' /\ ~ At(s, Cleaning)'
  BY <1>2 DEF Staged, At, Cleaning
<1>5. Undisturbed(s)'
  <2>1. At(s, Reading)' => rows'[u].job /\ u \in DOMAIN rows'
    BY <1>2 DEF At, Reading, Serving
  <2>2. ASSUME NEW t \in Slots, At(t, Cleaning)', Upload(t)' = u PROVE FALSE
    <3>1. t # s
      BY <1>4, <2>2
    <3>2. At(t, Cleaning) /\ Upload(t) = u
      BY <1>2, <2>2, <3>1 DEF At, Upload
    <3>3. Locks(t)
      BY <3>2, SlotsKnown, StagedLocks DEF At
    <3> QED BY <3>2, <3>3, Unlocked
  <2> QED BY <1>2, <2>1, <2>2 DEF Undisturbed
<1> QED BY <1>2, <1>3, <1>4, <1>5, HandlerTrace

LEMMA BeginsTrace ==
  ASSUME PortalInv, TraceInv, NEW s \in Slots, NEW u \in DOMAIN rows,
         BeginChunk(s, u) \/ BeginCancel(s, u) \/ BeginDownload(s, u)
  PROVE  TraceInv'
<1>1. ~ Locked(u) /\ UNCHANGED <<rows, source, engine, late>>
  BY DEF BeginChunk, BeginCancel, BeginDownload, table, files
<1>2. 0 \in 0..Size
  BY PortalAssumption
<1>3. CASE BeginChunk(s, u)
  <2>1. Lengths(u) \subseteq 0..Size
    BY PortalAssumption DEF Lengths, PortalInv, TableOK, Row
  <2>2. PICK n \in Lengths(u) : Become(s, Work("open", Snapshot(u), n, <<>>))
    BY <1>3 DEF BeginChunk
  <2>3. rows[u].state = "uploading"
    BY <1>3 DEF BeginChunk
  <2> QED BY <1>1, <2>1, <2>2, <2>3, BeginTrace
<1>4. CASE BeginCancel(s, u)
  BY <1>1, <1>2, <1>4, BeginTrace DEF BeginCancel, Begin
<1>5. CASE BeginDownload(s, u)
  BY <1>1, <1>2, <1>5, BeginTrace DEF BeginDownload, Begin
<1> QED BY <1>3, <1>4, <1>5

LEMMA CreateTrace ==
  ASSUME PortalInv, TraceInv, NEW f \in Files, Create(f)
  PROVE  TraceInv'
<1> DEFINE new == [file |-> f, state |-> "uploading", offset |-> 0, job |-> FALSE]
<1>1. PICK u \in Ids : u = issued + 1
  BY PortalAssumption DEF Create, PortalInv, TableOK, Ids
<1>2. /\ u > issued /\ u \notin DOMAIN rows
      /\ rows' = [v \in DOMAIN rows \cup {u} |-> IF v = u THEN new ELSE rows[v]]
      /\ UNCHANGED <<source, engine, late, handlers>>
  BY <1>1, PortalAssumption DEF Create, files, PortalInv, TableOK, Ids
<1>3. new.state = "uploading" /\ new.job = FALSE
  OBVIOUS
<1>4. engine[u].status = "none" /\ CreateRequest(u) \notin late
  <2>1. engine[u] = NoEngineJob /\ \A op \in Effective : [op |-> op, u |-> u] \notin late
    BY <1>2 DEF PortalInv, Blank
  <2>2. "create" \in Effective
    BY DEF Effective
  <2> QED BY <2>1, <2>2 DEF NoEngineJob, CreateRequest
<1> HIDE DEF new
<1>5. /\ DOMAIN rows' = DOMAIN rows \cup {u} /\ rows'[u] = new
      /\ \A v \in DOMAIN rows : rows'[v] = rows[v]
  BY <1>2
<1>6. JobKept(u)'
  BY <1>2, <1>3, <1>4, <1>5 DEF JobKept, Asked, Unconfirmed, CreateRequest
<1>7. \A v \in Ids \ {u} : JobKept(v)'
  BY <1>2, <1>5, SparedKept DEF TraceInv, JobsKept, Spared
<1>8. \A t \in Slots \ {} : Staged(t)' /\ Undisturbed(t)'
  <2>1. ASSUME NEW t \in Slots, Locks(t) PROVE Upload(t) # u
    BY <1>2, <2>1, SlotsKnown, BusyTyped, PortalAssumption
       DEF Locks, Sound, Ids, PortalInv, TableOK
  <2>2. Remembers
    BY <1>2, SameRemembers
  <2> QED BY <1>2, <1>5, <2>1, <2>2, OthersKept
<1> QED BY <1>6, <1>7, <1>8 DEF TraceInv, JobsKept

\* A handler that holds u, whose row is not that of a job, writes the row.
LEMMA RowTrace ==
  ASSUME PortalInv, TraceInv, NEW s \in Slots, NEW u \in DOMAIN rows, NEW row \in Row,
         Update(u, row), \A t \in Slots \ {s} : Locks(t) => Upload(t) # u,
         UNCHANGED <<source, engine, late>>, ~ rows[u].job,
         Asked(u) => row.state \in {"submitting", "submitted"},
         row.state \in Unconfirmed => source[u] # <<>>,
         row.job <=> row.state = "submitted",
         row.job => engine[u].status # "none",
         \A t \in Slots \ {s} : handlers'[t] = handlers[t],
         ~ At(s, Cleaning)', ~ At(s, Reading)',
         rows'[u] = row => Staged(s)'
  PROVE  TraceInv'
<1>1. /\ DOMAIN rows' = DOMAIN rows /\ rows'[u] = row
      /\ \A v \in DOMAIN rows \ {u} : rows'[v] = rows[v]
  BY UpdateTyped DEF PortalInv
<1>2. Remembers
  BY SameRemembers
<1>3. u \in Ids
  BY PortalAssumption DEF PortalInv, TableOK, Ids
<1>4. JobKept(u)'
  <2>1. JobKept(u)
    BY <1>3 DEF TraceInv, JobsKept
  <2>2. Asked(u)' <=> Asked(u)
    BY DEF Asked, CreateRequest
  <2> QED BY <1>1, <2>1, <2>2 DEF JobKept, Expected
<1>5. \A v \in Ids \ {u} : JobKept(v)'
  BY <1>1, SparedKept DEF TraceInv, JobsKept, Spared
<1>6. \A t \in Slots \ {s} : Staged(t)' /\ Undisturbed(t)'
  <2> DEFINE moved == {s}
  <2>1. moved \in SUBSET Slots /\ Slots \ moved = Slots \ {s}
    OBVIOUS
  <2>2. \A t \in moved : ~ At(t, Cleaning)'
    OBVIOUS
  <2> HIDE DEF moved
  <2> QED BY <1>1, <1>2, <2>1, <2>2, OthersKept
<1>7. Staged(s)' /\ Undisturbed(s)'
  BY <1>1 DEF Undisturbed
<1> QED BY <1>4, <1>5, <1>6, <1>7 DEF TraceInv, JobsKept

LEMMA SubmitTrace ==
  ASSUME PortalInv, TraceInv, NEW s \in Slots, NEW u \in DOMAIN rows, Submit(s, u),
         \A t \in Slots \ {s} : Locks(t) => Upload(t) # u,
         UNCHANGED <<source, engine, late>>, rows[u].state \in Unconfirmed
  PROVE  TraceInv'
<1> DEFINE row == [rows[u] EXCEPT !.state = "submitting"]
<1>1. Update(u, row) /\ Become(s, Work("create", Snapshot(u), 0, <<>>))
  BY DEF Submit, Begin
<1>2. rows[u] \in Row /\ u \in Ids
  BY PortalAssumption DEF PortalInv, TableOK, Ids
<1>3. row \in Row /\ row.state = "submitting" /\ row.job = rows[u].job
  BY <1>2 DEF Row, States
<1> HIDE DEF row
<1>4. ~ rows[u].job /\ source[u] # <<>>
  BY <1>2 DEF TraceInv, JobsKept, JobKept, Unconfirmed
<1>5. "create" \in Stages /\ 0 \in 0..Size
  BY PortalAssumption DEF Stages, Operations, Effective
<1>6. /\ handlers'[s].at = "create" /\ handlers'[s].rest = <<>> /\ Upload(s)' = u
      /\ \A t \in Slots \ {s} : handlers'[t] = handlers[t]
  BY <1>1, <1>5, Begun DEF PortalInv
<1>7. rows'[u] = row => Staged(s)'
  BY <1>3, <1>6 DEF Staged, At, Cleaning
<1>8. ~ At(s, Cleaning)' /\ ~ At(s, Reading)'
  BY <1>6 DEF At, Cleaning, Reading, Serving
<1> QED BY <1>1, <1>3, <1>4, <1>6, <1>7, <1>8, RowTrace

LEMMA BeginCompleteTrace ==
  ASSUME PortalInv, TraceInv, NEW s \in Slots, NEW u \in DOMAIN rows, BeginComplete(s, u)
  PROVE  TraceInv'
<1>1. ~ Locked(u) /\ UNCHANGED <<source, engine, late>>
  BY DEF BeginComplete, files
<1>2. 0 \in 0..Size
  BY PortalAssumption
<1>3. CASE /\ rows[u].state = "uploading" /\ Become(s, Work("check", Snapshot(u), 0, <<>>))
           /\ UNCHANGED rows
  BY <1>1, <1>2, <1>3, BeginTrace
<1>4. CASE rows[u].state # "uploading" /\ ~ rows[u].job /\ Submit(s, u)
  <2>1. rows[u].state \in States /\ u \in Ids
    BY PortalAssumption DEF PortalInv, TableOK, Row, Ids
  <2>2. rows[u].state # "submitted"
    BY <1>4, <2>1 DEF TraceInv, JobsKept, JobKept
  <2>3. rows[u].state \in Unconfirmed
    BY <1>4, <2>1, <2>2 DEF States, Unconfirmed
  <2> QED BY <1>1, <1>4, <2>3, Unlocked, SubmitTrace
<1> QED BY <1>3, <1>4 DEF BeginComplete, Begin, table

LEMMA MaintenanceSubmitsTrace ==
  ASSUME PortalInv, TraceInv, NEW u \in Ids, MaintenanceSubmits(u)
  PROVE  TraceInv'
<1>1. u \in DOMAIN rows /\ ~ Locked(u) /\ rows[u].state \in Unconfirmed
  BY DEF MaintenanceSubmits, Due, PortalInv, TableOK, Range, Retried, Unconfirmed
<1>2. Submit(Maintenance, u) /\ UNCHANGED <<source, engine, late>>
  BY DEF MaintenanceSubmits, files
<1> QED BY <1>1, <1>2, Unlocked, SubmitTrace DEF Slots

LEMMA SubmitReadyTrace ==
  ASSUME PortalInv, TraceInv, NEW s \in Slots, SubmitReady(s)
  PROVE  TraceInv'
<1>1. At(s, Writers) /\ At(s, {"submit"})
  BY DEF SubmitReady, At, Writers
<1>2. Submit(s, Upload(s)) /\ UNCHANGED <<source, engine, late>>
  BY DEF SubmitReady, files
<1>3. rows[Upload(s)].state \in Unconfirmed
  BY <1>1, SlotsKnown DEF Staged, Unconfirmed
<1> QED BY <1>1, <1>2, <1>3, WriterHolds, SubmitTrace

\* The row of a handler that writes it is not yet that of a job.
LEMMA WriterJobless ==
  ASSUME PortalInv, TraceInv, NEW s \in Slots, At(s, Writers)
  PROVE  /\ ~ rows[Upload(s)].job
         /\ At(s, {"open", "writing", "check", "ready", "submit"}) => ~ Asked(Upload(s))
<1>1. Upload(s) \in DOMAIN rows /\ Upload(s) \in Ids
  BY WriterHolds
<1>2. /\ JobKept(Upload(s)) /\ Staged(s)
  BY <1>1 DEF TraceInv, JobsKept
<1>3. rows[Upload(s)].state \in {"uploading", "ready", "submitting"}
  BY <1>2 DEF Staged, At, Writers
<1>4. At(s, {"open", "writing", "check", "ready", "submit"}) =>
        rows[Upload(s)].state \in {"uploading", "ready"}
  BY <1>2 DEF Staged, At
<1> QED BY <1>1, <1>2, <1>3, <1>4 DEF JobKept, Expected

LEMMA CommitChunkTrace ==
  ASSUME PortalInv, PortalInv', TraceInv, NEW s \in Slots, CommitChunk(s)
  PROVE  TraceInv'
<1>1. PICK u \in DOMAIN rows : u = Upload(s)
  BY WriterHolds DEF CommitChunk, At, Writers
<1> DEFINE row == [rows[u] EXCEPT !.offset = Len(part[u])]
<1>2. /\ At(s, {"writing"}) /\ Update(u, row) /\ Become(s, Idle)
      /\ UNCHANGED <<source, engine, late>>
  BY <1>1 DEF CommitChunk, files
<1>3. At(s, Writers) /\ At(s, {"open", "writing", "check", "ready", "submit"})
      /\ At(s, {"open", "writing", "check", "ready"})
  BY <1>2 DEF At, Writers
<1>4. rows[u] \in Row /\ \A t \in Slots \ {s} : Locks(t) => Upload(t) # u
  BY <1>1, <1>3, WriterHolds
<1>5. ~ rows[u].job /\ ~ Asked(u) /\ rows[u].state = "uploading"
  BY <1>1, <1>3, WriterJobless, SlotsKnown DEF Staged
<1>6. row.state = "uploading" /\ row.job = FALSE
  BY <1>4, <1>5 DEF Row
<1>7. row \in Row
  <2>1. rows' = [rows EXCEPT ![u] = row]
    BY <1>2 DEF Update
  <2> HIDE DEF row
  <2>2. rows'[u] = row /\ u \in DOMAIN rows'
    BY <2>1
  <2> QED BY <2>2 DEF PortalInv, TableOK
<1> HIDE DEF row
<1>8. /\ Staged(s)' /\ ~ At(s, Cleaning)' /\ \A t \in Slots \ {s} : handlers'[t] = handlers[t]
      /\ ~ At(s, Reading)'
  <2>1. handlers'[s] = Idle
    BY <1>2, Finished DEF PortalInv
  <2> QED BY <1>2, <2>1, FinishedStaged DEF At, Idle, Reading, Serving
<1> QED BY <1>2, <1>4, <1>5, <1>6, <1>7, <1>8, RowTrace DEF Unconfirmed

LEMMA MarkReadyTrace ==
  ASSUME PortalInv, TraceInv, NEW s \in Slots, MarkReady(s)
  PROVE  TraceInv'
<1>1. At(s, Writers) /\ At(s, {"ready"})
      /\ At(s, {"open", "writing", "check", "ready", "submit"})
  BY DEF MarkReady, At, Writers
<1>2. PICK u \in DOMAIN rows : u = Upload(s)
  BY <1>1, WriterHolds
<1> DEFINE row == [rows[u] EXCEPT !.state = "ready"]
<1>3. Update(u, row) /\ Advance(s, "submit") /\ UNCHANGED <<source, engine, late>>
  BY <1>2 DEF MarkReady, files
<1>4. /\ Busy(s) /\ Locks(s) /\ rows[u] \in Row
      /\ \A t \in Slots \ {s} : Locks(t) => Upload(t) # u
  BY <1>1, <1>2, WriterHolds
<1>5. ~ rows[u].job /\ ~ Asked(u) /\ source[u] # <<>>
  BY <1>1, <1>2, WriterJobless, SlotsKnown DEF Staged
<1>6. row \in Row /\ row.state = "ready" /\ row.job = FALSE
  BY <1>4, <1>5 DEF Row, States
<1> HIDE DEF row
<1>7. /\ handlers'[s].at = "submit" /\ handlers'[s].rest = handlers[s].rest
      /\ Upload(s)' = u
      /\ \A t \in Slots \ {s} : handlers'[t] = handlers[t]
  <2>1. "submit" \in Stages
    BY DEF Stages, Local
  <2> QED BY <1>2, <1>3, <1>4, <2>1, Advanced DEF PortalInv
<1>8. ~ At(s, Cleaning)' /\ ~ At(s, Reading)'
  BY <1>7 DEF At, Cleaning, Reading, Serving
<1>9. rows'[u] = row => Staged(s)'
  <2>1. Staged(s)
    BY SlotsKnown
  <2> QED BY <1>4, <1>6, <1>7, <1>8, <2>1 DEF Staged, At
<1> QED BY <1>3, <1>4, <1>5, <1>6, <1>7, <1>8, <1>9, RowTrace

LEMMA StoreJobTrace ==
  ASSUME PortalInv, TraceInv, NEW s \in Slots, StoreJob(s)
  PROVE  TraceInv'
<1>1. At(s, Writers) /\ At(s, {"created"}) /\ At(s, {"create", "created"})
  BY DEF StoreJob, At, Writers
<1>2. PICK u \in DOMAIN rows : u = Upload(s)
  BY <1>1, WriterHolds
<1> DEFINE row == [rows[u] EXCEPT !.state = "submitted", !.job = TRUE]
           h == IF s = Maintenance THEN Expire ELSE Idle
<1>3. /\ Update(u, row) /\ Become(s, h) /\ h \in {Idle, Expire}
      /\ UNCHANGED <<source, engine, late>>
  BY <1>2 DEF StoreJob, files
<1> HIDE DEF h
<1>4. rows[u] \in Row /\ \A t \in Slots \ {s} : Locks(t) => Upload(t) # u
  BY <1>1, <1>2, WriterHolds
<1>5. ~ rows[u].job /\ engine[u].status # "none"
  BY <1>1, <1>2, WriterJobless, SlotsKnown DEF Staged
<1>6. row \in Row /\ row.state = "submitted" /\ row.job = TRUE
  BY <1>4 DEF Row, States
<1> HIDE DEF row
<1>7. /\ Staged(s)' /\ ~ At(s, Cleaning)' /\ \A t \in Slots \ {s} : handlers'[t] = handlers[t]
      /\ ~ At(s, Reading)'
  <2>1. handlers'[s] \in {Idle, Expire}
    BY <1>3, Finished DEF PortalInv
  <2> QED BY <1>3, <2>1, FinishedStaged DEF At, Idle, Expire, Reading, Serving
<1> QED BY <1>3, <1>4, <1>5, <1>6, <1>7, RowTrace DEF Unconfirmed

\* The partial file matters to none of this.
LEMMA PartTrace ==
  ASSUME PortalInv, TraceInv, NEW s \in Slots, WriteUnit(s) \/ FailChunk(s)
  PROVE  TraceInv'
<1>1. UNCHANGED <<rows, source, engine, late>>
  BY DEF WriteUnit, FailChunk, table
<1>2. JobsKept' /\ Remembers
  BY <1>1, JobsSame DEF TraceInv
<1>3. CASE FailChunk(s)
  BY <1>1, <1>2, <1>3, EndedTrace DEF FailChunk
<1>4. CASE WriteUnit(s)
  <2>1. UNCHANGED handlers
    BY <1>4 DEF WriteUnit
  <2> QED BY <1>1, <1>2, <2>1 DEF TraceInv, Staged, Undisturbed, At, Upload, Busy
<1> QED BY <1>3, <1>4

LEMMA OpenPartTrace ==
  ASSUME PortalInv, TraceInv, NEW s \in Slots, OpenPart(s)
  PROVE  TraceInv'
<1>1. /\ At(s, {"open"}) /\ Advance(s, "writing") /\ UNCHANGED <<rows, source, engine, late>>
  BY DEF OpenPart, table
<1>2. At(s, Writers)
  BY <1>1 DEF At, Writers
<1>3. JobsKept' /\ Remembers
  BY <1>1, JobsSame DEF TraceInv
<1>4. /\ handlers'[s].at = "writing" /\ handlers'[s].rest = handlers[s].rest
      /\ Upload(s)' = Upload(s)
      /\ \A t \in Slots \ {s} : handlers'[t] = handlers[t]
  <2>1. "writing" \in Stages
    BY DEF Stages, Local
  <2> QED BY <1>1, <1>2, <2>1, WriterHolds, Advanced DEF PortalInv
<1>5. ~ At(s, Cleaning)' /\ ~ At(s, Reading)'
  BY <1>4 DEF At, Cleaning, Reading, Serving
<1>6. Staged(s)'
  BY <1>1, <1>2, <1>4, <1>5, WriterHolds, SlotsKnown DEF Staged, At
<1> QED BY <1>1, <1>3, <1>4, <1>5, <1>6, HandlerTrace DEF Undisturbed

LEMMA CheckFileTrace ==
  ASSUME PortalInv, PortalInv', TraceInv, NEW s \in Slots, CheckFile(s)
  PROVE  TraceInv'
<1>1. At(s, Writers) /\ At(s, {"check"}) /\ At(s, {"open", "writing", "check", "ready"})
  BY DEF CheckFile, At, Writers
<1>2. PICK u \in DOMAIN rows : u = Upload(s)
  BY <1>1, WriterHolds
<1> DEFINE file == IF source[u] # <<>> THEN source[u] ELSE part[u]
<1>3. /\ Len(file) = Size /\ source' = [source EXCEPT ![u] = file] /\ Advance(s, "ready")
      /\ UNCHANGED <<rows, engine, late>>
  BY <1>2 DEF CheckFile, table
<1>4. /\ Busy(s) /\ Locks(s) /\ u \in Ids
      /\ \A t \in Slots \ {s} : Locks(t) => Upload(t) # u
  BY <1>1, <1>2, WriterHolds
<1> HIDE DEF file
<1>5. /\ source'[u] = file /\ \A v \in Ids \ {u} : source'[v] = source[v]
  BY <1>3, <1>4 DEF PortalInv, FilesOK
<1>6. source'[u] # <<>>
  BY <1>3, <1>5, EmptySeq, PortalAssumption
<1>7. Remembers
  BY <1>3, SameRemembers
<1>8. /\ handlers'[s].at = "ready" /\ handlers'[s].rest = handlers[s].rest
      /\ Upload(s)' = u
      /\ \A t \in Slots \ {s} : handlers'[t] = handlers[t]
  <2>1. "ready" \in Stages
    BY DEF Stages, Local
  <2> QED BY <1>2, <1>3, <1>4, <2>1, Advanced DEF PortalInv
<1>9. ~ At(s, Cleaning)' /\ ~ At(s, Reading)'
  BY <1>8 DEF At, Cleaning, Reading, Serving
<1>10. Staged(s)'
  BY <1>1, <1>2, <1>3, <1>4, <1>6, <1>8, <1>9, SlotsKnown DEF Staged, At
<1>11. JobKept(u)'
  BY <1>3, <1>4, <1>6 DEF TraceInv, JobsKept, JobKept, Asked, Expected, CreateRequest
<1>12. \A v \in Ids \ {u} : JobKept(v)'
  BY <1>3, <1>5, SparedKept DEF TraceInv, JobsKept, Spared
<1>13. \A t \in Slots \ {s} : Staged(t)' /\ Undisturbed(t)'
  <2> DEFINE moved == {s}
  <2>1. moved \in SUBSET Slots /\ Slots \ moved = Slots \ {s} /\ \A t \in moved : ~ At(t, Cleaning)'
    BY <1>9
  <2> HIDE DEF moved
  <2> QED BY <1>3, <1>4, <1>5, <1>7, <1>8, <2>1, OthersKept
<1> QED BY <1>9, <1>10, <1>11, <1>12, <1>13 DEF TraceInv, JobsKept, Undisturbed

------------------------------------------------------------------------------
(* Cleaning up, downloading and maintenance again.                         *)

LEMMA BatchTrace ==
  ASSUME PortalInv, TraceInv, NEW s \in Slots, NEW us \in Seq(DOMAIN rows),
         NextItem(s, [i \in DOMAIN us |-> Snapshot(us[i])]),
         s = Maintenance => \A i \in DOMAIN us : rows[us[i]].state = "uploading",
         UNCHANGED <<rows, issued, source, engine, late>>, RecordsCurrent'
  PROVE  TraceInv'
<1> DEFINE rest == [i \in DOMAIN us |-> Snapshot(us[i])]
<1>1. rest \in Seq(Item) /\ DOMAIN rest = DOMAIN us /\ \A i \in DOMAIN rest : rest[i].u <= issued
  BY SnapshotsTyped
<1>2. \A i \in DOMAIN us : rest[i].state = rows[us[i]].state
  BY DEF Snapshot
<1> HIDE DEF rest
<1>3. JobsKept' /\ Remembers
  BY JobsSame DEF TraceInv
<1>4. /\ Staged(s)' /\ Undisturbed(s)'
      /\ At(s, Cleaning)' => ~ (Upload(s)' \in DOMAIN rows' /\ rows'[Upload(s)'].job)
      /\ \A t \in Slots \ {s} : handlers'[t] = handlers[t]
  BY <1>1, <1>2, <1>3, TakenStaged DEF rest
<1> QED BY <1>3, <1>4, HandlerTrace

LEMMA BeginDeleteTrace ==
  ASSUME PortalInv, TraceInv, NEW s \in Requests, NEW us, BeginDelete(s, us), RecordsCurrent'
  PROVE  TraceInv'
BY BatchTrace, PortalAssumption DEF BeginDelete, table, files, Slots

LEMMA RemoveExpiredTrace ==
  ASSUME PortalInv, TraceInv, NEW us, RemoveExpired(us), RecordsCurrent'
  PROVE  TraceInv'
<1>1. /\ NextItem(Maintenance, [i \in DOMAIN us |-> Snapshot(us[i])])
      /\ UNCHANGED <<rows, issued, source, engine, late>>
  BY DEF RemoveExpired, table, files
<1>2. us \in Seq({u \in DOMAIN rows : rows[u].state = "uploading"})
  BY DEF RemoveExpired
<1>3. us \in Seq(DOMAIN rows)
  BY <1>2, SeqMonotonic
<1>4. \A i \in DOMAIN us : rows[us[i]].state = "uploading"
  BY <1>2, LenProperties, ElementOfSeq
<1> QED BY <1>1, <1>3, <1>4, BatchTrace DEF Slots

LEMMA CheckAccessTrace ==
  ASSUME PortalInv, TraceInv, NEW s \in Slots, CheckAccess(s)
  PROVE  TraceInv'
<1>1. /\ At(s, {"access"}) /\ Deletable(handlers[s].item)
      /\ UNCHANGED <<rows, source, engine, late>>
  BY DEF CheckAccess, table, files
<1>2. Busy(s) /\ Locks(s) /\ handlers[s] \in Working
  BY <1>1, SlotsKnown, StagedLocks DEF At
<1>3. PICK stage \in {"claim", "remove"} :
        Advance(s, stage) /\ (stage = "remove" => ~ handlers[s].item.job)
  BY DEF CheckAccess
<1>4. stage \in Stages
  BY DEF Stages, Local, Operations, Effective
<1>5. /\ handlers'[s].at = stage /\ handlers'[s].item = handlers[s].item
      /\ handlers'[s].rest = handlers[s].rest /\ Upload(s)' = Upload(s)
      /\ \A t \in Slots \ {s} : handlers'[t] = handlers[t]
  BY <1>2, <1>3, <1>4, Advanced DEF PortalInv
<1>6. /\ handlers[s].item.state \notin Unconfirmed /\ ~ Downloading(Upload(s)')
  BY <1>1, <1>5 DEF Deletable, Unconfirmed, Upload
<1>7. JobsKept' /\ Remembers
  BY <1>1, JobsSame DEF TraceInv
<1>8. Staged(s)'
  BY <1>2, <1>3, <1>5, <1>6, SlotsKnown DEF Staged, At, Cleaning
<1>9. Undisturbed(s)'
  BY <1>5 DEF Undisturbed, At, Reading, Serving
<1> QED BY <1>1, <1>5, <1>6, <1>7, <1>8, <1>9, HandlerTrace

LEMMA StartStreamTrace ==
  ASSUME PortalInv, TraceInv, NEW s \in Slots, StartStream(s)
  PROVE  TraceInv'
<1>1. At(s, {"locate"}) /\ UNCHANGED <<rows, source, engine, late>>
  BY DEF StartStream, table, files
<1>2. JobsKept' /\ Remembers
  BY <1>1, JobsSame DEF TraceInv
<1>3. CASE Become(s, Idle)
  BY <1>1, <1>2, <1>3, EndedTrace
<1>4. CASE Advance(s, "stream")
  <2>1. Busy(s) /\ At(s, Reading)
    BY <1>1, SlotsKnown, BusyTyped DEF At, Stages, Serving, Reading
  <2>2. "stream" \in Stages /\ "stream" \in Serving
    BY DEF Stages, Serving
  <2>3. /\ handlers'[s].at = "stream" /\ handlers'[s].rest = handlers[s].rest
        /\ Upload(s)' = Upload(s)
        /\ \A t \in Slots \ {s} : handlers'[t] = handlers[t]
    BY <1>4, <2>1, <2>2, Advanced DEF PortalInv
  <2>4. Staged(s)' /\ ~ At(s, Cleaning)'
    BY <2>1, <2>3, SlotsKnown DEF Staged, At, Cleaning
  <2>5. Undisturbed(s)'
    BY <1>1, <2>1, <2>3, <2>4, SlotsKnown DEF Undisturbed, At, Upload
  <2> QED BY <1>1, <1>2, <2>3, <2>4, <2>5, HandlerTrace
<1> QED BY <1>3, <1>4 DEF StartStream

\* The record a removal works on is current: it has no job, or a claimed one.
LEMMA Removable ==
  ASSUME PortalInv, TraceInv, NEW s \in Slots, At(s, {"remove", "removed"}), Current(s)
  PROVE  /\ Upload(s) \in DOMAIN rows /\ Upload(s) \in Ids
         /\ rows[Upload(s)].state \notin Unconfirmed
         /\ Asked(Upload(s)) => engine[Upload(s)].claimed
<1>1. At(s, Cleaning) /\ At(s, Cleaning \cup {"access"})
  BY DEF At, Cleaning
<1>2. Upload(s) \in DOMAIN rows /\ handlers[s].item = Snapshot(Upload(s))
  BY <1>1 DEF Current
<1>3. handlers[s].item.state = rows[Upload(s)].state /\ handlers[s].item.job = rows[Upload(s)].job
  BY <1>2 DEF Snapshot
<1>4. Upload(s) \in Ids
  BY <1>2, PortalAssumption DEF PortalInv, TableOK, Ids
<1>5. Staged(s) /\ JobKept(Upload(s))
  BY <1>4 DEF TraceInv, JobsKept
<1>6. rows[Upload(s)].state \notin Unconfirmed
  BY <1>1, <1>3, <1>5 DEF Staged
<1>7. rows[Upload(s)].job => engine[Upload(s)].claimed
  BY <1>3, <1>5 DEF Staged
<1>8. Asked(Upload(s)) => rows[Upload(s)].state = "submitted"
  BY <1>2, <1>5, <1>6 DEF JobKept, Expected, Unconfirmed
<1>9. Asked(Upload(s)) => rows[Upload(s)].job
  BY <1>2, <1>5, <1>8 DEF JobKept
<1> QED BY <1>2, <1>4, <1>6, <1>7, <1>9

LEMMA RemoveFilesTrace ==
  ASSUME PortalInv, TraceInv, NEW s \in Slots, RemoveFiles(s), RecordsCurrent
  PROVE  TraceInv'
<1>1. /\ At(s, {"remove"}) /\ At(s, {"remove", "removed"}) /\ At(s, Cleaning)
      /\ Advance(s, "removed") /\ UNCHANGED <<rows, engine, late>>
  BY DEF RemoveFiles, table, At, Cleaning
<1>2. PICK u \in Ids : u = Upload(s)
  BY <1>1, RemoverHolds
<1>3. source' = [source EXCEPT ![u] = <<>>]
  BY <1>2 DEF RemoveFiles
<1>4. /\ u \in DOMAIN rows /\ rows[u].state \notin Unconfirmed
      /\ Asked(u) => engine[u].claimed
  BY <1>1, <1>2, Removable DEF RecordsCurrent
<1>5. /\ Busy(s) /\ Locks(s) /\ \A t \in Slots \ {s} : Locks(t) => Upload(t) # u
  BY <1>1, <1>2, RemoverHolds
<1>6. /\ source'[u] = <<>> /\ \A v \in Ids \ {u} : source'[v] = source[v]
  BY <1>3 DEF PortalInv, FilesOK
<1>7. Remembers
  BY <1>1, SameRemembers
<1>8. /\ handlers'[s].at = "removed" /\ handlers'[s].item = handlers[s].item
      /\ handlers'[s].rest = handlers[s].rest /\ Upload(s)' = Upload(s)
      /\ \A t \in Slots \ {s} : handlers'[t] = handlers[t]
  <2>1. "removed" \in Stages
    BY DEF Stages, Local
  <2> QED BY <1>1, <1>5, <2>1, Advanced DEF PortalInv
<1>9. JobKept(u)'
  <2>1. JobKept(u)
    BY DEF TraceInv, JobsKept
  <2>2. Asked(u)' <=> Asked(u)
    BY <1>1 DEF Asked, CreateRequest
  <2> QED BY <1>1, <1>4, <2>1, <2>2 DEF JobKept, Expected, Asked
<1>10. \A v \in Ids \ {u} : JobKept(v)'
  BY <1>1, <1>6, SparedKept DEF TraceInv, JobsKept, Spared
<1>11. Staged(s)' /\ Undisturbed(s)'
  BY <1>1, <1>5, <1>8, SlotsKnown DEF Staged, Undisturbed, At, Cleaning, Reading, Serving
<1>12. \A t \in Slots \ {s} : Staged(t)' /\ Undisturbed(t)'
  <2> DEFINE moved == {s}
  <2>1. moved \in SUBSET Slots /\ Slots \ moved = Slots \ {s}
    OBVIOUS
  <2>2. \A t \in moved : At(t, Cleaning) /\ Upload(t)' = Upload(t)
    BY <1>1, <1>8
  <2> HIDE DEF moved
  <2> QED BY <1>1, <1>5, <1>6, <1>7, <1>8, <2>1, <2>2, OthersKept
<1> QED BY <1>9, <1>10, <1>11, <1>12 DEF TraceInv, JobsKept

LEMMA DeleteRowTrace ==
  ASSUME PortalInv, TraceInv, NEW s \in Slots, DeleteRow(s), RecordsCurrent, RecordsCurrent'
  PROVE  TraceInv'
<1>1. /\ At(s, {"removed"}) /\ At(s, {"remove", "removed"}) /\ At(s, Cleaning)
      /\ NextItem(s, handlers[s].rest) /\ UNCHANGED <<issued, source, engine, late>>
  BY DEF DeleteRow, files, At, Cleaning
<1>2. PICK u \in Ids : u = Upload(s)
  BY <1>1, RemoverHolds
<1>3. rows' = [v \in DOMAIN rows \ {u} |-> rows[v]]
  BY <1>2 DEF DeleteRow
<1>4. /\ DOMAIN rows' = DOMAIN rows \ {u}
      /\ \A v \in DOMAIN rows \ {u} : rows'[v] = rows[v]
  BY <1>3
<1>5. Asked(u) => engine[u].claimed
  BY <1>1, <1>2, Removable DEF RecordsCurrent
<1>6. /\ handlers[s].rest \in Seq(Item)
      /\ \A i \in DOMAIN handlers[s].rest : handlers[s].rest[i].u <= issued
      /\ \A t \in Slots \ {s} : Locks(t) => Upload(t) # u
      /\ Busy(s)
  BY <1>1, <1>2, RemoverHolds
<1>7. JobsKept'
  <2>1. JobKept(u) /\ JobKept(u)'
    <3>1. JobKept(u)
      BY DEF TraceInv, JobsKept
    <3>2. Asked(u)' <=> Asked(u)
      BY <1>1 DEF Asked, CreateRequest
    <3> QED BY <1>1, <1>4, <1>5, <3>1, <3>2 DEF JobKept, Expected
  <2>2. \A v \in Ids \ {u} : JobKept(v)'
    BY <1>1, <1>4, SparedKept DEF TraceInv, JobsKept, Spared
  <2> QED BY <2>1, <2>2 DEF JobsKept
<1>8. Remembers
  BY <1>1, SameRemembers
<1>9. s = Maintenance => \A i \in DOMAIN handlers[s].rest : handlers[s].rest[i].state = "uploading"
  BY <1>6, SlotsKnown DEF Staged
<1>10. /\ Staged(s)' /\ Undisturbed(s)'
       /\ At(s, Cleaning)' => ~ (Upload(s)' \in DOMAIN rows' /\ rows'[Upload(s)'].job)
       /\ \A t \in Slots \ {s} : handlers'[t] = handlers[t]
  BY <1>1, <1>6, <1>7, <1>9, TakenStaged
<1>11. \A t \in Slots \ {s} : Staged(t)' /\ Undisturbed(t)'
  <2> DEFINE moved == {s}
  <2>1. moved \in SUBSET Slots /\ Slots \ moved = Slots \ {s}
    OBVIOUS
  <2>2. \A t \in moved : At(t, Cleaning)' =>
          ~ (Upload(t)' \in DOMAIN rows' /\ rows'[Upload(t)'].job)
    BY <1>10
  <2> HIDE DEF moved
  <2>3. \E t \in Slots : At(t, Cleaning) /\ Upload(t) = u
    BY <1>1, <1>2
  <2>4. /\ \A t \in Slots \ moved : handlers'[t] = handlers[t]
        /\ \A t \in Slots \ moved : Locks(t) => Upload(t) # u
    BY <1>6, <1>10, <2>1
  <2>5. /\ \A v \in DOMAIN rows \ {u} : v \in DOMAIN rows' /\ rows'[v] = rows[v]
        /\ \A v \in Ids \ {u} : source'[v] = source[v]
    BY <1>1, <1>4
  <2>6. \A t \in Slots \ moved : Staged(t)' /\ Undisturbed(t)'
    BY ONLY PortalInv, TraceInv, u \in Ids, <1>8, <2>1, <2>2, <2>3, <2>4, <2>5, OthersKept
  <2> QED BY <2>1, <2>6
<1> QED BY <1>7, <1>10, <1>11 DEF TraceInv

------------------------------------------------------------------------------
(* The theorems.                                                           *)

LEMMA InitTraceInv == Init => TraceInv
<1> SUFFICES ASSUME Init PROVE TraceInv
  OBVIOUS
<1>1. \A s \in Slots : ~ Busy(s) /\ handlers[s].at = "idle"
  BY DEF Init, Busy, Idle
<1>2. \A s \in Slots : Staged(s) /\ Undisturbed(s)
  BY <1>1 DEF Staged, Undisturbed, At, Cleaning, Reading, Serving
<1>3. JobsKept
  BY DEF Init, JobsKept, JobKept, Asked, NoEngineJob
<1> QED BY <1>2, <1>3 DEF TraceInv

LEMMA NextTraceInv ==
  PortalInv /\ PortalInv' /\ TraceInv /\ RecordsCurrent /\ RecordsCurrent' /\ [Next]_vars
    => TraceInv'
<1> SUFFICES ASSUME PortalInv, PortalInv', TraceInv, RecordsCurrent, RecordsCurrent', [Next]_vars
             PROVE  TraceInv'
  OBVIOUS
<1>1. CASE UNCHANGED vars
  <2>1. UNCHANGED <<rows, source, engine, late, handlers>>
    BY <1>1 DEF vars
  <2>2. JobsKept'
    BY <2>1, JobsSame DEF TraceInv
  <2>3. ASSUME NEW s \in Slots PROVE Staged(s)'
    BY <2>1 DEF TraceInv, Staged, At, Upload, Busy
  <2>4. ASSUME NEW s \in Slots PROVE Undisturbed(s)'
    BY <2>1 DEF TraceInv, Undisturbed, At, Upload
  <2> QED BY <2>2, <2>3, <2>4 DEF TraceInv
<1>2. \A s \in Requests : s \in Slots
  BY DEF Slots
<1>3. CASE Begins
  BY <1>2, <1>3, CreateTrace, BeginsTrace, BeginCompleteTrace, BeginDeleteTrace DEF Begins
<1>4. CASE Maintains
  BY <1>4, MaintenanceSubmitsTrace, RemoveExpiredTrace DEF Maintains
<1>5. ASSUME NEW s \in Slots, Proceeds(s) PROVE TraceInv'
  BY <1>5, FailsTrace, NotAnsweredTrace, TimesOutTrace, OpenPartTrace, CommitChunkTrace,
     PartTrace, CheckFileTrace, MarkReadyTrace, SubmitReadyTrace, StoreJobTrace,
     CheckAccessTrace, RemoveFilesTrace, DeleteRowTrace, StartStreamTrace DEF Proceeds
<1> QED BY <1>1, <1>3, <1>4, <1>5, RestartTrace, PartTrace, AnsweredTrace, EngineMovesTrace,
           ServeLateTrace DEF Next

LEMMA TraceInductive == Spec /\ []RecordsCurrent => []TraceInv
BY PortalInductive, InitTraceInv, NextTraceInv, PTL DEF Spec

LEMMA TraceSafe ==
  PortalInv /\ TraceInv => ProtectedKept /\ JobsAccounted /\ DownloadUndisturbed
<1> SUFFICES ASSUME PortalInv, TraceInv
             PROVE  ProtectedKept /\ JobsAccounted /\ DownloadUndisturbed
  OBVIOUS
<1>1. ASSUME NEW u \in Ids
      PROVE  /\ JobKept(u)
             /\ engine[u].claimed => engine[u].status \in {"COMPLETED", "FAILED"}
  BY DEF PortalInv, EngineOK, TraceInv, JobsKept
<1>2. ProtectedKept
  <2> SUFFICES ASSUME NEW u \in Ids,
                      \/ engine[u].status \in {"ACTIVE", "CANCELLED"}
                      \/ u \in DOMAIN rows /\ rows[u].state \in Unconfirmed
               PROVE  source[u] # <<>>
    BY DEF ProtectedKept
  <2> QED BY <1>1 DEF JobKept
<1>3. JobsAccounted
  <2> SUFFICES ASSUME NEW u \in Ids, engine[u].status = "ACTIVE"
               PROVE  u \in DOMAIN rows /\ (rows[u].job \/ rows[u].state \in Unconfirmed)
    BY DEF JobsAccounted
  <2> QED BY <1>1 DEF JobKept, Asked, Expected, Unconfirmed
<1>4. DownloadUndisturbed
  <2> SUFFICES ASSUME NEW s \in Slots, NEW t \in Slots, At(s, Serving)
               PROVE  /\ Upload(s) \in DOMAIN rows
                      /\ ~ (At(t, {"remove", "removed"}) /\ Upload(t) = Upload(s))
    BY DEF DownloadUndisturbed
  <2>1. At(s, Reading) /\ (At(t, {"remove", "removed"}) => At(t, Cleaning))
    BY DEF At, Reading, Cleaning
  <2> QED BY <2>1 DEF TraceInv, Undisturbed
<1> QED BY <1>2, <1>3, <1>4

\* As long as cleanup acts on records that are current, the sources of protected
\* submissions stay, every job that runs is on record and no result is removed
\* under a reader: whatever fails, is late, is repeated or crashes.
THEOREM CurrentRecordsSafe ==
  Spec /\ []RecordsCurrent => [](ProtectedKept /\ JobsAccounted /\ TransfersKept)
<1>1. PortalInv /\ TraceInv /\ TransfersBounded => ProtectedKept /\ JobsAccounted /\ TransfersKept
  BY TraceSafe DEF TransfersKept
<1> QED BY <1>1, PortalInductive, TraceInductive, TransfersWithin, PTL

------------------------------------------------------------------------------
(* One record at a time is always current.                                 *)

Removing == Cleaning \cup {"access"}

LEMMA MovedAlone ==
  ASSUME PortalInv, NEW s \in Slots, NEW h, Become(s, h)
  PROVE  handlers'[s] = h /\ \A t \in Slots \ {s} : handlers'[t] = handlers[t]
BY DEF PortalInv, Handling, HandlersOK, Become

\* A step that keeps the rows the others work on.
LEMMA StepCurrent ==
  ASSUME PortalInv, RecordsCurrent, NEW s \in Slots, NEW u,
         \A t \in Slots \ {s} : handlers'[t] = handlers[t],
         \A t \in Slots \ {s} : Locks(t) => Upload(t) # u,
         \A v \in DOMAIN rows \ {u} : v \in DOMAIN rows' /\ rows'[v] = rows[v],
         Current(s)'
  PROVE  RecordsCurrent'
<1> SUFFICES ASSUME NEW t \in Slots \ {s} PROVE Current(t)'
  BY DEF RecordsCurrent
<1> SUFFICES ASSUME At(t, Removing)'
             PROVE  Upload(t)' \in DOMAIN rows' /\ handlers'[t].item = Snapshot(Upload(t))'
  BY DEF Current, Removing
<1>1. handlers'[t] = handlers[t] /\ Upload(t)' = Upload(t)
  BY DEF Upload
<1>2. At(t, Removing)
  BY <1>1 DEF At
<1>3. Upload(t) \in DOMAIN rows /\ handlers[t].item = Snapshot(Upload(t))
  BY <1>2 DEF RecordsCurrent, Current, Removing
<1>4. Locks(t)
  <2>1. HandlersOK
    BY DEF PortalInv, Handling
  <2> QED BY <1>2, <2>1, BusyTyped
          DEF At, Removing, Cleaning, Locks, Serving, Stages, Local, Operations, Effective
<1>5. Upload(t) \in DOMAIN rows' /\ rows'[Upload(t)] = rows[Upload(t)]
  BY <1>3, <1>4
<1> QED BY <1>1, <1>3, <1>5 DEF Snapshot

\* A step that leaves the rows alone.
LEMMA SameRowsCurrent ==
  ASSUME RecordsCurrent, NEW s \in Slots, UNCHANGED rows,
         \A t \in Slots \ {s} : handlers'[t] = handlers[t], Current(s)'
  PROVE  RecordsCurrent'
<1> SUFFICES ASSUME NEW t \in Slots \ {s} PROVE Current(t)'
  BY DEF RecordsCurrent
<1>1. Current(t) /\ handlers'[t] = handlers[t]
  BY DEF RecordsCurrent
<1> QED BY <1>1 DEF Current, At, Upload, Snapshot

\* A handler that is not about to remove anything.
LEMMA ElsewhereCurrent ==
  ASSUME PortalInv, RecordsCurrent, NEW s \in Slots, NEW h, Become(s, h),
         h.at \notin Removing, UNCHANGED rows
  PROVE  RecordsCurrent'
<1>1. handlers'[s] = h /\ \A t \in Slots \ {s} : handlers'[t] = handlers[t]
  BY MovedAlone
<1>2. Current(s)'
  BY <1>1 DEF Current, At, Removing
<1> QED BY <1>1, <1>2, SameRowsCurrent

LEMMA WriterCurrent ==
  ASSUME PortalInv, RecordsCurrent, NEW s \in Slots, NEW h, Become(s, h), h.at \notin Removing,
         NEW u \in DOMAIN rows, NEW row, Update(u, row),
         \A t \in Slots \ {s} : Locks(t) => Upload(t) # u
  PROVE  RecordsCurrent'
<1>1. handlers'[s] = h /\ \A t \in Slots \ {s} : handlers'[t] = handlers[t]
  BY MovedAlone
<1>2. Current(s)'
  BY <1>1 DEF Current, At, Removing
<1>3. rows' = [rows EXCEPT ![u] = row]
  BY DEF Update
<1>4. \A v \in DOMAIN rows \ {u} : v \in DOMAIN rows' /\ rows'[v] = rows[v]
  BY <1>3
<1> QED BY <1>1, <1>2, <1>4, StepCurrent

\* A removal goes on with the record it has.
LEMMA AdvanceCurrent ==
  ASSUME PortalInv, RecordsCurrent, NEW s \in Slots, NEW stage, Busy(s), Advance(s, stage),
         UNCHANGED rows, At(s, Removing) \/ stage \notin Removing
  PROVE  RecordsCurrent'
<1> DEFINE h == [handlers[s] EXCEPT !.at = stage]
<1>1. handlers[s] \in Working
  BY BusyTyped DEF PortalInv, Handling
<1>2. Become(s, h) /\ h.at = stage /\ h.item = handlers[s].item
  BY <1>1 DEF Advance, Working
<1> HIDE DEF h
<1>3. CASE stage \notin Removing
  BY <1>2, <1>3, ElsewhereCurrent
<1>4. CASE At(s, Removing)
  <2>1. handlers'[s] = h /\ \A t \in Slots \ {s} : handlers'[t] = handlers[t]
    BY <1>2, MovedAlone
  <2>2. Upload(s) \in DOMAIN rows /\ handlers[s].item = Snapshot(Upload(s))
    BY <1>4 DEF RecordsCurrent, Current, Removing
  <2>3. Upload(s)' \in DOMAIN rows' /\ handlers'[s].item = Snapshot(Upload(s))'
    BY <1>2, <2>1, <2>2 DEF Upload, Snapshot
  <2>4. Current(s)'
    BY <2>3 DEF Current
  <2> QED BY <2>1, <2>4, SameRowsCurrent
<1> QED BY <1>3, <1>4

\* A handler with no further record ends when it is done with the one it has.
LEMMA LastItem ==
  ASSUME NEW s \in Slots, NextItem(s, <<>>)
  PROVE  Become(s, Idle)
BY DEF NextItem

LEMMA Ended ==
  /\ Idle.at \notin Removing /\ Expire.at \notin Removing
BY DEF Idle, Expire, Removing, Cleaning

LEMMA AbandonCurrent ==
  ASSUME PortalInv, RecordsCurrent, OneAtATime, NEW s \in Slots, Busy(s), Abandon(s),
         UNCHANGED rows
  PROVE  RecordsCurrent'
<1>1. handlers[s].rest = <<>>
  BY DEF OneAtATime
<1>2. Become(s, Idle) \/ Become(s, Expire)
  BY <1>1, LastItem DEF Abandon
<1> QED BY <1>2, Ended, ElsewhereCurrent

\* What a cleanup or a maintenance run begins with has just been read.
LEMMA BatchCurrent ==
  ASSUME PortalInv, RecordsCurrent, NEW s \in Slots, NEW us \in Seq(DOMAIN rows),
         NextItem(s, [i \in DOMAIN us |-> Snapshot(us[i])]), UNCHANGED rows
  PROVE  RecordsCurrent'
<1> DEFINE rest == [i \in DOMAIN us |-> Snapshot(us[i])]
<1>1. CASE Become(s, Idle)
  BY <1>1, Ended, ElsewhereCurrent
<1>2. ASSUME NEW i \in DOMAIN us,
             Become(s, Work(IF s = Maintenance THEN "remove" ELSE "access",
                            rest[i], 0, SubSeq(rest, i + 1, Len(rest))))
      PROVE  RecordsCurrent'
  <2> DEFINE h == Work(IF s = Maintenance THEN "remove" ELSE "access",
                       rest[i], 0, SubSeq(rest, i + 1, Len(rest)))
  <2>1. Become(s, h)
    BY <1>2
  <2>2. h.item = Snapshot(us[i])
    BY DEF Work
  <2> HIDE DEF h, rest
  <2>3. us[i] \in DOMAIN rows
    BY ElementOfSeq, LenProperties
  <2>4. handlers'[s] = h /\ \A t \in Slots \ {s} : handlers'[t] = handlers[t]
    BY <2>1, MovedAlone
  <2>5. Upload(s)' = us[i]
    BY <2>2, <2>4 DEF Upload, Snapshot
  <2>6. Current(s)'
    BY <2>2, <2>3, <2>4, <2>5 DEF Current, Snapshot
  <2> QED BY <2>4, <2>6, SameRowsCurrent
<1>3. DOMAIN rest = DOMAIN us /\ NextItem(s, rest)
  OBVIOUS
<1>4. Become(s, Idle) \/ \E i \in DOMAIN us :
        Become(s, Work(IF s = Maintenance THEN "remove" ELSE "access",
                       rest[i], 0, SubSeq(rest, i + 1, Len(rest))))
  <2> HIDE DEF rest
  <2> QED BY <1>3 DEF NextItem
<1> QED BY <1>1, <1>2, <1>4

LEMMA BeginsCurrent ==
  ASSUME PortalInv, RecordsCurrent, Begins
  PROVE  RecordsCurrent'
<1>1. ASSUME NEW f \in Files, Create(f) PROVE RecordsCurrent'
  <2>1. UNCHANGED handlers /\ issued' = issued + 1
    BY <1>1 DEF Create
  <2>2. \A v \in DOMAIN rows : v # issued'
    BY <2>1, PortalAssumption DEF PortalInv, TableOK
  <2>3. DOMAIN rows' = DOMAIN rows \cup {issued'} /\ \A v \in DOMAIN rows : rows'[v] = rows[v]
    BY <1>1, <2>2 DEF Create
  <2> SUFFICES ASSUME NEW s \in Slots PROVE Current(s)'
    BY DEF RecordsCurrent
  <2>4. Current(s) /\ handlers'[s] = handlers[s]
    BY <2>1 DEF RecordsCurrent
  <2> QED BY <2>3, <2>4 DEF Current, At, Upload, Snapshot
<1>2. ASSUME NEW s \in Slots, NEW u \in DOMAIN rows, BeginComplete(s, u) PROVE RecordsCurrent'
  <2>1. CASE Become(s, Work("check", Snapshot(u), 0, <<>>)) /\ UNCHANGED rows
    BY <2>1, ElsewhereCurrent DEF Work, Removing, Cleaning
  <2>2. CASE Submit(s, u)
    <3>1. \A t \in Slots : Locks(t) => Upload(t) # u
      BY <1>2, Unlocked DEF BeginComplete
    <3> QED BY <2>2, <3>1, WriterCurrent DEF Submit, Begin, Work, Removing, Cleaning
  <2> QED BY <1>2, <2>1, <2>2 DEF BeginComplete, Begin, table
<1>3. ASSUME NEW s \in Slots, NEW u \in DOMAIN rows,
             BeginChunk(s, u) \/ BeginCancel(s, u) \/ BeginDownload(s, u)
      PROVE  RecordsCurrent'
  <2>1. UNCHANGED rows
    BY <1>3 DEF BeginChunk, BeginCancel, BeginDownload, table
  <2>2. \E n, stage : Become(s, Work(stage, Snapshot(u), n, <<>>)) /\ stage \notin Removing
    BY <1>3 DEF BeginChunk, BeginCancel, BeginDownload, Begin, Removing, Cleaning
  <2> QED BY <2>1, <2>2, ElsewhereCurrent DEF Work
<1>4. ASSUME NEW s \in Slots, NEW us, BeginDelete(s, us) PROVE RecordsCurrent'
  BY <1>4, BatchCurrent DEF BeginDelete, table
<1>5. Requests \subseteq Slots
  BY DEF Slots
<1> QED BY <1>1, <1>2, <1>3, <1>4, <1>5 DEF Begins

LEMMA MaintainsCurrent ==
  ASSUME PortalInv, RecordsCurrent, Maintains
  PROVE  RecordsCurrent'
<1>1. Maintenance \in Slots
  BY DEF Slots
<1>2. ASSUME NEW u \in Ids, MaintenanceSubmits(u) PROVE RecordsCurrent'
  <2>1. u \in DOMAIN rows /\ ~ Locked(u)
    BY <1>2 DEF MaintenanceSubmits, Due, PortalInv, TableOK, Range
  <2>2. \A t \in Slots : Locks(t) => Upload(t) # u
    BY <2>1, Unlocked
  <2>3. Submit(Maintenance, u)
    BY <1>2 DEF MaintenanceSubmits
  <2> QED BY <1>1, <2>1, <2>2, <2>3, WriterCurrent DEF Submit, Begin, Work, Removing, Cleaning
<1>3. ASSUME NEW us, RemoveExpired(us) PROVE RecordsCurrent'
  <2>1. us \in Seq(DOMAIN rows)
    BY <1>3, SeqMonotonic DEF RemoveExpired
  <2> QED BY <1>1, <1>3, <2>1, BatchCurrent DEF RemoveExpired, table
<1> QED BY <1>2, <1>3 DEF Maintains

LEMMA AnsweredCurrent ==
  ASSUME PortalInv, RecordsCurrent, NEW s \in Slots, Answered(s)
  PROVE  RecordsCurrent'
<1>1. UNCHANGED rows /\ At(s, Operations)
  BY DEF Answered, table
<1>2. Busy(s) /\ handlers[s].at \in Operations
  BY <1>1, AskingTyped
<1>3. \/ Become(s, Idle)
      \/ Advance(s, "created") \/ Advance(s, "locate")
      \/ handlers[s].at = "claim" /\ Advance(s, "remove")
  BY <1>2 DEF Answered, Operations, Effective
<1>4. "created" \notin Removing /\ "locate" \notin Removing /\ "claim" \in Removing
  BY DEF Removing, Cleaning
<1> QED BY <1>1, <1>2, <1>3, <1>4, Ended, ElsewhereCurrent, AdvanceCurrent DEF At

\* A step of a removal of a single record, and every step that removes nothing.
LEMMA ProceedsCurrent ==
  ASSUME PortalInv, RecordsCurrent, OneAtATime, NEW s \in Slots, Proceeds(s)
  PROVE  RecordsCurrent'
<1>1. Busy(s)
  BY BusyTyped DEF Proceeds, Fails, NotAnswered, TimesOut, OpenPart, CommitChunk, FailChunk,
     CheckFile, MarkReady, SubmitReady, StoreJob, CheckAccess, RemoveFiles, DeleteRow,
     StartStream, At, PortalInv, Handling, Stages, Local, Operations, Effective, Serving
<1>2. CASE Fails(s) \/ NotAnswered(s) \/ TimesOut(s)
  BY <1>1, <1>2, AbandonCurrent DEF Fails, NotAnswered, TimesOut, table
<1>3. CASE OpenPart(s) \/ CheckFile(s) \/ StartStream(s) \/ FailChunk(s)
  <2>1. UNCHANGED rows
    BY <1>3 DEF OpenPart, CheckFile, StartStream, FailChunk, table
  <2>2. \/ Become(s, Idle)
        \/ Advance(s, "writing") \/ Advance(s, "ready") \/ Advance(s, "stream")
    BY <1>3 DEF OpenPart, CheckFile, StartStream, FailChunk
  <2>3. "writing" \notin Removing /\ "ready" \notin Removing /\ "stream" \notin Removing
    BY DEF Removing, Cleaning
  <2> QED BY <1>1, <2>1, <2>2, <2>3, Ended, ElsewhereCurrent, AdvanceCurrent
<1>4. CASE CheckAccess(s) \/ RemoveFiles(s)
  <2>1. UNCHANGED rows /\ At(s, Removing)
    BY <1>4 DEF CheckAccess, RemoveFiles, table, At, Removing, Cleaning
  <2>2. \E stage : Advance(s, stage)
    BY <1>4 DEF CheckAccess, RemoveFiles
  <2> QED BY <1>1, <2>1, <2>2, AdvanceCurrent
<1>5. CASE CommitChunk(s) \/ StoreJob(s) \/ SubmitReady(s) \/ MarkReady(s)
  <2>1. At(s, Writers)
    BY <1>5 DEF CommitChunk, StoreJob, SubmitReady, MarkReady, At, Writers
  <2>2. /\ Upload(s) \in DOMAIN rows /\ handlers[s] \in Working
        /\ \A t \in Slots \ {s} : Locks(t) => Upload(t) # Upload(s)
    BY <2>1, WriterHolds
  <2>3. \E row : Update(Upload(s), row)
    BY <1>5 DEF CommitChunk, StoreJob, SubmitReady, MarkReady, Submit
  <2>4. \E h : Become(s, h) /\ h.at \notin Removing
    <3>1. CASE CommitChunk(s) \/ StoreJob(s)
      BY <3>1, Ended DEF CommitChunk, StoreJob
    <3>2. CASE SubmitReady(s)
      <4>1. Become(s, Work("create", Snapshot(Upload(s)), 0, <<>>))
        BY <3>2 DEF SubmitReady, Submit, Begin
      <4>2. Work("create", Snapshot(Upload(s)), 0, <<>>).at \notin Removing
        BY DEF Work, Removing, Cleaning
      <4> QED BY <4>1, <4>2
    <3>3. CASE MarkReady(s)
      <4>1. Become(s, [handlers[s] EXCEPT !.at = "submit"])
        BY <3>3 DEF MarkReady, Advance
      <4>2. [handlers[s] EXCEPT !.at = "submit"].at \notin Removing
        BY <2>2 DEF Working, Removing, Cleaning
      <4> QED BY <4>1, <4>2
    <3> QED BY <1>5, <3>1, <3>2, <3>3
  <2> QED BY <2>2, <2>3, <2>4, WriterCurrent
<1>6. CASE DeleteRow(s)
  <2>1. At(s, {"remove", "removed"})
    BY <1>6 DEF DeleteRow, At
  <2>2. \A t \in Slots \ {s} : Locks(t) => Upload(t) # Upload(s)
    BY <2>1, RemoverHolds
  <2>3. handlers[s].rest = <<>>
    BY <1>1 DEF OneAtATime
  <2>4. Become(s, Idle)
    BY <1>6, <2>3, LastItem DEF DeleteRow
  <2>5. handlers'[s] = Idle /\ \A t \in Slots \ {s} : handlers'[t] = handlers[t]
    BY <2>4, MovedAlone
  <2>6. Current(s)'
    BY <2>5, Ended DEF Current, At, Removing
  <2>7. \A v \in DOMAIN rows \ {Upload(s)} : v \in DOMAIN rows' /\ rows'[v] = rows[v]
    BY <1>6 DEF DeleteRow
  <2> QED BY <2>2, <2>5, <2>6, <2>7, StepCurrent
<1> QED BY <1>2, <1>3, <1>4, <1>5, <1>6 DEF Proceeds

LEMMA NextCurrent ==
  PortalInv /\ RecordsCurrent /\ OneAtATime /\ [Next]_vars => RecordsCurrent'
<1> SUFFICES ASSUME PortalInv, RecordsCurrent, OneAtATime, [Next]_vars PROVE RecordsCurrent'
  OBVIOUS
<1>1. ASSUME UNCHANGED <<rows, handlers>> PROVE RecordsCurrent'
  BY <1>1 DEF RecordsCurrent, Current, At, Upload, Snapshot
<1>2. CASE Restart
  BY <1>2, Ended DEF Restart, RecordsCurrent, Current, At, Removing
<1>3. ASSUME NEW s \in Slots, WriteUnit(s) PROVE RecordsCurrent'
  BY <1>1, <1>3 DEF WriteUnit, table
<1>4. ASSUME NEW u \in Ids, EngineMoves(u) PROVE RecordsCurrent'
  BY <1>1, <1>4 DEF EngineMoves, table
<1>5. ASSUME NEW request, ServeLate(request) PROVE RecordsCurrent'
  BY <1>1, <1>5 DEF ServeLate, table
<1>6. CASE UNCHANGED vars
  BY <1>1, <1>6 DEF vars
<1> QED BY <1>2, <1>3, <1>4, <1>5, <1>6, BeginsCurrent, MaintainsCurrent, ProceedsCurrent,
           AnsweredCurrent DEF Next

\* With one record at a time, cleanup never acts on a record that has changed.
\* The lock it takes before it looks at the record is the one that every writer
\* of the row takes.
LEMMA SingleRecordsCurrent == Spec /\ []OneAtATime => []RecordsCurrent
<1>1. Init => RecordsCurrent
  BY Ended DEF Init, RecordsCurrent, Current, At, Removing
<1> QED BY <1>1, NextCurrent, PortalInductive, PTL DEF Spec

\* A portal whose cleanups and maintenance runs take one record each keeps the
\* sources of protected submissions, accounts for every job, and removes no
\* result under its reader: cleanupBatch and expireUploads are what is left.
THEOREM SingleCleanupSafe ==
  Spec /\ []OneAtATime => [](ProtectedKept /\ JobsAccounted /\ TransfersKept)
BY CurrentRecordsSafe, SingleRecordsCurrent, PTL

\* Downloads of such a portal are read to the end, within the limit on transfers.
THEOREM DownloadsKept == Spec /\ []OneAtATime => []TransfersKept
BY SingleCleanupSafe, PTL

------------------------------------------------------------------------------
(* Proof that UploadPortal implements UploadLife, as long as the records a  *)
(* cleanup acts on are current.                                            *)

\* A row that is being removed has lost its files already.
Emptied == \A s \in Slots : At(s, {"removed"}) => source[Upload(s)] = <<>>

\* No handler comes to read, or to remove a row.
NoneNew ==
  \A t \in Slots : /\ At(t, Serving)' => At(t, Serving) /\ Upload(t)' = Upload(t)
                   /\ At(t, {"removed"})' => At(t, {"removed"}) /\ Upload(t)' = Upload(t)

\* One handler moves, and does not come to hold emptied files.
LEMMA NoneNewStep ==
  ASSUME PortalInv, NEW s \in Slots, NEW h, Become(s, h),
         \/ h.at \notin Serving \cup {"removed"}
         \/ At(s, Serving) /\ h.at \in Serving /\ h.item = handlers[s].item
  PROVE  NoneNew
<1>1. handlers'[s] = h /\ \A t \in Slots \ {s} : handlers'[t] = handlers[t]
  BY MovedAlone
<1>2. "removed" \notin Serving
  BY DEF Serving
<1>3. ASSUME NEW t \in Slots \ {s}
      PROVE  /\ At(t, Serving)' => At(t, Serving) /\ Upload(t)' = Upload(t)
             /\ At(t, {"removed"})' => At(t, {"removed"}) /\ Upload(t)' = Upload(t)
  BY <1>1 DEF At, Upload
<1>4. /\ At(s, Serving)' => At(s, Serving) /\ Upload(s)' = Upload(s)
      /\ At(s, {"removed"})' => At(s, {"removed"}) /\ Upload(s)' = Upload(s)
  BY <1>1, <1>2 DEF At, Upload
<1> QED BY <1>3, <1>4 DEF NoneNew

\* A handler that has ended holds nothing and reads nothing.
LEMMA EndedPlain ==
  /\ Idle.at \notin Serving \cup {"removed"} /\ Expire.at \notin Serving \cup {"removed"}
BY DEF Idle, Expire, Serving

\* The next record of a batch, the end of a handler and a rejection ...
LEMMA NextItemNoneNew ==
  ASSUME PortalInv, NEW s \in Slots, NEW rest, NextItem(s, rest)
  PROVE  NoneNew
<1>1. ASSUME NEW i PROVE
        Work(IF s = Maintenance THEN "remove" ELSE "access", rest[i], 0,
             SubSeq(rest, i + 1, Len(rest))).at \notin Serving \cup {"removed"}
  BY DEF Work, Serving
<1> QED BY <1>1, EndedPlain, NoneNewStep DEF NextItem

\* (a rejection)
LEMMA AbandonNoneNew ==
  ASSUME PortalInv, NEW s \in Slots, Abandon(s)
  PROVE  NoneNew
BY AbandonCases, EndedPlain, NoneNewStep, NextItemNoneNew

\* (the next await of the same handler)
LEMMA AdvanceNoneNew ==
  ASSUME PortalInv, NEW s \in Slots, Busy(s), NEW stage, Advance(s, stage),
         \/ stage \notin Serving \cup {"removed"}
         \/ At(s, Serving) /\ stage \in Serving
  PROVE  NoneNew
<1> DEFINE h == [handlers[s] EXCEPT !.at = stage]
<1>1. handlers[s] \in Working
  BY BusyTyped DEF PortalInv, Handling
<1>2. Become(s, h) /\ h.at = stage /\ h.item = handlers[s].item
  BY <1>1 DEF Advance, Working
<1> HIDE DEF h
<1> QED BY <1>2, NoneNewStep

\* ... therefore leave Emptied as it is.
LEMMA EmptiedKept ==
  ASSUME Emptied, NoneNew,
         \A t \in Slots : At(t, {"removed"}) => source'[Upload(t)] \in {source[Upload(t)], <<>>}
  PROVE  Emptied'
<1> SUFFICES ASSUME NEW t \in Slots, At(t, {"removed"})' PROVE source'[Upload(t)'] = <<>>
  BY DEF Emptied
<1> QED BY DEF Emptied, NoneNew

\* What UploadLife sees, when nothing that it sees of has changed.
LEMMA TableSeen == UNCHANGED <<rows, issued>> => UNCHANGED <<phase, stored>>
BY DEF phase, stored, PhaseOf

\* (of its source)
LEMMA SourceSeen == UNCHANGED source => UNCHANGED kept
BY DEF kept

\* (of its job)
LEMMA EngineSeen == UNCHANGED engine => UNCHANGED <<job, claimed>>
BY DEF job, claimed

\* (of its readers)
LEMMA ReadingSeen ==
  ASSUME PortalInv, NEW s \in Slots, NEW h, Become(s, h), h.at \notin Serving, ~ At(s, Serving)
  PROVE  UNCHANGED reading
<1>1. handlers'[s] = h /\ \A t \in Slots \ {s} : handlers'[t] = handlers[t]
  BY MovedAlone
<1>2. \A t \in Slots \ {s} : (At(t, Serving)' <=> At(t, Serving)) /\ Upload(t)' = Upload(t)
  BY <1>1 DEF At, Upload
<1>3. ~ At(s, Serving)'
  BY <1>1 DEF At
<1>4. ASSUME NEW u \in Ids
      PROVE  (\E t \in Slots : At(t, Serving) /\ Upload(t) = u)' <=>
             (\E t \in Slots : At(t, Serving) /\ Upload(t) = u)
  BY <1>2, <1>3
<1> QED BY <1>4 DEF reading

\* A step that only moves handlers, none of them to read: some readers end.
LEMMA OnlyEnds ==
  ASSUME Emptied, NoneNew, UNCHANGED <<rows, issued, source, engine>>
  PROVE  Emptied' /\ Life!EndReading
<1>1. Emptied'
  BY EmptiedKept
<1> DEFINE us == {u \in Ids : ~ \E t \in Slots : At(t, Serving)' /\ Upload(t)' = u}
<1>2. ASSUME NEW u \in Ids
      PROVE  (\E t \in Slots : At(t, Serving) /\ Upload(t) = u)' =
             (reading[u] /\ u \notin us)
  <2>1. reading[u] = \E t \in Slots : At(t, Serving) /\ Upload(t) = u
    BY DEF reading
  <2>2. (\E t \in Slots : At(t, Serving) /\ Upload(t) = u)' =>
        \E t \in Slots : At(t, Serving) /\ Upload(t) = u
    BY DEF NoneNew
  <2>3. u \in us <=> ~ (\E t \in Slots : At(t, Serving) /\ Upload(t) = u)'
    OBVIOUS
  <2> QED BY <2>1, <2>2, <2>3
<1>3. reading' = [u \in Ids |-> reading[u] /\ u \notin us]
  BY <1>2 DEF reading
<1>4. us \in SUBSET Ids
  OBVIOUS
<1> HIDE DEF us
<1>5. \E vs \in SUBSET Ids : reading' = [u \in Ids |-> reading[u] /\ u \notin vs]
  BY <1>3, <1>4
<1> QED BY <1>1, <1>5, TableSeen, SourceSeen, EngineSeen DEF Life!EndReading

\* A handler that holds the row of u writes it.
LEMMA RowSeen ==
  ASSUME PortalInv, Emptied, NEW s \in Slots, NEW u \in DOMAIN rows, NEW row \in Row,
         Update(u, row), NEW h, Become(s, h), h.at \notin Serving \cup {"removed"},
         ~ At(s, Serving), UNCHANGED <<source, engine>>
  PROVE  /\ Emptied' /\ u \in Ids /\ phase[u] = rows[u].state /\ stored[u] = rows[u].offset
         /\ phase' = [phase EXCEPT ![u] = row.state]
         /\ stored' = [stored EXCEPT ![u] = row.offset]
         /\ UNCHANGED <<kept, job, claimed, reading>>
<1>1. Emptied'
  <2>1. NoneNew
    BY NoneNewStep
  <2> QED BY <2>1, EmptiedKept
<1>2. u \in Ids /\ u <= issued /\ issued \in Nat /\ \A v \in Ids : v \in Nat
  BY PortalAssumption DEF PortalInv, TableOK, Ids
<1>3. rows' = [rows EXCEPT ![u] = row] /\ issued' = issued
  BY DEF Update
<1>4. ASSUME NEW v \in Ids PROVE PhaseOf(v)' = IF v = u THEN row.state ELSE PhaseOf(v)
  BY <1>2, <1>3 DEF PhaseOf
<1>5. phase[u] = rows[u].state /\ stored[u] = rows[u].offset
  BY <1>2 DEF phase, stored, PhaseOf
<1>6. phase' = [phase EXCEPT ![u] = row.state]
  BY <1>2, <1>4 DEF phase
<1>7. stored' = [stored EXCEPT ![u] = row.offset]
  BY <1>2, <1>3 DEF stored
<1>8. UNCHANGED reading
  BY ReadingSeen
<1> QED BY <1>1, <1>2, <1>5, <1>6, <1>7, <1>8, SourceSeen, EngineSeen

\* submit: the row says so before the engine is asked.
LEMMA SubmitLife ==
  ASSUME PortalInv, TraceInv, Emptied, NEW s \in Slots, NEW u \in DOMAIN rows, Submit(s, u),
         ~ At(s, Serving), UNCHANGED <<source, engine>>, rows[u].state \in Unconfirmed
  PROVE  Emptied' /\ (Life!Forward(u) \/ UNCHANGED Life!lifeVars) /\ u \in Ids
<1> DEFINE row == [rows[u] EXCEPT !.state = "submitting"]
           h == Work("create", Snapshot(u), 0, <<>>)
<1>1. Update(u, row) /\ Become(s, h)
  BY DEF Submit, Begin
<1>2. h.at \notin Serving \cup {"removed"}
  BY DEF Work, Serving
<1>3. rows[u] \in Row
  BY DEF PortalInv, TableOK
<1>4. row \in Row /\ row.state = "submitting" /\ row.offset = rows[u].offset
  BY <1>3 DEF Row, States
<1> HIDE DEF row, h
<1>5. /\ Emptied' /\ u \in Ids /\ phase[u] = rows[u].state /\ stored[u] = rows[u].offset
      /\ phase' = [phase EXCEPT ![u] = "submitting"]
      /\ stored' = [stored EXCEPT ![u] = stored[u]]
      /\ UNCHANGED <<kept, job, claimed, reading>>
  BY <1>1, <1>2, <1>4, RowSeen
<1>6. UNCHANGED stored
  BY <1>5 DEF stored
<1>7. CASE rows[u].state = "ready"
  BY <1>5, <1>6, <1>7 DEF Life!Forward
<1>8. CASE rows[u].state = "submitting"
  <2>1. UNCHANGED phase
    BY <1>5, <1>8 DEF phase
  <2> QED BY <1>5, <1>6, <2>1 DEF Life!lifeVars
<1> QED BY <1>5, <1>7, <1>8 DEF Unconfirmed

\* The complete route, for a source that is there already.
LEMMA BeginCompleteLife ==
  ASSUME PortalInv, TraceInv, Emptied, NEW s \in Slots, NEW u \in DOMAIN rows, BeginComplete(s, u)
  PROVE  Emptied' /\ (Life!EndReading \/ Life!Forward(u) \/ UNCHANGED Life!lifeVars) /\ u \in Ids
<1>1. /\ UNCHANGED <<source, engine>> /\ handlers[s] = Idle
      /\ u \in Ids
  BY PortalAssumption DEF BeginComplete, files, Open, PortalInv, TableOK, Ids
<1>2. ~ At(s, Serving)
  BY <1>1, EndedPlain DEF At
<1>3. CASE /\ rows[u].state = "uploading" /\ Become(s, Work("check", Snapshot(u), 0, <<>>))
           /\ UNCHANGED table
  <2>1. Work("check", Snapshot(u), 0, <<>>).at \notin Serving \cup {"removed"}
    BY DEF Work, Serving
  <2>2. NoneNew
    BY <1>3, <2>1, NoneNewStep
  <2> QED BY <1>1, <1>3, <2>2, OnlyEnds DEF table
<1>4. CASE rows[u].state # "uploading" /\ ~ rows[u].job /\ Submit(s, u)
  <2>1. rows[u].state \in States
    BY DEF PortalInv, TableOK, Row
  <2>2. rows[u].state # "submitted"
    BY <1>1, <1>4 DEF TraceInv, JobsKept, JobKept
  <2>3. rows[u].state \in Unconfirmed
    BY <1>4, <2>1, <2>2 DEF States, Unconfirmed
  <2> QED BY <1>1, <1>2, <1>4, <2>3, SubmitLife
<1> QED BY <1>3, <1>4 DEF BeginComplete, Begin

\* The submission that the timer repeats.
LEMMA MaintenanceSubmitsLife ==
  ASSUME PortalInv, TraceInv, Emptied, NEW u \in Ids, MaintenanceSubmits(u)
  PROVE  Emptied' /\ (Life!Forward(u) \/ UNCHANGED Life!lifeVars)
<1>1. u \in DOMAIN rows /\ rows[u].state \in Unconfirmed
  BY DEF MaintenanceSubmits, Due, PortalInv, TableOK, Range, Retried, Unconfirmed
<1>2. /\ Submit(Maintenance, u) /\ UNCHANGED <<source, engine>>
      /\ Maintenance \in Slots /\ handlers[Maintenance] = Idle
  BY DEF MaintenanceSubmits, files, Slots
<1>3. ~ At(Maintenance, Serving)
  BY <1>2, EndedPlain DEF At
<1> QED BY <1>1, <1>2, <1>3, SubmitLife

\* The submission that follows the check of the file.
LEMMA SubmitReadyLife ==
  ASSUME PortalInv, TraceInv, Emptied, NEW s \in Slots, SubmitReady(s)
  PROVE  Emptied' /\ \E u \in Ids : Life!Forward(u) \/ UNCHANGED Life!lifeVars
<1>1. At(s, Writers) /\ At(s, {"submit"}) /\ ~ At(s, Serving)
  BY DEF SubmitReady, At, Writers, Serving
<1>2. Submit(s, Upload(s)) /\ UNCHANGED <<source, engine>>
  BY DEF SubmitReady, files
<1>3. rows[Upload(s)].state \in Unconfirmed
  BY <1>1, SlotsKnown DEF Staged, Unconfirmed
<1>4. Upload(s) \in DOMAIN rows
  BY <1>1, WriterHolds
<1> QED BY <1>1, <1>2, <1>3, <1>4, SubmitLife

\* A chunk is committed: what is stored grows, up to the size.
LEMMA CommitChunkLife ==
  ASSUME PortalInv, TraceInv, Emptied, NEW s \in Slots, CommitChunk(s)
  PROVE  Emptied' /\ \E u \in Ids : Life!Commit(u) \/ UNCHANGED Life!lifeVars
<1>1. /\ At(s, Writers) /\ At(s, {"writing"}) /\ ~ At(s, Serving)
      /\ At(s, {"open", "writing"}) /\ At(s, {"open", "writing", "check", "ready"})
  BY DEF CommitChunk, At, Writers, Serving
<1>2. Upload(s) \in DOMAIN rows /\ Upload(s) \in Ids
  BY <1>1, WriterHolds
<1>3. PICK u \in DOMAIN rows : u = Upload(s) /\ u \in Ids
  BY <1>2
<1> DEFINE n == Len(part[u])
           row == [rows[u] EXCEPT !.offset = n]
<1>4. /\ rows[u].state = "uploading" /\ rows[u] \in Row
      /\ n \in Nat /\ n >= rows[u].offset /\ rows[u].offset \in Nat /\ n <= Size
  <2>1. Staged(s) /\ Sound(s) /\ rows[u] \in Row /\ part[u] \in Seq(Units) /\ handlers[s].n \in Nat
    <3>1. Staged(s) /\ Sound(s) /\ HandlersOK
      BY SlotsKnown
    <3>2. At(s, Writers \cup Cleaning \cup {"access"})
      BY <1>1 DEF At
    <3>3. handlers[s].n \in 0..Size
      BY <3>1, <3>2, StagedLocks, BusyTyped
    <3>4. handlers[s].n \in Nat
      BY <3>3, PortalAssumption
    <3> QED BY <1>3, <3>1, <3>4 DEF PortalInv, TableOK, FilesOK
  <2>2. rows[u].offset \in Nat /\ Len(part[u]) - rows[u].offset = handlers[s].n
    BY <1>3, <2>1, PortalAssumption DEF Row, CommitChunk, Received
  <2> QED BY <1>1, <1>3, <2>1, <2>2, PortalAssumption DEF Staged, Sound
<1>5. /\ Update(u, row) /\ Become(s, Idle) /\ UNCHANGED <<source, engine>>
  BY <1>3 DEF CommitChunk, files
<1>6. row \in Row /\ row.state = "uploading" /\ row.offset = n
  BY <1>4, PortalAssumption DEF Row
<1> HIDE DEF n, row
<1>7. /\ Emptied' /\ phase[u] = rows[u].state /\ stored[u] = rows[u].offset
      /\ phase' = [phase EXCEPT ![u] = "uploading"]
      /\ stored' = [stored EXCEPT ![u] = n]
      /\ UNCHANGED <<kept, job, claimed, reading>>
  BY <1>1, <1>5, <1>6, EndedPlain, RowSeen
<1>8. UNCHANGED phase
  BY <1>4, <1>7 DEF phase
<1>9. CASE n = rows[u].offset
  <2>1. UNCHANGED stored
    BY <1>7, <1>9 DEF stored
  <2> QED BY <1>3, <1>7, <1>8, <2>1 DEF Life!lifeVars
<1>10. CASE n # rows[u].offset
  <2>1. n \in stored[u] + 1 .. Size
    BY <1>4, <1>7, <1>10, PortalAssumption
  <2>2. Life!Commit(u)
    BY <1>4, <1>7, <1>8, <2>1 DEF Life!Commit
  <2> QED BY <1>3, <1>7, <2>2
<1> QED BY <1>9, <1>10

\* The finished source is announced.
LEMMA MarkReadyLife ==
  ASSUME PortalInv, TraceInv, Emptied, NEW s \in Slots, MarkReady(s)
  PROVE  Emptied' /\ \E u \in Ids : Life!Forward(u)
<1>1. /\ At(s, Writers) /\ At(s, {"ready"}) /\ ~ At(s, Serving)
      /\ At(s, {"open", "writing", "check", "ready"})
  BY DEF MarkReady, At, Writers, Serving
<1>2. PICK u \in DOMAIN rows : u = Upload(s) /\ u \in Ids
  BY <1>1, WriterHolds
<1> DEFINE row == [rows[u] EXCEPT !.state = "ready"]
           h == [handlers[s] EXCEPT !.at = "submit"]
<1>3. rows[u].state = "uploading" /\ source[u] # <<>> /\ rows[u] \in Row
  BY <1>1, <1>2, SlotsKnown DEF Staged, PortalInv, TableOK
<1>4. row \in Row /\ row.state = "ready" /\ row.offset = rows[u].offset
  BY <1>3 DEF Row, States
<1>5. Update(u, row) /\ Become(s, h) /\ UNCHANGED <<source, engine>>
  BY <1>2 DEF MarkReady, files, Advance
<1>6. h.at = "submit"
  BY <1>1, SlotsKnown, StagedLocks DEF Working, At
<1> HIDE DEF row, h
<1>7. h.at \notin Serving \cup {"removed"}
  BY <1>6 DEF Serving
<1>8. /\ Emptied' /\ phase[u] = rows[u].state /\ stored[u] = rows[u].offset
      /\ phase' = [phase EXCEPT ![u] = "ready"]
      /\ stored' = [stored EXCEPT ![u] = stored[u]]
      /\ UNCHANGED <<kept, job, claimed, reading>>
  BY <1>1, <1>4, <1>5, <1>7, RowSeen
<1>9. UNCHANGED stored /\ kept[u]
  BY <1>2, <1>3, <1>8 DEF stored, kept
<1> QED BY <1>2, <1>3, <1>8, <1>9 DEF Life!Forward

\* The job is there before its id is stored.
LEMMA StoreJobLife ==
  ASSUME PortalInv, TraceInv, Emptied, NEW s \in Slots, StoreJob(s)
  PROVE  Emptied' /\ \E u \in Ids : Life!Forward(u)
<1>1. /\ At(s, Writers) /\ At(s, {"created"}) /\ ~ At(s, Serving) /\ At(s, {"create", "created"})
  BY DEF StoreJob, At, Writers, Serving
<1>2. PICK u \in DOMAIN rows : u = Upload(s) /\ u \in Ids
  BY <1>1, WriterHolds
<1> DEFINE row == [rows[u] EXCEPT !.state = "submitted", !.job = TRUE]
<1>3. rows[u].state = "submitting" /\ engine[u].status # "none" /\ rows[u] \in Row
  BY <1>1, <1>2, SlotsKnown DEF Staged, PortalInv, TableOK
<1>4. row \in Row /\ row.state = "submitted" /\ row.offset = rows[u].offset
  BY <1>3 DEF Row, States
<1>5. PICK h \in {Idle, Expire} : Become(s, h)
  BY DEF StoreJob
<1>6. Update(u, row) /\ UNCHANGED <<source, engine>>
  BY <1>2 DEF StoreJob, files
<1> HIDE DEF row
<1>7. /\ Emptied' /\ phase[u] = rows[u].state /\ stored[u] = rows[u].offset
      /\ phase' = [phase EXCEPT ![u] = "submitted"]
      /\ stored' = [stored EXCEPT ![u] = stored[u]]
      /\ UNCHANGED <<kept, job, claimed, reading>>
  BY <1>1, <1>4, <1>5, <1>6, EndedPlain, RowSeen
<1>8. UNCHANGED stored /\ job[u] # "none"
  BY <1>2, <1>3, <1>7 DEF stored, job
<1> QED BY <1>2, <1>3, <1>7, <1>8 DEF Life!Forward

\* An upload whose record is current and whose files a cleanup may remove.
Disposable(u) == Life!Disposable(u)

\* Cleanup that acts on a current record acts on files that nobody needs.
LEMMA DisposableNow ==
  ASSUME PortalInv, TraceInv, NEW s \in Slots, At(s, Cleaning), NEW u \in Ids, u = Upload(s),
         u \in DOMAIN rows, rows[u].state \notin Unconfirmed, Asked(u) => engine[u].claimed
  PROVE  Disposable(u)
<1>1. ~ (u > issued)
  BY PortalAssumption DEF PortalInv, TableOK, Ids
<1>2. rows[u].state \in {"uploading", "submitted"} /\ phase[u] = rows[u].state
  BY <1>1 DEF PortalInv, TableOK, Row, States, Unconfirmed, phase, PhaseOf
<1>3. rows[u].state = "submitted" => claimed[u]
  BY DEF TraceInv, JobsKept, JobKept, Asked, claimed
<1>4. ~ reading[u]
  <2>1. SUFFICES ASSUME NEW t \in Slots, At(t, Serving), Upload(t) = u PROVE FALSE
    BY DEF reading
  <2>2. At(t, Reading)
    BY <2>1 DEF At, Reading
  <2> QED BY <2>1, <2>2, SlotsKnown DEF Undisturbed
<1> QED BY <1>2, <1>3, <1>4 DEF Disposable, Life!Disposable

\* The next record of a batch is not read.
LEMMA NextItemReading ==
  ASSUME PortalInv, NEW s \in Slots, NEW rest, NextItem(s, rest), ~ At(s, Serving)
  PROVE  UNCHANGED reading
<1>1. ASSUME NEW i PROVE
        Work(IF s = Maintenance THEN "remove" ELSE "access", rest[i], 0,
             SubSeq(rest, i + 1, Len(rest))).at \notin Serving
  BY DEF Work, Serving
<1>2. Idle.at \notin Serving
  BY EndedPlain
<1> QED BY <1>1, <1>2, ReadingSeen DEF NextItem

\* A part becomes the source only when all of it is committed.
LEMMA CheckFileLife ==
  ASSUME PortalInv, TraceInv, Emptied, NEW s \in Slots, CheckFile(s)
  PROVE  Emptied' /\ \E u \in Ids : Life!Finish(u)
<1>1. /\ At(s, Writers) /\ At(s, {"check"}) /\ ~ At(s, Serving)
      /\ At(s, {"open", "writing", "check", "ready"})
  BY DEF CheckFile, At, Writers, Serving
<1>2. PICK u \in DOMAIN rows : u = Upload(s) /\ u \in Ids
  BY <1>1, WriterHolds
<1> DEFINE file == IF source[u] # <<>> THEN source[u] ELSE part[u]
           h == [handlers[s] EXCEPT !.at = "ready"]
<1>3. /\ rows[u].state = "uploading" /\ rows[u].offset = Size /\ Len(file) = Size
      /\ source' = [source EXCEPT ![u] = file]
      /\ UNCHANGED <<rows, issued, engine>> /\ Become(s, h)
  BY <1>1, <1>2, SlotsKnown DEF Staged, CheckFile, table, Advance
<1>4. h.at = "ready"
  BY <1>1, SlotsKnown, StagedLocks DEF Working, At
<1> HIDE DEF h
<1>5. file # <<>>
  BY <1>3, PortalAssumption
<1> HIDE DEF file
<1>6. source \in [Ids -> Seq(Units)]
  BY DEF PortalInv, FilesOK
<1>7. source'[u] # <<>> /\ \A v \in Ids \ {u} : source'[v] = source[v]
  BY <1>2, <1>3, <1>5, <1>6
<1>8. kept' = [kept EXCEPT ![u] = TRUE]
  BY <1>2, <1>7 DEF kept
<1>9. Emptied'
  <2>1. NoneNew
    BY <1>3, <1>4, NoneNewStep DEF Serving
  <2>2. ASSUME NEW t \in Slots, At(t, {"removed"}) PROVE source'[Upload(t)] = source[Upload(t)]
    <3>1. t # s /\ Locks(t) /\ Upload(t) \in Ids
      BY <1>1, <2>2, SlotsKnown, StagedLocks DEF At, Cleaning
    <3>2. Locks(s)
      BY <1>1, SlotsKnown, StagedLocks DEF At
    <3>3. Upload(t) # u
      BY <1>2, <3>1, <3>2, HeldAlone DEF PortalInv
    <3> QED BY <1>7, <3>1, <3>3
  <2> QED BY <2>1, <2>2, EmptiedKept
<1>10. UNCHANGED reading
  BY <1>1, <1>3, <1>4, ReadingSeen DEF Serving
<1>11. phase[u] = "uploading" /\ stored[u] = Size
  <2>1. ~ (u > issued)
    BY <1>2, PortalAssumption DEF PortalInv, TableOK, Ids
  <2> QED BY <1>2, <1>3, <2>1 DEF phase, stored, PhaseOf
<1>12. Life!Finish(u)
  BY <1>3, <1>8, <1>10, <1>11, TableSeen, EngineSeen DEF Life!Finish
<1> QED BY <1>2, <1>9, <1>12

\* The files go ...
LEMMA RemoveFilesLife ==
  ASSUME PortalInv, TraceInv, RecordsCurrent, Emptied, NEW s \in Slots, RemoveFiles(s)
  PROVE  Emptied' /\ \E u \in Ids : Life!RemoveSource(u)
<1>1. /\ At(s, {"remove"}) /\ At(s, {"remove", "removed"}) /\ At(s, Cleaning)
      /\ ~ At(s, Serving) /\ Advance(s, "removed") /\ UNCHANGED <<rows, issued, engine>>
  BY DEF RemoveFiles, table, At, Cleaning, Serving
<1>2. PICK u \in Ids : u = Upload(s)
  BY <1>1, RemoverHolds
<1>3. /\ u \in DOMAIN rows /\ rows[u].state \notin Unconfirmed
      /\ Asked(u) => engine[u].claimed
  BY <1>1, <1>2, Removable DEF RecordsCurrent
<1>4. source' = [source EXCEPT ![u] = <<>>] /\ source'[u] = <<>>
      /\ \A v \in Ids \ {u} : source'[v] = source[v]
  BY <1>2 DEF RemoveFiles, PortalInv, FilesOK
<1>5. kept' = [kept EXCEPT ![u] = FALSE]
  BY <1>2, <1>4 DEF kept
<1>6. Disposable(u)
  BY <1>1, <1>2, <1>3, DisposableNow
<1> DEFINE h == [handlers[s] EXCEPT !.at = "removed"]
<1>7. Become(s, h) /\ h.at = "removed" /\ h.item = handlers[s].item
  BY <1>1, SlotsKnown, StagedLocks DEF Working, At, Advance
<1> HIDE DEF h
<1>8. UNCHANGED reading
  BY <1>1, <1>7, ReadingSeen DEF Serving
<1>9. Emptied'
  <2>1. handlers'[s] = h /\ \A t \in Slots \ {s} : handlers'[t] = handlers[t]
    BY <1>7, MovedAlone
  <2>2. Upload(s)' = u
    BY <1>2, <1>7, <2>1 DEF Upload
  <2> SUFFICES ASSUME NEW t \in Slots, At(t, {"removed"})' PROVE source'[Upload(t)'] = <<>>
    BY DEF Emptied
  <2>3. CASE t = s
    BY <1>4, <2>2, <2>3
  <2>4. CASE t # s
    <3>1. At(t, {"removed"}) /\ Upload(t)' = Upload(t)
      BY <2>1, <2>4 DEF At, Upload
    <3>2. Upload(t) \in Ids /\ source[Upload(t)] = <<>>
      BY <3>1, SlotsKnown, StagedLocks DEF Emptied, At, Cleaning
    <3> QED BY <1>4, <3>1, <3>2
  <2> QED BY <2>3, <2>4
<1>10. Life!RemoveSource(u)
  BY <1>1, <1>5, <1>6, <1>8, TableSeen, EngineSeen DEF Life!RemoveSource, Disposable
<1> QED BY <1>9, <1>10

\* ... and then the row.
LEMMA DeleteRowLife ==
  ASSUME PortalInv, TraceInv, RecordsCurrent, Emptied, NEW s \in Slots, DeleteRow(s)
  PROVE  Emptied' /\ \E u \in Ids : Life!Remove(u)
<1>1. /\ At(s, {"removed"}) /\ At(s, {"remove", "removed"}) /\ At(s, Cleaning)
      /\ ~ At(s, Serving) /\ NextItem(s, handlers[s].rest) /\ UNCHANGED <<issued, source, engine>>
  BY DEF DeleteRow, files, At, Cleaning, Serving
<1>2. PICK u \in Ids : u = Upload(s)
  BY <1>1, RemoverHolds
<1>3. /\ u \in DOMAIN rows /\ rows[u].state \notin Unconfirmed
      /\ Asked(u) => engine[u].claimed
  BY <1>1, <1>2, Removable DEF RecordsCurrent
<1>4. rows' = [v \in DOMAIN rows \ {u} |-> rows[v]]
  BY <1>2 DEF DeleteRow
<1>5. u <= issued /\ issued \in Nat /\ \A v \in Ids : v \in Nat
  BY <1>3, PortalAssumption DEF PortalInv, TableOK, Ids
<1>6. ~ kept[u]
  BY <1>1, <1>2 DEF Emptied, kept
<1>7. Disposable(u)
  BY <1>1, <1>2, <1>3, DisposableNow
<1>8. ASSUME NEW v \in Ids PROVE PhaseOf(v)' = IF v = u THEN "removed" ELSE PhaseOf(v)
  BY <1>1, <1>4, <1>5 DEF PhaseOf
<1>9. phase' = [phase EXCEPT ![u] = "removed"] /\ stored' = [stored EXCEPT ![u] = 0]
  BY <1>4, <1>8 DEF phase, stored
<1>10. Emptied'
  BY <1>1, NextItemNoneNew, EmptiedKept
<1>11. UNCHANGED reading
  BY <1>1, NextItemReading
<1>12. Life!Remove(u)
  BY <1>1, <1>6, <1>7, <1>9, <1>11, SourceSeen, EngineSeen DEF Life!Remove, Disposable
<1> QED BY <1>10, <1>12

\* A handler that gives up reads nothing any more.
LEMMA AbandonReading ==
  ASSUME PortalInv, NEW s \in Slots, Abandon(s), ~ At(s, Serving)
  PROVE  UNCHANGED reading
BY AbandonCases, EndedPlain, ReadingSeen, NextItemReading

\* What the engine does with a request.
LEMMA ServeLife ==
  ASSUME PortalInv, TraceInv, NEW op \in Operations, NEW u \in Ids, Serve(op, u),
         op = "create" => Expected(u), UNCHANGED <<phase, stored, kept, reading>>
  PROVE  \/ Life!CreateJob(u) \/ Life!JobMoves(u) \/ Life!Claim(u) \/ UNCHANGED Life!lifeVars
<1> DEFINE e == Served(op, u)
<1>1. /\ engine \in [Ids -> EngineJob] /\ engine[u] \in EngineJob
      /\ engine' = [engine EXCEPT ![u] = e]
      /\ ~ NoEngineJob.live /\ ~ NoEngineJob.claimed /\ NoEngineJob.status = "none"
  BY DEF PortalInv, EngineOK, NoEngineJob, Serve
<1>2. job[u] = engine[u].status /\ claimed[u] = engine[u].claimed
  BY DEF job, claimed
<1>3. ASSUME NEW status, NEW claim, e.status = status, e.claimed = claim
      PROVE  job' = [job EXCEPT ![u] = status] /\ claimed' = [claimed EXCEPT ![u] = claim]
  <2> HIDE DEF e
  <2>1. engine'[u] = e /\ \A v \in Ids \ {u} : engine'[v] = engine[v]
    BY <1>1
  <2> QED BY <1>3, <2>1 DEF job, claimed
<1>4. CASE op = "create" /\ engine[u] = NoEngineJob
  <2>1. e = [status |-> "ACTIVE", live |-> TRUE, claimed |-> FALSE]
    BY <1>4 DEF Served
  <2>2. u \in DOMAIN rows /\ rows[u].state \in {"submitting", "submitted"} /\ JobKept(u)
    BY <1>1, <1>4 DEF Expected, TraceInv, JobsKept
  <2>3. rows[u].state = "submitting" /\ source[u] # <<>>
    BY <1>1, <1>4, <2>2 DEF JobKept, Unconfirmed
  <2>4. phase[u] = "submitting" /\ kept[u]
    <3>1. ~ (u > issued)
      BY <2>2, PortalAssumption DEF PortalInv, TableOK, Ids
    <3> QED BY <2>2, <2>3, <3>1 DEF phase, PhaseOf, kept
  <2> HIDE DEF e
  <2>5. job' = [job EXCEPT ![u] = "ACTIVE"] /\ claimed' = [claimed EXCEPT ![u] = FALSE]
    BY <1>3, <2>1
  <2>6. claimed' = claimed
    <3>1. claimed[u] = FALSE
      BY <1>2, <1>4 DEF NoEngineJob
    <3> QED BY <2>5, <3>1 DEF claimed
  <2> QED BY <1>1, <1>2, <1>4, <2>4, <2>5, <2>6 DEF Life!CreateJob
<1>5. CASE op = "claim" /\ Accepted(op, u)
  <2>1. e = [engine[u] EXCEPT !.claimed = TRUE]
    BY <1>5 DEF Served
  <2>2. engine[u].status \in {"COMPLETED", "FAILED"}
    BY <1>5 DEF Accepted
  <2>3. e.status = engine[u].status /\ e.claimed = TRUE
    BY <1>1, <2>1 DEF EngineJob
  <2> HIDE DEF e
  <2>4. job' = [job EXCEPT ![u] = job[u]] /\ claimed' = [claimed EXCEPT ![u] = TRUE]
    BY <1>2, <1>3, <2>3
  <2>5. job' = job
    BY <2>4 DEF job
  <2> QED BY <1>2, <2>2, <2>4, <2>5 DEF Life!Claim
<1>6. CASE op = "cancel" /\ engine[u].live /\ engine[u].status = "ACTIVE"
  <2>1. e = [engine[u] EXCEPT !.status = "CANCELLED"]
    BY <1>6 DEF Served
  <2>2. e.status = "CANCELLED" /\ e.claimed = engine[u].claimed
    BY <1>1, <2>1 DEF EngineJob
  <2> HIDE DEF e
  <2>3. job' = [job EXCEPT ![u] = "CANCELLED"] /\ claimed' = [claimed EXCEPT ![u] = claimed[u]]
    BY <1>2, <1>3, <2>2
  <2>4. claimed' = claimed
    BY <2>3 DEF claimed
  <2> QED BY <1>2, <1>6, <2>3, <2>4 DEF Life!JobMoves
<1>7. CASE /\ ~ (op = "create" /\ engine[u] = NoEngineJob)
           /\ ~ (op = "claim" /\ Accepted(op, u))
           /\ ~ (op = "cancel" /\ engine[u].live /\ engine[u].status = "ACTIVE")
  <2>1. e = engine[u]
    BY <1>7 DEF Served
  <2>2. engine' = engine
    BY <1>1, <2>1
  <2> QED BY <2>2, EngineSeen DEF Life!lifeVars
<1> QED BY <1>4, <1>5, <1>6, <1>7

\* The steps in which UploadLife's job moves.
JobSteps(u) == Life!CreateJob(u) \/ Life!JobMoves(u) \/ Life!Claim(u) \/ UNCHANGED Life!lifeVars

\* The job ends, runs again or leaves the history.
LEMMA EngineMovesLife ==
  ASSUME PortalInv, Emptied, NEW u \in Ids, EngineMoves(u)
  PROVE  Emptied' /\ JobSteps(u)
<1>1. UNCHANGED <<rows, issued, source, handlers>>
  BY DEF EngineMoves, table, files
<1>2. engine \in [Ids -> EngineJob] /\ engine[u] \in EngineJob
  BY DEF PortalInv, EngineOK
<1>3. Emptied' /\ UNCHANGED reading
  BY <1>1 DEF Emptied, At, Upload, reading
<1>4. UNCHANGED <<phase, stored, kept, reading>>
  BY <1>1, <1>3, TableSeen, SourceSeen
<1>5. \A v \in Ids \ {u} : engine'[v] = engine[v]
  BY <1>2 DEF EngineMoves
<1>6. engine'[u].claimed = engine[u].claimed
  BY <1>2 DEF EngineMoves, EngineJob
<1>7. claimed' = claimed
  BY <1>5, <1>6 DEF claimed
<1>8. job' = [job EXCEPT ![u] = engine'[u].status]
  BY <1>5 DEF job
<1>9. job[u] = engine[u].status /\ claimed[u] = engine[u].claimed
  BY DEF job, claimed
<1>10. CASE engine[u].status = "ACTIVE" /\ \E end \in {"COMPLETED", "FAILED", "CANCELLED"} :
              engine' = [engine EXCEPT ![u].status = end]
  <2>1. engine'[u].status \in {"COMPLETED", "FAILED", "CANCELLED"}
    BY <1>2, <1>10 DEF EngineJob
  <2> QED BY <1>3, <1>4, <1>7, <1>8, <1>9, <1>10, <2>1 DEF JobSteps, Life!JobMoves
<1>11. CASE /\ engine[u].status = "FAILED" /\ ~ engine[u].claimed
            /\ engine' = [engine EXCEPT ![u].status = "ACTIVE"]
  <2>1. engine'[u].status = "ACTIVE"
    BY <1>2, <1>11 DEF EngineJob
  <2> QED BY <1>3, <1>4, <1>7, <1>8, <1>9, <1>11, <2>1 DEF JobSteps, Life!JobMoves
<1>12. CASE engine' = [engine EXCEPT ![u].live = FALSE]
  <2>1. engine'[u].status = engine[u].status
    BY <1>2, <1>12 DEF EngineJob
  <2>2. job' = job
    BY <1>8, <2>1 DEF job
  <2> QED BY <1>3, <1>4, <1>7, <2>2 DEF JobSteps, Life!lifeVars
<1>13. Emptied'
  BY <1>3
<1> QED BY <1>10, <1>11, <1>12, <1>13 DEF EngineMoves

\* A request that comes late is served as it would have been.
LEMMA ServeLateLife ==
  ASSUME PortalInv, TraceInv, Emptied, NEW request \in late, ServeLate(request)
  PROVE  Emptied' /\ \E u \in Ids : JobSteps(u)
<1>1. /\ UNCHANGED <<rows, issued, source, handlers>> /\ Serve(request.op, request.u)
  BY DEF ServeLate, table, files
<1>2. /\ request.op \in Operations /\ request.u \in Ids
      /\ request = [op |-> request.op, u |-> request.u]
  BY DEF PortalInv, LateOK, Operations
<1>3. Emptied' /\ UNCHANGED reading
  BY <1>1 DEF Emptied, At, Upload, reading
<1>4. request.op = "create" => Expected(request.u)
  BY <1>2 DEF TraceInv, JobsKept, JobKept, Asked, CreateRequest
<1>5. JobSteps(request.u)
  BY <1>1, <1>2, <1>3, <1>4, TableSeen, SourceSeen, ServeLife DEF JobSteps
<1> QED BY <1>2, <1>3, <1>5

\* An answer, and the same request with its answer lost.
LEMMA AskedLife ==
  ASSUME PortalInv, TraceInv, NEW s \in Slots, At(s, Operations),
         Serve(handlers[s].at, Upload(s)), UNCHANGED <<rows, issued, source, reading>>
  PROVE  \E u \in Ids : JobSteps(u)
<1>1. /\ handlers[s].at \in Operations /\ Upload(s) \in Ids
  BY AskingTyped
<1>2. handlers[s].at = "create" => Expected(Upload(s))
  BY <1>1, AskingExpected
<1>3. JobSteps(Upload(s))
  BY <1>1, <1>2, TableSeen, SourceSeen, ServeLife DEF JobSteps
<1> QED BY <1>1, <1>3

\* (the answer is lost)
LEMMA NotAnsweredLife ==
  ASSUME PortalInv, TraceInv, Emptied, NEW s \in Slots, NotAnswered(s)
  PROVE  Emptied' /\ \E u \in Ids : JobSteps(u)
<1>1. /\ UNCHANGED <<rows, issued, source>> /\ At(s, Operations)
      /\ Serve(handlers[s].at, Upload(s)) /\ Abandon(s)
  BY DEF NotAnswered, table, files
<1>2. ~ At(s, Serving)
  BY <1>1 DEF At, Operations, Effective, Serving
<1>3. UNCHANGED reading /\ NoneNew
  BY <1>1, <1>2, AbandonReading, AbandonNoneNew
<1>4. Emptied'
  BY <1>1, <1>3, EmptiedKept
<1> QED BY <1>1, <1>3, <1>4, AskedLife

\* (the answer arrives: a claimed job may be cleaned, a completed one read)
LEMMA AnsweredLife ==
  ASSUME PortalInv, TraceInv, Emptied, NEW s \in Slots, Answered(s)
  PROVE  Emptied' /\ \E u \in Ids : JobSteps(u) \/ Life!Read(u)
<1>1. /\ UNCHANGED <<rows, issued, source>> /\ At(s, Operations)
      /\ Serve(handlers[s].at, Upload(s)) /\ Accepted(handlers[s].at, Upload(s))
  BY DEF Answered, table, files
<1>2. Busy(s) /\ handlers[s].at \in Operations /\ Upload(s) \in Ids
  BY <1>1, AskingTyped
<1>3. ~ At(s, Serving)
  BY <1>1 DEF At, Operations, Effective, Serving
<1> DEFINE h(stage) == [handlers[s] EXCEPT !.at = stage]
<1>4. ASSUME NEW stage PROVE h(stage).at = stage /\ h(stage).item = handlers[s].item
  BY <1>2, SlotsKnown, BusyTyped DEF Working
<1>5. \/ Become(s, Idle)
      \/ \E stage \in {"created", "remove"} : Become(s, h(stage))
      \/ handlers[s].at = "status" /\ Become(s, h("locate"))
  BY <1>2 DEF Answered, Operations, Effective, Advance
<1> HIDE DEF h
<1>6. CASE Become(s, Idle) \/ \E stage \in {"created", "remove"} : Become(s, h(stage))
  <2>1. PICK g : Become(s, g) /\ g.at \notin Serving \cup {"removed"}
    BY <1>4, <1>6, EndedPlain DEF Serving
  <2>2. UNCHANGED reading /\ NoneNew
    BY <1>3, <2>1, ReadingSeen, NoneNewStep
  <2>3. Emptied'
    BY <1>1, <2>2, EmptiedKept
  <2> QED BY <1>1, <2>2, <2>3, AskedLife
<1>7. CASE handlers[s].at = "status" /\ Become(s, h("locate"))
  <2>1. PICK u \in Ids : u = Upload(s)
    BY <1>2
  <2>2. engine' = engine
    <3>1. Served("status", u) = engine[u]
      BY DEF Served
    <3>2. engine \in [Ids -> EngineJob]
      BY DEF PortalInv, EngineOK
    <3> QED BY <1>1, <1>7, <2>1, <3>1, <3>2 DEF Serve
  <2>3. At(s, Reading)
    BY <1>7 DEF At, Reading
  <2>4. u \in DOMAIN rows /\ rows[u].job
    BY <2>1, <2>3, SlotsKnown DEF Undisturbed
  <2>5. phase[u] = "submitted"
    <3>1. rows[u].state = "submitted"
      BY <2>4 DEF TraceInv, JobsKept, JobKept
    <3>2. ~ (u > issued)
      BY <2>4, PortalAssumption DEF PortalInv, TableOK, Ids
    <3> QED BY <2>4, <3>1, <3>2 DEF phase, PhaseOf
  <2>6. job[u] = "COMPLETED"
    BY <1>1, <1>7, <2>1 DEF Accepted, job
  <2>7. handlers'[s] = h("locate") /\ \A t \in Slots \ {s} : handlers'[t] = handlers[t]
    BY <1>7, MovedAlone
  <2>8. At(s, Serving)' /\ Upload(s)' = u /\ ~ At(s, {"removed"})'
    BY <1>4, <2>1, <2>7 DEF At, Upload, Serving
  <2>9. \A t \in Slots \ {s} : /\ (At(t, Serving)' <=> At(t, Serving)) /\ Upload(t)' = Upload(t)
                               /\ At(t, {"removed"})' <=> At(t, {"removed"})
    BY <2>7 DEF At, Upload
  <2>10. ASSUME NEW v \in Ids
         PROVE  (\E t \in Slots : At(t, Serving) /\ Upload(t) = v)' <=>
                v = u \/ \E t \in Slots : At(t, Serving) /\ Upload(t) = v
    BY <1>3, <2>8, <2>9
  <2>11. reading' = [reading EXCEPT ![u] = TRUE]
    <3>1. ASSUME NEW v \in Ids
          PROVE  (\E t \in Slots : At(t, Serving) /\ Upload(t) = v)' =
                 IF v = u THEN TRUE ELSE reading[v]
      <4>1. reading[v] = \E t \in Slots : At(t, Serving) /\ Upload(t) = v
        BY DEF reading
      <4> QED BY <2>10, <4>1
    <3> QED BY <3>1 DEF reading
  <2>12. Emptied'
    BY <1>1, <2>8, <2>9 DEF Emptied
  <2>13. Life!Read(u)
    BY <1>1, <2>2, <2>5, <2>6, <2>11, TableSeen, SourceSeen, EngineSeen DEF Life!Read
  <2> QED BY <2>12, <2>13
<1> QED BY <1>5, <1>6, <1>7

\* A new session is the next id.
LEMMA CreateLife ==
  ASSUME PortalInv, Emptied, NEW f \in Files, Create(f)
  PROVE  Emptied' /\ \E u \in Ids : Life!Open(u)
<1> DEFINE u == issued + 1
           new == [file |-> f, state |-> "uploading", offset |-> 0, job |-> FALSE]
<1>1. /\ issued' = u /\ UNCHANGED <<source, engine, handlers>>
      /\ rows' = [v \in DOMAIN rows \cup {u} |-> IF v = u THEN new ELSE rows[v]]
  BY DEF Create, files
<1>2. /\ issued \in Nat /\ u \in Ids /\ DOMAIN rows \subseteq 1..issued /\ u \in Nat
      /\ u > issued /\ \A v \in Ids : v \in Nat
  BY PortalAssumption DEF Create, PortalInv, TableOK, Ids
<1>3. ASSUME NEW v \in Ids PROVE PhaseOf(v)' = IF v = u THEN "uploading" ELSE PhaseOf(v)
  <2>1. CASE v = u
    BY <1>1, <1>2, <2>1 DEF PhaseOf
  <2>2. CASE v # u
    BY <1>1, <1>2, <2>2 DEF PhaseOf
  <2> QED BY <2>1, <2>2
<1>4. phase' = [phase EXCEPT ![u] = "uploading"]
  BY <1>2, <1>3 DEF phase
<1>5. stored' = stored
  BY <1>1, <1>2 DEF stored
<1>6. phase[u] = "new" /\ \A v \in Ids : v < u => phase[v] # "new"
  <2>1. phase[u] = "new"
    BY <1>2 DEF phase, PhaseOf
  <2>2. ASSUME NEW v \in Ids, v < u PROVE phase[v] # "new"
    <3>1. ~ (v > issued)
      BY <1>2, <2>2
    <3> QED BY <3>1 DEF phase, PhaseOf, PortalInv, TableOK, Row, States
  <2> QED BY <2>1, <2>2
<1>7. Emptied' /\ UNCHANGED reading
  BY <1>1 DEF Emptied, At, Upload, reading
<1>8. Life!Open(u)
  BY <1>1, <1>4, <1>5, <1>6, <1>7, SourceSeen, EngineSeen DEF Life!Open
<1> QED BY <1>2, <1>7, <1>8

\* The steps that only move handlers.
LEMMA BeginLife ==
  ASSUME PortalInv, Emptied, NEW s \in Slots, NEW u,
         BeginChunk(s, u) \/ BeginCancel(s, u) \/ BeginDownload(s, u)
  PROVE  Emptied' /\ Life!EndReading
<1>1. UNCHANGED <<rows, issued, source, engine>>
  BY DEF BeginChunk, BeginCancel, BeginDownload, table, files
<1>2. \E n : \E stage \in {"open", "cancel", "status"} : Become(s, Work(stage, Snapshot(u), n, <<>>))
  BY DEF BeginChunk, BeginCancel, BeginDownload, Begin
<1>3. PICK h : Become(s, h) /\ h.at \notin Serving \cup {"removed"}
  BY <1>2 DEF Work, Serving
<1>4. NoneNew
  BY <1>3, NoneNewStep
<1> QED BY <1>1, <1>4, OnlyEnds

\* (a batch)
LEMMA BatchLife ==
  ASSUME PortalInv, Emptied, NEW us,
         \/ \E s \in Requests : BeginDelete(s, us)
         \/ RemoveExpired(us)
  PROVE  Emptied' /\ Life!EndReading
<1>1. UNCHANGED <<rows, issued, source, engine>>
  BY DEF BeginDelete, RemoveExpired, table, files
<1>2. NoneNew
  BY NextItemNoneNew DEF BeginDelete, RemoveExpired, Slots
<1> QED BY <1>1, <1>2, OnlyEnds

\* The awaits on the disk.
LEMMA LocalLife ==
  ASSUME PortalInv, Emptied, NEW s \in Slots,
         \/ Fails(s) \/ TimesOut(s) \/ OpenPart(s) \/ FailChunk(s) \/ WriteUnit(s)
         \/ CheckAccess(s) \/ StartStream(s)
  PROVE  Emptied' /\ Life!EndReading
<1>1. UNCHANGED <<rows, issued, source, engine>>
  BY DEF Fails, TimesOut, OpenPart, FailChunk, WriteUnit, CheckAccess, StartStream, table, files
<1>2. ASSUME At(s, Stages) PROVE Busy(s)
  BY <1>2, BusyTyped DEF PortalInv, Handling
<1>3. CASE Fails(s) \/ TimesOut(s)
  BY <1>1, <1>3, AbandonNoneNew, OnlyEnds DEF Fails, TimesOut
<1>4. CASE OpenPart(s) \/ CheckAccess(s)
  <2>1. At(s, Stages) /\ \E stage \in {"writing", "claim", "remove"} : Advance(s, stage)
    BY <1>4 DEF OpenPart, CheckAccess, At, Stages, Local
  <2>2. NoneNew
    BY <1>2, <2>1, AdvanceNoneNew DEF Serving
  <2> QED BY <1>1, <2>2, OnlyEnds
<1>5. CASE FailChunk(s)
  <2>1. NoneNew
    BY <1>5, EndedPlain, NoneNewStep DEF FailChunk
  <2> QED BY <1>1, <2>1, OnlyEnds
<1>6. CASE WriteUnit(s)
  <2>1. NoneNew
    BY <1>6 DEF WriteUnit, NoneNew, At, Upload
  <2> QED BY <1>1, <2>1, OnlyEnds
<1>7. CASE StartStream(s)
  <2>1. At(s, Stages) /\ At(s, Serving) /\ (Become(s, Idle) \/ Advance(s, "stream"))
    BY <1>7 DEF StartStream, At, Stages, Serving
  <2>2. NoneNew
    BY <1>2, <2>1, EndedPlain, NoneNewStep, AdvanceNoneNew DEF Serving
  <2> QED BY <1>1, <2>2, OnlyEnds
<1> QED BY <1>3, <1>4, <1>5, <1>6, <1>7

\* A crash ends every handler and keeps rows, files and jobs.
LEMMA RestartLife ==
  ASSUME Emptied, Restart
  PROVE  Emptied' /\ Life!EndReading
<1>1. UNCHANGED <<rows, issued, source, engine>> /\ handlers' = [s \in Slots |-> Idle]
  BY DEF Restart, table, files
<1>2. NoneNew
  BY <1>1, EndedPlain DEF NoneNew, At
<1> QED BY <1>1, <1>2, OnlyEnds

\* Every step of the portal is a step of an upload's life, or none of it.
LEMMA NextLife ==
  ASSUME PortalInv, TraceInv, RecordsCurrent, Emptied, [Next]_vars
  PROVE  Emptied' /\ [Life!Next]_(Life!lifeVars)
<1>1. CASE UNCHANGED vars
  <2>1. UNCHANGED <<rows, issued, source, engine, handlers>>
    BY <1>1 DEF vars
  <2>2. Emptied' /\ UNCHANGED reading
    BY <2>1 DEF Emptied, At, Upload, reading
  <2> QED BY <2>1, <2>2, TableSeen, SourceSeen, EngineSeen DEF Life!lifeVars
<1>2. \A s \in Requests : s \in Slots
  BY DEF Slots
<1>3. ASSUME NEW u \in Ids, JobSteps(u) PROVE [Life!Next]_(Life!lifeVars)
  BY <1>3 DEF JobSteps, Life!Next
<1>4. CASE Begins
  <2>1. ASSUME NEW s \in Requests, NEW u \in DOMAIN rows, BeginComplete(s, u)
        PROVE  Emptied' /\ [Life!Next]_(Life!lifeVars)
    BY <1>2, <2>1, BeginCompleteLife DEF Life!Next
  <2> QED BY <1>2, <1>4, <2>1, CreateLife, BeginLife, BatchLife DEF Begins, Life!Next
<1>5. CASE Maintains
  BY <1>5, MaintenanceSubmitsLife, BatchLife DEF Maintains, Life!Next
<1>6. CASE Restart
  BY <1>6, RestartLife DEF Life!Next
<1>7. ASSUME NEW s \in Slots, Proceeds(s) \/ WriteUnit(s)
      PROVE  Emptied' /\ [Life!Next]_(Life!lifeVars)
  <2>1. CASE \/ Fails(s) \/ TimesOut(s) \/ OpenPart(s) \/ FailChunk(s) \/ WriteUnit(s)
             \/ CheckAccess(s) \/ StartStream(s)
    BY <2>1, LocalLife DEF Life!Next
  <2>2. CASE NotAnswered(s)
    BY <1>3, <2>2, NotAnsweredLife
  <2>3. CASE CommitChunk(s)
    BY <2>3, CommitChunkLife DEF Life!Next
  <2>4. CASE CheckFile(s)
    BY <2>4, CheckFileLife DEF Life!Next
  <2>5. CASE MarkReady(s)
    BY <2>5, MarkReadyLife DEF Life!Next
  <2>6. CASE SubmitReady(s)
    BY <2>6, SubmitReadyLife DEF Life!Next
  <2>7. CASE StoreJob(s)
    BY <2>7, StoreJobLife DEF Life!Next
  <2>8. CASE RemoveFiles(s)
    BY <2>8, RemoveFilesLife DEF Life!Next
  <2>9. CASE DeleteRow(s)
    BY <2>9, DeleteRowLife DEF Life!Next
  <2> QED BY <1>7, <2>1, <2>2, <2>3, <2>4, <2>5, <2>6, <2>7, <2>8, <2>9 DEF Proceeds
<1>8. ASSUME NEW s \in Slots, Answered(s) PROVE Emptied' /\ [Life!Next]_(Life!lifeVars)
  BY <1>3, <1>8, AnsweredLife DEF Life!Next
<1>9. ASSUME NEW u \in Ids, EngineMoves(u) PROVE Emptied' /\ [Life!Next]_(Life!lifeVars)
  BY <1>3, <1>9, EngineMovesLife
<1>10. ASSUME NEW request \in late, ServeLate(request)
       PROVE  Emptied' /\ [Life!Next]_(Life!lifeVars)
  BY <1>3, <1>10, ServeLateLife
<1> QED BY <1>1, <1>4, <1>5, <1>6, <1>7, <1>8, <1>9, <1>10 DEF Next

\* The portal starts with no upload.
LEMMA InitLife == Init => Emptied /\ Life!Init
<1> SUFFICES ASSUME Init PROVE Emptied /\ Life!Init
  OBVIOUS
<1>1. \A s \in Slots : ~ At(s, Serving) /\ ~ At(s, {"removed"})
  BY EndedPlain DEF Init, At
<1>2. \A u \in Ids : u > issued /\ u \notin DOMAIN rows
  BY PortalAssumption DEF Init, Ids
<1>3. Life!Init
  BY <1>1, <1>2 DEF Init, Life!Init, phase, stored, kept, job, claimed, reading, PhaseOf, NoEngineJob
<1> QED BY <1>1, <1>3 DEF Emptied

\* Every upload has the life that UploadLife describes, whatever fails, comes
\* late, is repeated or crashes, as long as cleanup acts on current records ...
THEOREM LifeImplemented == Spec /\ []RecordsCurrent => LifeSpec
<1>1. /\ PortalInv /\ TraceInv /\ RecordsCurrent /\ Emptied /\ [Next]_vars
      => Emptied' /\ [Life!Next]_(Life!lifeVars)
  BY NextLife
<1> QED BY <1>1, InitLife, PortalInductive, TraceInductive, PTL DEF Spec, LifeSpec, Life!Spec

\* ... hence in a portal whose cleanups take one record each.
THEOREM SingleCleanupLives == Spec /\ []OneAtATime => LifeSpec
BY LifeImplemented, SingleRecordsCurrent, PTL

-------------------------------------------------------------------------------
(* What UploadLife promises is safe.                                       *)

\* What of an upload follows from what: its job, its source and its readers.
Lived(u) ==
  /\ job[u] # "none" => phase[u] \in {"submitting", "submitted"} \/ (phase[u] = "removed" /\ claimed[u])
  /\ job[u] # "none" /\ ~ claimed[u] => kept[u]
  /\ phase[u] \in {"ready", "submitting"} => kept[u]
  /\ phase[u] = "submitted" => job[u] # "none"
  /\ claimed[u] => job[u] \in {"COMPLETED", "FAILED"}
  /\ kept[u] => phase[u] \notin {"new", "removed"}
  /\ reading[u] => phase[u] = "submitted" /\ job[u] # "none"

\* The values of what UploadLife sees, and all of it together: inductive.
LifeTyped ==
  /\ phase \in [Ids -> {"new", "uploading", "ready", "submitting", "submitted", "removed"}]
  /\ job \in [Ids -> {"none", "ACTIVE", "COMPLETED", "FAILED", "CANCELLED"}]
  /\ kept \in [Ids -> BOOLEAN] /\ claimed \in [Ids -> BOOLEAN] /\ reading \in [Ids -> BOOLEAN]

LifeInv == LifeTyped /\ \A u \in Ids : Lived(u)

\* It holds at the start ...
LEMMA LifeBegins == Life!Init => LifeInv
BY DEF Life!Init, LifeInv, LifeTyped, Lived

\* ... a step moves the row, the source or the job of one upload ...
LEMMA LivedRow ==
  ASSUME LifeInv, NEW u \in Ids, Life!Open(u) \/ Life!Commit(u) \/ Life!Forward(u) \/ Life!Remove(u)
  PROVE  LifeInv'
<1>1. UNCHANGED <<kept, job, claimed, reading>>
  BY DEF Life!Open, Life!Commit, Life!Forward, Life!Remove
<1>2. /\ phase' \in [Ids -> {"new", "uploading", "ready", "submitting", "submitted", "removed"}]
      /\ \A v \in Ids \ {u} : phase'[v] = phase[v]
  BY DEF Life!Open, Life!Commit, Life!Forward, Life!Remove, LifeInv, LifeTyped
<1>3. \A v \in Ids \ {u} : Lived(v)'
  BY <1>1, <1>2 DEF LifeInv, Lived
<1>4. Lived(u)
  BY DEF LifeInv
<1>5. Lived(u)'
  <2>1. CASE Life!Open(u)
    BY <1>1, <1>4, <2>1 DEF LifeInv, LifeTyped, Lived, Life!Open
  <2>2. CASE Life!Commit(u)
    BY <1>1, <1>4, <2>2 DEF Lived, Life!Commit
  <2>3. CASE Life!Forward(u)
    BY <1>1, <1>4, <2>3 DEF LifeInv, LifeTyped, Lived, Life!Forward
  <2>4. CASE Life!Remove(u)
    BY <1>1, <1>4, <2>4 DEF LifeInv, LifeTyped, Lived, Life!Remove, Life!Disposable
  <2> QED BY <2>1, <2>2, <2>3, <2>4
<1> QED BY <1>1, <1>2, <1>3, <1>5 DEF LifeInv, LifeTyped

\* (the source: only what nobody needs any more is removed)
LEMMA LivedSource ==
  ASSUME LifeInv, NEW u \in Ids, Life!Finish(u) \/ Life!RemoveSource(u)
  PROVE  LifeInv'
<1>1. UNCHANGED <<phase, job, claimed, reading>>
  BY DEF Life!Finish, Life!RemoveSource
<1>2. kept' \in [Ids -> BOOLEAN] /\ \A v \in Ids \ {u} : kept'[v] = kept[v]
  BY DEF Life!Finish, Life!RemoveSource, LifeInv, LifeTyped
<1>3. \A v \in Ids \ {u} : Lived(v)'
  BY <1>1, <1>2 DEF LifeInv, Lived
<1>4. Lived(u)
  BY DEF LifeInv
<1>5. Lived(u)'
  <2>1. CASE Life!Finish(u)
    BY <1>1, <1>4, <2>1 DEF LifeInv, LifeTyped, Lived, Life!Finish
  <2>2. CASE Life!RemoveSource(u)
    BY <1>1, <1>4, <2>2 DEF LifeInv, LifeTyped, Lived, Life!RemoveSource, Life!Disposable
  <2> QED BY <2>1, <2>2
<1> QED BY <1>1, <1>2, <1>3, <1>5 DEF LifeInv, LifeTyped

\* (the job: given up only after its end, run again only before)
LEMMA LivedJob ==
  ASSUME LifeInv, NEW u \in Ids, Life!CreateJob(u) \/ Life!JobMoves(u) \/ Life!Claim(u)
  PROVE  LifeInv'
<1>1. UNCHANGED <<phase, kept, reading>>
  BY DEF Life!CreateJob, Life!JobMoves, Life!Claim
<1>2. /\ job' \in [Ids -> {"none", "ACTIVE", "COMPLETED", "FAILED", "CANCELLED"}]
      /\ claimed' \in [Ids -> BOOLEAN]
      /\ \A v \in Ids \ {u} : job'[v] = job[v] /\ claimed'[v] = claimed[v]
  BY DEF Life!CreateJob, Life!JobMoves, Life!Claim, LifeInv, LifeTyped
<1>3. \A v \in Ids \ {u} : Lived(v)'
  BY <1>1, <1>2 DEF LifeInv, Lived
<1>4. Lived(u)
  BY DEF LifeInv
<1>5. Lived(u)'
  <2>1. CASE Life!CreateJob(u)
    BY <1>1, <1>4, <2>1 DEF LifeInv, LifeTyped, Lived, Life!CreateJob
  <2>2. CASE Life!JobMoves(u)
    BY <1>1, <1>4, <2>2 DEF LifeInv, LifeTyped, Lived, Life!JobMoves
  <2>3. CASE Life!Claim(u)
    BY <1>1, <1>4, <2>3 DEF LifeInv, LifeTyped, Lived, Life!Claim
  <2> QED BY <2>1, <2>2, <2>3
<1> QED BY <1>1, <1>2, <1>3, <1>5 DEF LifeInv, LifeTyped

\* ... or its readers.
LEMMA LivedReaders ==
  ASSUME LifeInv, Life!EndReading \/ \E u \in Ids : Life!Read(u)
  PROVE  LifeInv'
<1>1. UNCHANGED <<phase, kept, job, claimed>>
  BY DEF Life!EndReading, Life!Read
<1>2. /\ reading' \in [Ids -> BOOLEAN]
      /\ \A v \in Ids : reading'[v] => reading[v] \/ (phase[v] = "submitted" /\ job[v] # "none")
  BY DEF Life!EndReading, Life!Read, LifeInv, LifeTyped
<1>3. \A v \in Ids : Lived(v)'
  BY <1>1, <1>2 DEF LifeInv, Lived
<1> QED BY <1>1, <1>2, <1>3 DEF LifeInv, LifeTyped

\* Whatever implements UploadLife keeps the source of an upload as long as a
\* submission or a job may need it, runs jobs only for rows that know of them,
\* leaves no file without a row and nothing removed under a reader.
THEOREM LifeIsSafe == LifeSpec => []Life!Safe
<1>1. LifeInv /\ [Life!Next]_(Life!lifeVars) => LifeInv'
  <2> SUFFICES ASSUME LifeInv, [Life!Next]_(Life!lifeVars) PROVE LifeInv'
    OBVIOUS
  <2>1. CASE UNCHANGED Life!lifeVars
    BY <2>1 DEF Life!lifeVars, LifeInv, LifeTyped, Lived
  <2>2. CASE Life!Next
    BY <2>2, LivedRow, LivedSource, LivedJob, LivedReaders DEF Life!Next
  <2> QED BY <2>1, <2>2
<1>2. LifeInv => Life!Safe
  BY DEF LifeInv, LifeTyped, Lived, Life!Safe
<1> QED BY <1>1, <1>2, LifeBegins, PTL DEF LifeSpec, Life!Spec

------------------------------------------------------------------------------
(* The engine of this module and KeyedJobs: it makes KeyedJobs' moves only *)
(* (EngineKeyed), and all of them (EngineComplete).                        *)

KeyedRows == [id: Nat, status: {"none", "ACTIVE", "COMPLETED", "FAILED", "CANCELLED"}, live: BOOLEAN, claimed: BOOLEAN]

\* What is seen of a job.
LEMMA KeyedFields ==
  ASSUME engine \in [Ids -> EngineJob]
  PROVE  \A u \in Ids :
           LET seen == KeyedEngine[u] IN
           /\ engine[u] \in EngineJob /\ seen \in KeyedRows
           /\ seen.id = IF engine[u] = NoEngineJob THEN 0 ELSE u
           /\ seen.status = engine[u].status
           /\ seen.live = engine[u].live
           /\ seen.claimed = engine[u].claimed
<1> TAKE u \in Ids
<1> DEFINE e == engine[u]
           seen == KeyedEngine[u]
           id == IF e = NoEngineJob THEN 0 ELSE u
<1>1. e \in EngineJob
  OBVIOUS
<1>2. seen = [id |-> id, status |-> e.status, live |-> e.live, claimed |-> e.claimed]
  BY DEF KeyedEngine
<1>3. id \in Nat
  BY PortalAssumption DEF Ids
<1> HIDE DEF e, seen, id
<1>4. seen \in KeyedRows
  BY <1>1, <1>2, <1>3 DEF KeyedRows, EngineJob
<1>5. /\ seen.id = id /\ seen.status = e.status
      /\ seen.live = e.live /\ seen.claimed = e.claimed
  BY <1>2
<1> QED BY <1>1, <1>4, <1>5 DEF e, seen, id

\* What makes one row seen of another, ...
LEMMA KeyedMoves ==
  ASSUME NEW old \in KeyedRows, NEW new \in KeyedRows, new.id = old.id
  PROVE  /\ /\ new.status = old.status
            /\ new.live <=> old.live
            /\ new.claimed <=> old.claimed
            => new = old
         /\ new.status = old.status /\ (new.live <=> old.live) /\ new.claimed
            => new = [old EXCEPT !.claimed = TRUE]
         /\ new.status = old.status /\ ~ new.live /\ (new.claimed <=> old.claimed)
            => new = [old EXCEPT !.live = FALSE]
         /\ (new.live <=> old.live) /\ (new.claimed <=> old.claimed)
            => new = [old EXCEPT !.status = new.status]
<1>1. ASSUME new.status = old.status, new.live <=> old.live, new.claimed <=> old.claimed
      PROVE  new = old
  BY <1>1 DEF KeyedRows
<1>2. ASSUME new.status = old.status, new.live <=> old.live, new.claimed
      PROVE  new = [old EXCEPT !.claimed = TRUE]
  BY <1>2 DEF KeyedRows
<1>3. ASSUME new.status = old.status, ~ new.live, new.claimed <=> old.claimed
      PROVE  new = [old EXCEPT !.live = FALSE]
  BY <1>3 DEF KeyedRows
<1>4. ASSUME new.live <=> old.live, new.claimed <=> old.claimed
      PROVE  new = [old EXCEPT !.status = new.status]
  BY <1>4 DEF KeyedRows
<1> QED BY <1>1, <1>2, <1>3, <1>4

\* ... and one job of another.
LEMMA JobChanges ==
  ASSUME NEW old \in EngineJob, NEW new \in EngineJob
  PROVE  /\ /\ new.status = old.status
            /\ new.live <=> old.live
            /\ new.claimed <=> old.claimed
            => new = old
         /\ new.status = old.status /\ (new.live <=> old.live) /\ new.claimed
            <=> new = [old EXCEPT !.claimed = TRUE]
         /\ new.status = old.status /\ ~ new.live /\ (new.claimed <=> old.claimed)
            <=> new = [old EXCEPT !.live = FALSE]
         /\ (new.live <=> old.live) /\ (new.claimed <=> old.claimed)
            <=> new = [old EXCEPT !.status = new.status]
<1>1. ASSUME new.status = old.status, new.live <=> old.live, new.claimed <=> old.claimed
      PROVE  new = old
  BY <1>1 DEF EngineJob
<1>2. ASSUME new.status = old.status, new.live <=> old.live, new.claimed
      PROVE  new = [old EXCEPT !.claimed = TRUE]
  BY <1>2 DEF EngineJob
<1>3. ASSUME new.status = old.status, ~ new.live, new.claimed <=> old.claimed
      PROVE  new = [old EXCEPT !.live = FALSE]
  BY <1>3 DEF EngineJob
<1>4. ASSUME new.live <=> old.live, new.claimed <=> old.claimed
      PROVE  new = [old EXCEPT !.status = new.status]
  BY <1>4 DEF EngineJob
<1>5. ASSUME new = [old EXCEPT !.claimed = TRUE]
      PROVE  new.status = old.status /\ (new.live <=> old.live) /\ new.claimed
  BY <1>5 DEF EngineJob
<1>6. ASSUME new = [old EXCEPT !.live = FALSE]
      PROVE  new.status = old.status /\ ~ new.live /\ (new.claimed <=> old.claimed)
  BY <1>6 DEF EngineJob
<1>7. ASSUME new = [old EXCEPT !.status = new.status]
      PROVE  (new.live <=> old.live) /\ (new.claimed <=> old.claimed)
  BY <1>7 DEF EngineJob
<1> QED BY <1>1, <1>2, <1>3, <1>4, <1>5, <1>6, <1>7

\* The engine's next states are typed too.
LEMMA KeyedFieldsNext ==
  ASSUME engine' \in [Ids -> EngineJob]
  PROVE  \A u \in Ids :
           LET seen == KeyedEngine'[u] IN
           /\ engine'[u] \in EngineJob /\ seen \in KeyedRows
           /\ seen.id = IF engine'[u] = NoEngineJob THEN 0 ELSE u
           /\ seen.status = engine'[u].status
           /\ seen.live = engine'[u].live
           /\ seen.claimed = engine'[u].claimed
<1> TAKE u \in Ids
<1> DEFINE e == engine'[u]
           seen == KeyedEngine'[u]
           id == IF e = NoEngineJob THEN 0 ELSE u
<1>1. e \in EngineJob
  OBVIOUS
<1>2. seen = [id |-> id, status |-> e.status, live |-> e.live, claimed |-> e.claimed]
  BY DEF KeyedEngine
<1>3. id \in Nat
  BY PortalAssumption DEF Ids
<1> HIDE DEF e, seen, id
<1>4. seen \in KeyedRows
  BY <1>1, <1>2, <1>3 DEF KeyedRows, EngineJob
<1>5. /\ seen.id = id /\ seen.status = e.status
      /\ seen.live = e.live /\ seen.claimed = e.claimed
  BY <1>2
<1> QED BY <1>1, <1>4, <1>5 DEF e, seen, id

\* A change of one job is a step of KeyedJobs when it is a move of its key.
LEMMA OneKeyMoves ==
  ASSUME EngineOK, EngineOK', NEW u \in Ids,
         \A v \in Ids \ {u} : engine'[v] = engine[v],
         engine'[u] = engine[u] \/ Keyed!Move(u)
  PROVE  Keyed!Next
<1>1. \A v \in Ids : engine'[v] = engine[v] => KeyedEngine'[v] = KeyedEngine[v]
  BY DEF KeyedEngine
<1> QED BY <1>1 DEF Keyed!Next

\* A job that stays a job keeps its key and its id.
LEMMA KeyedChange ==
  ASSUME EngineOK, EngineOK', NEW u \in Ids, engine[u] # NoEngineJob,
         engine'[u].status # "none"
  PROVE  /\ KeyedEngine[u] \in KeyedRows /\ KeyedEngine'[u] \in KeyedRows
         /\ KeyedEngine'[u].id = KeyedEngine[u].id
<1>1. engine'[u] # NoEngineJob
  BY DEF NoEngineJob
<1> QED BY <1>1, KeyedFields, KeyedFieldsNext DEF EngineOK


\* The moves of KeyedJobs in the terms of this engine.
EngineEdge(u) ==
  LET old == engine[u]  new == engine'[u] IN
  \/ old = NoEngineJob /\ new.status = "ACTIVE" /\ new.live /\ ~ new.claimed
  \/ /\ (new.live <=> old.live) /\ (new.claimed <=> old.claimed)
     /\ \/ old.status = "ACTIVE" /\ new.status \in Keyed!Ended
        \/ old.status = "FAILED" /\ old.live /\ ~ old.claimed /\ new.status = "ACTIVE"
  \/ /\ old.status \in Keyed!Ended /\ old.live
     /\ new.status = old.status /\ ~ new.live /\ (new.claimed <=> old.claimed)
  \/ /\ old.status \in {"COMPLETED", "FAILED"}
     /\ new.status = old.status /\ (new.live <=> old.live) /\ new.claimed

LEMMA KeyedNotCreated ==
  ASSUME EngineOK, NEW u \in Ids
  PROVE  KeyedEngine[u] = Keyed!NotCreated <=> engine[u] = NoEngineJob
<1>1. CASE engine[u] = NoEngineJob
  <2>1. engine[u].status = "none" /\ engine[u].live = FALSE /\ engine[u].claimed = FALSE
    BY <1>1 DEF NoEngineJob
  <2> DEFINE e == engine[u]
  <2>2. KeyedEngine[u] = [id |-> IF e = NoEngineJob THEN 0 ELSE u,
                          status |-> e.status, live |-> e.live, claimed |-> e.claimed]
    BY DEF KeyedEngine
  <2>3. e = NoEngineJob /\ e.status = "none" /\ e.live = FALSE /\ e.claimed = FALSE
    BY <1>1, <2>1
  <2> HIDE DEF e
  <2>4. KeyedEngine[u] = Keyed!NotCreated
    BY <2>2, <2>3 DEF Keyed!NotCreated
  <2> QED BY <1>1, <2>4
<1>2. CASE engine[u] # NoEngineJob
  <2>1. engine[u].status # "none"
    BY <1>2 DEF EngineOK
  <2>2. KeyedEngine[u].status = engine[u].status
    BY KeyedFields DEF EngineOK
  <2> QED BY <1>2, <2>1, <2>2 DEF Keyed!NotCreated
<1> QED BY <1>1, <1>2

LEMMA EdgeIsMove ==
  ASSUME EngineOK, EngineOK', NEW u \in Ids, EngineEdge(u),
         \A v \in Ids \ {u} : engine'[v] = engine[v]
  PROVE  Keyed!Move(u)
<1> DEFINE e == engine[u]
           f == engine'[u]
           old == KeyedEngine[u]
           new == KeyedEngine'[u]
<1>1. /\ e \in EngineJob /\ old \in KeyedRows
      /\ old.status = e.status /\ old.live = e.live /\ old.claimed = e.claimed
  BY KeyedFields DEF EngineOK
<1>2. /\ f \in EngineJob /\ new \in KeyedRows /\ new.id = IF f = NoEngineJob THEN 0 ELSE u
      /\ new.status = f.status /\ new.live = f.live /\ new.claimed = f.claimed
  BY KeyedFieldsNext DEF EngineOK
<1>3. NoEngineJob.status = "none" /\ f.status # "none"
  BY DEF NoEngineJob, EngineEdge, Keyed!Ended
<1>4. new.id = u /\ f # NoEngineJob
  BY <1>2, <1>3
<1>5. CASE e = NoEngineJob
  <2>1. f.status = "ACTIVE" /\ f.live /\ ~ f.claimed
    BY <1>3, <1>5 DEF EngineEdge, Keyed!Ended
  <2>2. old = Keyed!NotCreated
    BY <1>5, KeyedNotCreated
  <2>3. new = [id |-> new.id, status |-> "ACTIVE", live |-> TRUE, claimed |-> FALSE]
    <3> HIDE DEF e, f, old, new
    <3> QED BY <1>2, <2>1 DEF KeyedRows
  <2>4. new.id # 0 /\ \A v \in Ids \ {u} : KeyedEngine'[v].id # new.id
    <3>1. \A v \in Ids : KeyedEngine'[v].id \in {0, v}
      BY KeyedFieldsNext DEF EngineOK
    <3>2. u # 0
      BY PortalAssumption DEF Ids
    <3> QED BY <1>4, <3>1, <3>2
  <2> QED BY <2>2, <2>3, <2>4 DEF Keyed!Move, Keyed!Create
<1>6. CASE e # NoEngineJob
  <2>1. new.id = old.id
    BY <1>3, <1>6, KeyedChange
  <2>2. \/ /\ (f.live <=> e.live) /\ (f.claimed <=> e.claimed)
           /\ \/ e.status = "ACTIVE" /\ f.status \in Keyed!Ended
              \/ e.status = "FAILED" /\ e.live /\ ~ e.claimed /\ f.status = "ACTIVE"
        \/ /\ e.status \in Keyed!Ended /\ e.live
           /\ f.status = e.status /\ ~ f.live /\ (f.claimed <=> e.claimed)
        \/ /\ e.status \in {"COMPLETED", "FAILED"}
           /\ f.status = e.status /\ (f.live <=> e.live) /\ f.claimed
    BY <1>6 DEF EngineEdge
  <2> HIDE DEF e, f
  <2>3. CASE /\ (f.live <=> e.live) /\ (f.claimed <=> e.claimed)
             /\ \/ e.status = "ACTIVE" /\ f.status \in Keyed!Ended
                \/ e.status = "FAILED" /\ e.live /\ ~ e.claimed /\ f.status = "ACTIVE"
    <3> HIDE DEF old, new
    <3>1. new = [old EXCEPT !.status = new.status]
      BY <1>1, <1>2, <2>1, <2>3, KeyedMoves
    <3>2. \/ old.status = "ACTIVE" /\ new.status \in Keyed!Ended
          \/ old.status = "FAILED" /\ old.live /\ ~ old.claimed /\ new.status = "ACTIVE"
      BY <1>1, <1>2, <2>3
    <3> QED BY <3>1, <3>2 DEF old, new, Keyed!Move, Keyed!End, Keyed!Retry
  <2>4. CASE /\ e.status \in Keyed!Ended /\ e.live
             /\ f.status = e.status /\ ~ f.live /\ (f.claimed <=> e.claimed)
    <3> HIDE DEF old, new
    <3>1. new = [old EXCEPT !.live = FALSE] /\ old.status \in Keyed!Ended /\ old.live
      BY <1>1, <1>2, <2>1, <2>4, KeyedMoves
    <3> QED BY <3>1 DEF old, new, Keyed!Move, Keyed!Remove
  <2>5. CASE /\ e.status \in {"COMPLETED", "FAILED"}
             /\ f.status = e.status /\ (f.live <=> e.live) /\ f.claimed
    <3> HIDE DEF old, new
    <3>1. new = [old EXCEPT !.claimed = TRUE] /\ old.status \in {"COMPLETED", "FAILED"}
      BY <1>1, <1>2, <2>1, <2>5, KeyedMoves
    <3> QED BY <3>1 DEF old, new, Keyed!Move, Keyed!Release
  <2> QED BY <2>2, <2>3, <2>4, <2>5
<1> QED BY <1>5, <1>6


\* ... and every move of a key is one of these.
LEMMA MoveIsEdge ==
  ASSUME engine \in [Ids -> EngineJob], engine' \in [Ids -> EngineJob], NEW u \in Ids,
         Keyed!Move(u)
  PROVE  EngineEdge(u)
<1> DEFINE e == engine[u]
           f == engine'[u]
           old == KeyedEngine[u]
           new == KeyedEngine'[u]
<1>1. /\ e \in EngineJob /\ old \in KeyedRows /\ old.id = IF e = NoEngineJob THEN 0 ELSE u
      /\ old.status = e.status /\ old.live = e.live /\ old.claimed = e.claimed
  BY KeyedFields
<1>2. /\ f \in EngineJob /\ new \in KeyedRows
      /\ new.status = f.status /\ new.live = f.live /\ new.claimed = f.claimed
  BY KeyedFieldsNext
<1>3. u # 0
  BY PortalAssumption DEF Ids
<1>4. CASE Keyed!Create(u)
  <2>1. old = Keyed!NotCreated
        /\ new = [id |-> new.id, status |-> "ACTIVE", live |-> TRUE, claimed |-> FALSE]
    BY <1>4 DEF Keyed!Create
  <2> HIDE DEF e, f, old, new
  <2>2. old.id = 0 /\ new.status = "ACTIVE" /\ new.live = TRUE /\ new.claimed = FALSE
    BY <2>1 DEF Keyed!NotCreated
  <2>3. e = NoEngineJob
    BY <1>1, <1>3, <2>2
  <2> QED BY <1>2, <2>2, <2>3 DEF e, f, EngineEdge
<1>5. CASE Keyed!End(u) \/ Keyed!Retry(u)
  <2>1. /\ \E s \in Keyed!Ended \cup {"ACTIVE"} : new = [old EXCEPT !.status = s]
        /\ \/ old.status = "ACTIVE" /\ new.status \in Keyed!Ended
           \/ old.status = "FAILED" /\ old.live /\ ~ old.claimed /\ new.status = "ACTIVE"
    BY <1>1, <1>5 DEF Keyed!End, Keyed!Retry, KeyedRows
  <2> HIDE DEF e, f, old, new
  <2>2. new.live = old.live /\ new.claimed = old.claimed
    BY <1>1, <2>1 DEF KeyedRows
  <2> QED BY <1>1, <1>2, <2>1, <2>2 DEF e, f, EngineEdge
<1>6. CASE Keyed!Remove(u)
  <2>1. new = [old EXCEPT !.live = FALSE] /\ old.status \in Keyed!Ended /\ old.live
    BY <1>6 DEF Keyed!Remove
  <2> HIDE DEF e, f, old, new
  <2>2. new.status = old.status /\ new.live = FALSE /\ new.claimed = old.claimed
    BY <1>1, <2>1 DEF KeyedRows
  <2> QED BY <1>1, <1>2, <2>1, <2>2 DEF e, f, EngineEdge
<1>7. CASE Keyed!Release(u)
  <2>1. new = [old EXCEPT !.claimed = TRUE] /\ old.status \in {"COMPLETED", "FAILED"}
    BY <1>7 DEF Keyed!Release
  <2> HIDE DEF e, f, old, new
  <2>2. new.status = old.status /\ new.live = old.live /\ new.claimed = TRUE
    BY <1>1, <2>1 DEF KeyedRows
  <2> QED BY <1>1, <1>2, <2>1, <2>2 DEF e, f, EngineEdge
<1> QED BY <1>4, <1>5, <1>6, <1>7 DEF Keyed!Move

\* Every request the engine serves makes one of these moves, or none.
LEMMA KeyedServe ==
  ASSUME EngineOK, EngineOK', NEW op \in Operations, NEW u \in Ids, Serve(op, u)
  PROVE  Keyed!Next
<1> DEFINE e == engine[u]
           f == Served(op, u)
<1>1. /\ e \in EngineJob /\ f \in EngineJob /\ f = engine'[u]
      /\ \A v \in Ids \ {u} : engine'[v] = engine[v]
  BY DEF EngineOK, Serve
<1>2. EngineEdge(u) \/ f = e
  <2>1. CASE op = "create" /\ e = NoEngineJob
    <3>1. f.status = "ACTIVE" /\ f.live = TRUE /\ f.claimed = FALSE
      BY <2>1 DEF Served
    <3> HIDE DEF f
    <3> QED BY <1>1, <2>1, <3>1 DEF EngineEdge
  <2>2. CASE op = "claim" /\ Accepted(op, u)
    <3>1. f = [e EXCEPT !.claimed = TRUE] /\ e.status \in {"COMPLETED", "FAILED"}
      BY <2>2 DEF Served, Accepted
    <3> HIDE DEF e, f
    <3>2. f.status = e.status /\ (f.live <=> e.live) /\ f.claimed
      BY <1>1, <3>1, JobChanges
    <3> QED BY <1>1, <3>1, <3>2 DEF e, EngineEdge
  <2>3. CASE op = "cancel" /\ e.live /\ e.status = "ACTIVE"
    <3>1. f = [e EXCEPT !.status = "CANCELLED"]
      BY <2>3 DEF Served
    <3> HIDE DEF e, f
    <3>2. f.status = "CANCELLED"
      BY <1>1, <3>1 DEF EngineJob
    <3>3. (f.live <=> e.live) /\ (f.claimed <=> e.claimed)
      BY <1>1, <3>1, <3>2, JobChanges
    <3> QED BY <1>1, <2>3, <3>2, <3>3 DEF e, EngineEdge, Keyed!Ended
  <2>4. CASE /\ ~ (op = "create" /\ e = NoEngineJob)
             /\ ~ (op = "claim" /\ Accepted(op, u))
             /\ ~ (op = "cancel" /\ e.live /\ e.status = "ACTIVE")
    BY <2>4 DEF Served
  <2> QED BY <2>1, <2>2, <2>3, <2>4
<1> QED BY <1>1, <1>2, EdgeIsMove, OneKeyMoves

\* So does whatever others do to a job.
LEMMA KeyedOthers ==
  ASSUME EngineOK, EngineOK', NEW u \in Ids, EngineMoves(u)
  PROVE  Keyed!Next
<1> DEFINE e == engine[u]
           f == engine'[u]
<1>1. /\ e \in EngineJob /\ f \in EngineJob
      /\ \A v \in Ids \ {u} : engine'[v] = engine[v]
  BY DEF EngineOK, EngineMoves
<1>2. EngineEdge(u)
  <2>1. CASE e.status = "ACTIVE" /\ \E end \in {"COMPLETED", "FAILED", "CANCELLED"} :
               engine' = [engine EXCEPT ![u].status = end]
    <3>1. PICK end \in {"COMPLETED", "FAILED", "CANCELLED"} : f = [e EXCEPT !.status = end]
      BY <2>1 DEF EngineOK
    <3> HIDE DEF e, f
    <3>2. f.status = end
      BY <1>1, <3>1 DEF EngineJob
    <3>3. (f.live <=> e.live) /\ (f.claimed <=> e.claimed)
      BY <1>1, <3>1, <3>2, JobChanges
    <3> QED BY <2>1, <3>2, <3>3 DEF e, f, EngineEdge, Keyed!Ended
  <2>2. CASE /\ e.status = "FAILED" /\ e.live /\ ~ e.claimed
             /\ engine' = [engine EXCEPT ![u].status = "ACTIVE"]
    <3>1. f = [e EXCEPT !.status = "ACTIVE"]
      BY <2>2 DEF EngineOK
    <3> HIDE DEF e, f
    <3>2. f.status = "ACTIVE"
      BY <1>1, <3>1 DEF EngineJob
    <3>3. (f.live <=> e.live) /\ (f.claimed <=> e.claimed)
      BY <1>1, <3>1, <3>2, JobChanges
    <3> QED BY <2>2, <3>2, <3>3 DEF e, f, EngineEdge
  <2>3. CASE /\ e.status \in {"COMPLETED", "FAILED", "CANCELLED"} /\ e.live
             /\ engine' = [engine EXCEPT ![u].live = FALSE]
    <3>1. f = [e EXCEPT !.live = FALSE]
      BY <2>3 DEF EngineOK
    <3> HIDE DEF e, f
    <3>2. f.status = e.status /\ ~ f.live /\ (f.claimed <=> e.claimed)
      BY <1>1, <3>1, JobChanges
    <3> QED BY <2>3, <3>2 DEF e, f, EngineEdge, Keyed!Ended
  <2> QED BY <2>1, <2>2, <2>3 DEF EngineMoves
<1> QED BY <1>1, <1>2, EdgeIsMove, OneKeyMoves


LEMMA KeyedEngineSeen == UNCHANGED engine => UNCHANGED KeyedEngine
BY DEF KeyedEngine

\* Every step of the portal moves the jobs of its keys as KeyedJobs says.
LEMMA StepKeyed ==
  ASSUME PortalInv, EngineOK', [Next]_vars
  PROVE  Keyed!Next \/ UNCHANGED KeyedEngine
<1>1. CASE UNCHANGED engine
  BY <1>1, KeyedEngineSeen
<1>2. CASE \E u \in Ids : EngineMoves(u)
  BY <1>2, KeyedOthers DEF PortalInv
<1>3. CASE \E request \in late : ServeLate(request)
  BY <1>3, KeyedServe DEF PortalInv, LateOK, ServeLate, Operations
<1>4. CASE \E s \in Slots : NotAnswered(s) \/ Answered(s)
  BY <1>4, AskingTyped, KeyedServe DEF PortalInv, NotAnswered, Answered
<1>5. CASE Begins \/ Maintains \/ Restart
  <2>1. UNCHANGED engine
    BY <1>5 DEF Begins, Maintains, Restart, Create, BeginChunk, BeginComplete, BeginCancel,
                BeginDownload, BeginDelete, MaintenanceSubmits, RemoveExpired
  <2> QED BY <1>1, <2>1
<1>6. CASE \E s \in Slots : Proceeds(s) \/ WriteUnit(s) \/ Answered(s)
  <2>1. PICK s \in Slots : Proceeds(s) \/ WriteUnit(s) \/ Answered(s)
    BY <1>6
  <2>2. CASE NotAnswered(s) \/ Answered(s)
    BY <1>4, <2>2
  <2>3. CASE ~ (NotAnswered(s) \/ Answered(s))
    <3>1. UNCHANGED engine
      BY <2>1, <2>3 DEF Proceeds, WriteUnit, Fails, TimesOut, OpenPart, CommitChunk, FailChunk,
                        CheckFile, MarkReady, SubmitReady, StoreJob, CheckAccess, RemoveFiles,
                        DeleteRow, StartStream
    <3> QED BY <1>1, <3>1
  <2> QED BY <2>2, <2>3
<1> QED BY <1>1, <1>2, <1>3, <1>5, <1>6 DEF Next, vars

\* Across crashes, lost answers and late requests, the engine as the portal
\* sees it moves the jobs of its keys as KeyedJobs says, which is what the
\* engine of JobEngine.tla does with them (KeyedImplemented).
THEOREM EngineKeyed == Spec => KeyedSpec
<1>1. Init => Keyed!Init
  <2>1. ASSUME Init PROVE EngineOK /\ \A u \in Ids : engine[u] = NoEngineJob
    BY <2>1 DEF Init, EngineOK, NoEngineJob, EngineJob
  <2> QED BY <2>1, KeyedNotCreated DEF Keyed!Init, KeyedEngine
<1>2. PortalInv /\ PortalInv' /\ [Next]_vars => [Keyed!Next]_KeyedEngine
  BY StepKeyed DEF PortalInv
<1> QED BY <1>1, <1>2, PortalInductive, PTL DEF Spec, KeyedSpec, Keyed!Spec

\* The portal is shown nothing less than a real engine may do: whatever move of
\* KeyedJobs the job of an upload can make is one this engine makes, asked by
\* the portal (create, claim) or of itself (end, retry, removal).
THEOREM EngineComplete ==
  ASSUME engine \in [Ids -> EngineJob], engine' \in [Ids -> EngineJob], NEW u \in Ids,
         Keyed!Move(u), \A v \in Ids \ {u} : engine'[v] = engine[v]
  PROVE  \/ \E op \in {"create", "claim"} : Accepted(op, u) /\ Serve(op, u)
         \/ UNCHANGED <<table, files, late, handlers>> => EngineMoves(u)
<1> DEFINE e == engine[u]
           f == engine'[u]
<1>1. e \in EngineJob /\ f \in EngineJob /\ EngineEdge(u)
  BY MoveIsEdge
<1>2. ASSUME NEW g, f = g PROVE engine' = [engine EXCEPT ![u] = g]
  BY <1>2
<1>3. CASE e = NoEngineJob /\ f.status = "ACTIVE" /\ f.live /\ ~ f.claimed
  <2>1. f = [status |-> "ACTIVE", live |-> TRUE, claimed |-> FALSE]
    <3> HIDE DEF e, f
    <3> QED BY <1>1, <1>3 DEF EngineJob
  <2>2. Served("create", u) = f /\ Accepted("create", u)
    BY <1>3, <2>1 DEF Served, Accepted
  <2> QED BY <1>2, <2>2 DEF Serve
<1>4. CASE /\ e.status \in {"COMPLETED", "FAILED"}
           /\ f.status = e.status /\ (f.live <=> e.live) /\ f.claimed
  <2>1. f = [e EXCEPT !.claimed = TRUE]
    <3> HIDE DEF e, f
    <3> QED BY <1>1, <1>4, JobChanges
  <2>2. Accepted("claim", u) /\ Served("claim", u) = f
    BY <1>4, <2>1 DEF Served, Accepted
  <2> QED BY <1>2, <2>2 DEF Serve
<1>5. CASE /\ (f.live <=> e.live) /\ (f.claimed <=> e.claimed)
           /\ \/ e.status = "ACTIVE" /\ f.status \in Keyed!Ended
              \/ e.status = "FAILED" /\ e.live /\ ~ e.claimed /\ f.status = "ACTIVE"
  <2>1. f = [e EXCEPT !.status = f.status]
    <3> HIDE DEF e, f
    <3> QED BY <1>1, <1>5, JobChanges
  <2>2. engine' = [engine EXCEPT ![u].status = f.status]
    BY <2>1
  <2> QED BY <1>5, <2>2 DEF EngineMoves, Keyed!Ended
<1>6. CASE /\ e.status \in Keyed!Ended /\ e.live
           /\ f.status = e.status /\ ~ f.live /\ (f.claimed <=> e.claimed)
  <2>1. f = [e EXCEPT !.live = FALSE]
    <3> HIDE DEF e, f
    <3> QED BY <1>1, <1>6, JobChanges
  <2>2. engine' = [engine EXCEPT ![u].live = FALSE]
    BY <2>1
  <2> QED BY <1>6, <2>2 DEF EngineMoves, Keyed!Ended
<1> QED BY <1>1, <1>3, <1>4, <1>5, <1>6 DEF EngineEdge

=============================================================================
