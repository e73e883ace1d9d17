----------------------------- MODULE WireProofs ------------------------------
(*****************************************************************************)
(* Proofs about what goes over a connection: the deadline of a transfer, the *)
(* bytes of a remote desktop session, the pieces of an upload, the portal's  *)
(* session with the engine.  Each part is about one module and holds for any *)
(* value of its constants.                                                   *)
(*****************************************************************************)
EXTENDS TransferDeadline, RemoteBridge, UploadClient, EngineSession, FiniteSetTheorems,
        SequenceTheorems, TLAPS

------------------------------------------------------------------------------
(* Proof of the safety properties of TransferDeadline, for any two limits. *)
(*                                                                         *)
(* While the deadline is open the timers and the clocks add up to the      *)
(* limits; once it is closed none of them moves.                           *)

\* Each timer and the clock it measures make up the limit.
InStep ==
  ~ closed => silent + idle = CHUNK_IDLE_MS /\ age + total = CHUNK_MAX_MS

DeadlineInv == DeadlineTypeOK /\ ExpiresOnce /\ InStep /\ Bounded /\ FiresOnTime

LEMMA InitDeadline == DeadlineInit => DeadlineInv
<1> SUFFICES ASSUME DeadlineInit PROVE DeadlineInv
  OBVIOUS
<1>1. ~ closed /\ closed \in BOOLEAN
  BY DEF DeadlineInit
<1>2. DeadlineTypeOK
  BY <1>1, DeadlineAssumption DEF DeadlineInit, DeadlineTypeOK, Off
<1>3. ExpiresOnce /\ InStep /\ Bounded /\ FiresOnTime
  BY <1>1, DeadlineAssumption DEF DeadlineInit, ExpiresOnce, InStep, Bounded, FiresOnTime
<1> QED
  BY <1>2, <1>3 DEF DeadlineInv

------------------------------------------------------------------------------
(* A timer fires on an open deadline only, and closes it.                  *)
LEMMA FiringKeeps ==
  ASSUME DeadlineInv, idle = 0 \/ total = 0, stop
  PROVE  DeadlineInv'
<1>1. ~ closed
  BY DEF DeadlineInv, DeadlineTypeOK, Off
<1>2. /\ closed' /\ closed' \in BOOLEAN /\ idle' = Off /\ total' = Off /\ expired' = expired + 1
      /\ UNCHANGED <<phase, silent, age>>
  BY <1>1 DEF stop, Closing, close
<1>3. expired = 0
  BY <1>1 DEF DeadlineInv, DeadlineTypeOK, ExpiresOnce
<1>4. silent = CHUNK_IDLE_MS \/ age = CHUNK_MAX_MS
  BY <1>1, DeadlineAssumption DEF DeadlineInv, DeadlineTypeOK, InStep, Off
<1>5. DeadlineTypeOK'
  BY <1>2 DEF DeadlineInv, DeadlineTypeOK
<1>6. ExpiresOnce' /\ InStep'
  BY <1>2, <1>3 DEF ExpiresOnce, InStep
<1>7. Bounded' /\ FiresOnTime'
  BY <1>2, <1>4 DEF DeadlineInv, Bounded, FiresOnTime
<1> QED
  BY <1>5, <1>6, <1>7 DEF DeadlineInv

(* Data starts the idle time anew, or comes too late to change anything.   *)
LEMMA DataKeeps ==
  ASSUME DeadlineInv, Data
  PROVE  DeadlineInv'
<1>1. CASE closed
  <2>1. UNCHANGED deadlineVars
    BY <1>1 DEF Data, progress, deadlineVars
  <2> QED
    BY <2>1 DEF deadlineVars, DeadlineInv, DeadlineTypeOK, ExpiresOnce, InStep, Bounded, FiresOnTime
<1>2. CASE ~ closed
  <2>1. idle' = CHUNK_IDLE_MS /\ silent' = 0 /\ UNCHANGED <<phase, total, closed, expired, age>>
    BY <1>2 DEF Data, progress
  <2>2. expired = 0
    BY <1>2 DEF DeadlineInv, DeadlineTypeOK, ExpiresOnce
  <2>3. DeadlineTypeOK'
    BY <2>1, <1>2, DeadlineAssumption DEF DeadlineInv, DeadlineTypeOK, Off
  <2>4. ExpiresOnce' /\ FiresOnTime'
    BY <2>1, <2>2 DEF ExpiresOnce, FiresOnTime
  <2>5. InStep' /\ Bounded'
    BY <2>1, <1>2, DeadlineAssumption DEF DeadlineInv, InStep, Bounded
  <2> QED
    BY <2>3, <2>4, <2>5 DEF DeadlineInv
<1> QED
  BY <1>1, <1>2

(* Time passes on both clocks and both timers alike, up to the limits.     *)
LEMMA TickKeeps ==
  ASSUME DeadlineInv, TimePasses
  PROVE  DeadlineInv'
<1>1. idle \in 1..CHUNK_IDLE_MS /\ total \in 1..CHUNK_MAX_MS
  BY DeadlineAssumption DEF DeadlineInv, DeadlineTypeOK, TimePasses, Off
<1>2. expired = 0
  BY DEF DeadlineInv, DeadlineTypeOK, ExpiresOnce, TimePasses
<1>3. DeadlineTypeOK'
  BY <1>1, DeadlineAssumption DEF DeadlineInv, DeadlineTypeOK, TimePasses, Off
<1>4. ExpiresOnce' /\ FiresOnTime'
  BY <1>2 DEF TimePasses, ExpiresOnce, FiresOnTime
<1>5. InStep' /\ Bounded'
  BY <1>1, DeadlineAssumption DEF DeadlineInv, DeadlineTypeOK, TimePasses, InStep, Bounded
<1> QED
  BY <1>3, <1>4, <1>5 DEF DeadlineInv

LEMMA NextDeadline ==
  ASSUME DeadlineInv, [DeadlineNext]_deadlineVars
  PROVE  DeadlineInv'
<1>1. CASE TotalFires \/ IdleFires
  BY <1>1, FiringKeeps DEF TotalFires, IdleFires
<1>2. CASE Data
  BY <1>2, DataKeeps
<1>3. CASE LastByte \/ Fail \/ UNCHANGED deadlineVars
  BY <1>3 DEF LastByte, Fail, deadlineVars, DeadlineInv, DeadlineTypeOK, ExpiresOnce, InStep, Bounded, FiresOnTime
<1>4. CASE Finally
  BY <1>4 DEF Finally, close, DeadlineInv, DeadlineTypeOK, ExpiresOnce, InStep, Bounded, FiresOnTime
<1>5. CASE TimePasses
  BY <1>5, TickKeeps
<1> QED
  BY <1>1, <1>2, <1>3, <1>4, <1>5 DEF DeadlineNext

------------------------------------------------------------------------------
\* The invariant of transferDeadline.
THEOREM DeadlineInvariant == DeadlineSpec => []DeadlineInv
<1>1. DeadlineInit => DeadlineInv
  BY InitDeadline
<1>2. DeadlineInv /\ [DeadlineNext]_deadlineVars => DeadlineInv'
  BY NextDeadline
<1> QED
  BY <1>1, <1>2, PTL DEF DeadlineSpec

\* For any limits, a transfer is torn down at most once, and only while its
\* deadline is open (transferDeadline.ts:6-10).
THEOREM TornDownOnce == DeadlineSpec => []ExpiresOnce
<1>1. DeadlineInv => ExpiresOnce
  BY DEF DeadlineInv
<1> QED
  BY <1>1, DeadlineInvariant, PTL

\* For any limits, neither silence nor the transfer outlasts its limit while
\* the deadline is open (transferDeadline.ts:11-15).
THEOREM WithinLimits == DeadlineSpec => []Bounded
<1>1. DeadlineInv => Bounded
  BY DEF DeadlineInv
<1> QED
  BY <1>1, DeadlineInvariant, PTL

\* For any limits, a transfer is torn down only for a stream that was silent,
\* or a transfer that lasted, for just its limit.
THEOREM NeverEarly == DeadlineSpec => []FiresOnTime
<1>1. DeadlineInv => FiresOnTime
  BY DEF DeadlineInv
<1> QED
  BY <1>1, DeadlineInvariant, PTL

\* All of it together, for any limits: a transfer is torn down at its limit, not
\* twice, not late and not early (transferDeadline.ts:3-20).
THEOREM DeadlineHolds == DeadlineSpec => []DeadlineKept
<1>1. DeadlineInv => DeadlineKept
  BY DEF DeadlineInv, DeadlineKept
<1> QED
  BY <1>1, DeadlineInvariant, PTL

------------------------------------------------------------------------------
(* The bytes of a remote desktop session.  Every buffer holds the chunks   *)
(* that come after those of the buffers before it.                         *)

\* Chunks numbered from k + 1 on.
From(q, k) == \A i \in 1..Len(q) : q[i] = k + i

Upward(l) ==
  /\ From(l.vnc, 0) /\ From(l.pending, Len(l.vnc))
  /\ Len(l.vnc) + Len(l.pending) <= l.sent
  /\ l.ws = "open" =>
       /\ From(l.up, Len(l.vnc) + Len(l.pending))
       /\ Len(l.vnc) + Len(l.pending) + Len(l.up) = l.sent

Downward(l) ==
  /\ From(l.seen, 0) /\ From(l.back, Len(l.seen))
  /\ Len(l.seen) + Len(l.back) <= l.spoken
  /\ l.ws = "open" =>
       /\ From(l.down, Len(l.seen) + Len(l.back))
       /\ Len(l.seen) + Len(l.back) + Len(l.down) = l.spoken

\* The two connections go together, and nothing is held back once both are up.
InPhase(l) ==
  \/ l = NoLink
  \/ l.ws = "open" /\ l.tcp = "connecting"
  \/ l.ws = "open" /\ l.tcp = "up" /\ l.pending = <<>>
  \/ l.ws \in {"closing", "closed"} /\ l.tcp \in {"none", "closed"}

LinkOK(l) == l \in Link /\ InPhase(l) /\ Upward(l) /\ Downward(l)

LEMMA Sums ==
  /\ \A a, b, n \in Nat : a + b <= n => a <= n /\ a + 0 <= n
  /\ \A a \in Nat : a + 0 = a /\ 0 + a = a
OBVIOUS

LEMMA FromEmpty == \A k : From(<<>>, k)
BY EmptySeq DEF From

LEMMA FromAppend ==
  ASSUME NEW q \in Seq(Nat), NEW k \in Nat, From(q, k)
  PROVE  /\ Append(q, k + Len(q) + 1) \in Seq(Nat) /\ From(Append(q, k + Len(q) + 1), k)
         /\ Len(Append(q, k + Len(q) + 1)) = Len(q) + 1
<1> PICK n, r, c : n = Len(q) /\ c = k + n + 1 /\ r = Append(q, c)
  OBVIOUS
<1>1. n \in Nat /\ c \in Nat
  BY LenProperties
<1>2. /\ r \in Seq(Nat) /\ Len(r) = n + 1
      /\ \A i \in 1..n : r[i] = q[i] /\ r[n + 1] = c
  BY <1>1, AppendProperties
<1>3. r[n + 1] = c
  BY <1>1, AppendProperties
<1>4. \A i \in 1..(n + 1) : r[i] = k + i
  <2> SUFFICES ASSUME NEW i \in 1..(n + 1) PROVE r[i] = k + i
    OBVIOUS
  <2>1. CASE i \in 1..n
    BY <1>2, <2>1 DEF From
  <2>2. CASE i = n + 1
    BY <1>1, <1>3, <2>2
  <2> QED BY <1>1, <2>1, <2>2
<1> QED BY <1>2, <1>4 DEF From

LEMMA FromTail ==
  ASSUME NEW q \in Seq(Nat), NEW k \in Nat, From(q, k), q # <<>>
  PROVE  /\ Head(q) = k + 1 /\ Tail(q) \in Seq(Nat) /\ From(Tail(q), k + 1)
         /\ Len(Tail(q)) = Len(q) - 1 /\ Len(q) >= 1
<1> PICK n, r : n = Len(q) /\ r = Tail(q)
  OBVIOUS
<1>1. n \in Nat /\ n >= 1 /\ Head(q) = q[1]
  BY LenProperties, EmptySeq
<1>2. r \in Seq(Nat) /\ Len(r) = n - 1 /\ \A i \in 1..(n - 1) : r[i] = q[i + 1]
  BY HeadTailProperties
<1>3. \A i \in 1..n : q[i] = k + i
  BY DEF From
<1>4. \A i \in 1..(n - 1) : r[i] = k + 1 + i
  <2> SUFFICES ASSUME NEW i \in 1..(n - 1) PROVE r[i] = k + 1 + i
    OBVIOUS
  <2>1. i + 1 \in 1..n /\ r[i] = q[i + 1]
    BY <1>1, <1>2
  <2> QED BY <1>3, <2>1
<1>5. q[1] = k + 1
  BY <1>1, <1>3
<1> QED BY <1>1, <1>2, <1>4, <1>5 DEF From

LEMMA FromConcat ==
  ASSUME NEW a \in Seq(Nat), NEW b \in Seq(Nat), NEW k \in Nat, From(a, k), From(b, k + Len(a))
  PROVE  a \o b \in Seq(Nat) /\ From(a \o b, k) /\ Len(a \o b) = Len(a) + Len(b)
<1> PICK n, m, r : n = Len(a) /\ m = Len(b) /\ r = a \o b
  OBVIOUS
<1>1. n \in Nat /\ m \in Nat
  BY LenProperties
<1>2. /\ r \in Seq(Nat) /\ Len(r) = n + m
      /\ \A i \in 1..(n + m) : r[i] = IF i <= n THEN a[i] ELSE b[i - n]
  BY ConcatProperties
<1>3. (\A i \in 1..n : a[i] = k + i) /\ \A i \in 1..m : b[i] = k + n + i
  BY DEF From
<1>4. \A i \in 1..(n + m) : r[i] = k + i
  <2> SUFFICES ASSUME NEW i \in 1..(n + m) PROVE r[i] = k + i
    OBVIOUS
  <2>1. CASE i <= n
    BY <1>1, <1>2, <1>3, <2>1
  <2>2. CASE i > n
    <3>1. i - n \in 1..m /\ r[i] = b[i - n]
      BY <1>1, <1>2, <2>2
    <3> QED BY <1>1, <1>3, <3>1
  <2> QED BY <1>1, <2>1, <2>2
<1> QED BY <1>2, <1>4 DEF From

LEMMA FromStart ==
  ASSUME NEW q \in Seq(Nat), From(q, 0)
  PROVE  /\ q = Upto(Len(q))
         /\ \A n \in Nat : Len(q) <= n => IsPrefix(q, Upto(n))
<1> PICK m : m = Len(q)
  OBVIOUS
<1>1. m \in Nat /\ q \in [1..m -> Nat] /\ DOMAIN q = 1..m
  BY LenProperties
<1>2. \A i \in 1..m : q[i] = i
  BY <1>1 DEF From
<1>3. q = Upto(m)
  BY <1>1, <1>2 DEF Upto
<1>4. ASSUME NEW n \in Nat, m <= n PROVE IsPrefix(q, Upto(n))
  <2> PICK u : u = Upto(n)
    OBVIOUS
  <2>1. u \in [1..n -> Nat]
    BY DEF Upto
  <2>2. \A i \in 1..n : u[i] = i
    BY DEF Upto
  <2>3. u \in Seq(Nat)
    BY <2>1
  <2>4. Len(u) = n
    <3>1. DOMAIN u = 1..n /\ DOMAIN u = 1..Len(u) /\ Len(u) \in Nat
      BY <2>1, <2>3, LenProperties
    <3> QED BY <3>1
  <2>5. SubSeq(q, 1, m) = q
    BY SubSeqFull
  <2>6. SubSeq(u, 1, m) \in Seq(Nat) /\ Len(SubSeq(u, 1, m)) = m
        /\ \A i \in 1..m : SubSeq(u, 1, m)[i] = i
    <3>1. \A i \in 1..m : u[i] \in Nat
      BY <1>1, <1>4, <2>1
    <3>2. /\ SubSeq(u, 1, m) \in Seq(Nat) /\ Len(SubSeq(u, 1, m)) = (IF 1 <= m THEN m - 1 + 1 ELSE 0)
          /\ \A i \in 1..(m - 1 + 1) : SubSeq(u, 1, m)[i] = u[1 + i - 1]
      BY <1>1, <3>1, SubSeqProperties
    <3>3. Len(SubSeq(u, 1, m)) = m
      BY <1>1, <3>2
    <3>4. ASSUME NEW i \in 1..m PROVE SubSeq(u, 1, m)[i] = i
      <4>1. i \in 1..(m - 1 + 1) /\ 1 + i - 1 = i /\ i \in 1..n
        BY <1>1, <1>4
      <4> QED BY <2>2, <3>2, <4>1
    <3> QED BY <3>2, <3>3, <3>4
  <2>7. SubSeq(u, 1, m) = q
    <3> PICK v : v = SubSeq(u, 1, m)
      OBVIOUS
    <3>1. v \in [1..m -> Nat]
      BY <2>6, LenProperties
    <3> QED BY <1>1, <1>2, <2>6, <3>1
  <2> QED BY <1>4, <2>4, <2>5, <2>7 DEF IsPrefix
<1> QED BY <1>3, <1>4

\* The parts of a link that its type speaks of.
LEMMA LinkParts ==
  ASSUME NEW l \in Link
  PROVE  /\ l.sent \in Nat /\ l.sent <= MaxChunks /\ l.spoken \in Nat /\ l.spoken <= MaxChunks
         /\ l.up \in Seq(Nat) /\ l.pending \in Seq(Nat) /\ l.vnc \in Seq(Nat)
         /\ l.down \in Seq(Nat) /\ l.back \in Seq(Nat) /\ l.seen \in Seq(Nat)
         /\ Len(l.up) \in Nat /\ Len(l.pending) \in Nat /\ Len(l.vnc) \in Nat
         /\ Len(l.down) \in Nat /\ Len(l.back) \in Nat /\ Len(l.seen) \in Nat
BY BridgeAssumption, LenProperties DEF Link

LEMMA NewLinkOK == LinkOK(NoLink)
<1>1. <<>> \in Seq(Nat) /\ Len(<<>>) = 0
  BY EmptySeq
<1>2. NoLink \in Link
  BY <1>1, BridgeAssumption DEF NoLink, Link
<1>3. Upward(NoLink) /\ Downward(NoLink)
  BY <1>1, FromEmpty DEF NoLink, Upward, Downward
<1> QED BY <1>2, <1>3 DEF LinkOK, InPhase

\* What BytesInOrder and BridgeTypeOK ask of one session.
LEMMA LinkInOrder ==
  ASSUME NEW l, LinkOK(l)
  PROVE  /\ l.ws = "open" => l.vnc \o l.pending \o l.up = Upto(l.sent)
         /\ l.ws = "open" /\ l.tcp = "up" => l.seen \o l.back \o l.down = Upto(l.spoken)
         /\ IsPrefix(l.vnc, Upto(l.sent)) /\ IsPrefix(l.seen, Upto(l.spoken))
         /\ Len(l.vnc) + Len(l.pending) <= l.sent
<1>1. l \in Link /\ Upward(l) /\ Downward(l)
  BY DEF LinkOK
<1>2. ASSUME NEW a \in Seq(Nat), NEW b \in Seq(Nat), NEW c \in Seq(Nat), NEW n \in Nat,
             From(a, 0), From(b, Len(a)), From(c, Len(a) + Len(b)), Len(a) + Len(b) + Len(c) = n
      PROVE  a \o b \o c = Upto(n)
  <2>1. Len(a) \in Nat /\ Len(b) \in Nat /\ Len(c) \in Nat
    BY LenProperties
  <2>2. 0 + Len(a) = Len(a) /\ 0 + (Len(a) + Len(b)) = Len(a) + Len(b)
    BY <2>1
  <2>3. a \o b \in Seq(Nat) /\ From(a \o b, 0) /\ Len(a \o b) = Len(a) + Len(b)
    BY <1>2, <2>2, FromConcat
  <2>4. /\ (a \o b) \o c \in Seq(Nat) /\ From((a \o b) \o c, 0)
        /\ Len((a \o b) \o c) = Len(a) + Len(b) + Len(c)
    <3>1. From(c, 0 + Len(a \o b))
      BY <1>2, <2>2, <2>3
    <3>2. /\ (a \o b) \o c \in Seq(Nat) /\ From((a \o b) \o c, 0)
          /\ Len((a \o b) \o c) = Len(a \o b) + Len(c)
      BY <2>3, <3>1, FromConcat
    <3> QED BY <2>3, <3>2
  <2> QED BY <1>2, <2>4, FromStart
<1>3. l.ws = "open" => l.vnc \o l.pending \o l.up = Upto(l.sent)
  BY <1>1, <1>2, LinkParts DEF Upward
<1>4. l.ws = "open" => l.seen \o l.back \o l.down = Upto(l.spoken)
  BY <1>1, <1>2, LinkParts DEF Downward
<1>5. IsPrefix(l.vnc, Upto(l.sent))
  <2>1. Len(l.vnc) <= l.sent
    <3>1. Len(l.vnc) + Len(l.pending) <= l.sent
      BY <1>1 DEF Upward
    <3>2. Len(l.vnc) \in Nat /\ Len(l.pending) \in Nat /\ l.sent \in Nat
      BY <1>1, LinkParts
    <3> QED BY <3>1, <3>2, Sums
  <2> QED BY <1>1, <2>1, LinkParts, FromStart DEF Upward
<1>6. IsPrefix(l.seen, Upto(l.spoken))
  <2>1. Len(l.seen) <= l.spoken
    <3>1. Len(l.seen) + Len(l.back) <= l.spoken
      BY <1>1 DEF Downward
    <3>2. Len(l.seen) \in Nat /\ Len(l.back) \in Nat /\ l.spoken \in Nat
      BY <1>1, LinkParts
    <3> QED BY <3>1, <3>2, Sums
  <2> QED BY <1>1, <2>1, LinkParts, FromStart DEF Downward
<1> QED BY <1>1, <1>3, <1>4, <1>5, <1>6 DEF Upward

LEMMA UpgradedOK ==
  ASSUME NEW l, LinkOK(l), l.ws = "none"
  PROVE  /\ LinkOK([l EXCEPT !.ws = "open", !.tcp = "connecting"])
         /\ LinkOK([l EXCEPT !.ws = "closed"])
<1>1. l = NoLink
  BY DEF LinkOK, InPhase
<1>2. <<>> \in Seq(Nat) /\ Len(<<>>) = 0
  BY EmptySeq
<1>3. ASSUME NEW m, m.sent = 0, m.spoken = 0, m.up = <<>>, m.pending = <<>>, m.vnc = <<>>,
             m.down = <<>>, m.back = <<>>, m.seen = <<>>, m \in Link, InPhase(m)
      PROVE  LinkOK(m)
  <2>1. 0 + 0 = 0 /\ 0 + 0 + 0 = 0 /\ 0 <= 0
    OBVIOUS
  <2>2. Upward(m)
    BY <1>2, <1>3, <2>1, FromEmpty DEF Upward
  <2>3. Downward(m)
    BY <1>2, <1>3, <2>1, FromEmpty DEF Downward
  <2> QED BY <1>3, <2>2, <2>3 DEF LinkOK
<1>4. LinkOK([l EXCEPT !.ws = "open", !.tcp = "connecting"])
  <2> PICK m : m = [l EXCEPT !.ws = "open", !.tcp = "connecting"]
    OBVIOUS
  <2>1. m = [ws |-> "open", tcp |-> "connecting", sent |-> 0, up |-> <<>>, pending |-> <<>>,
             vnc |-> <<>>, spoken |-> 0, down |-> <<>>, back |-> <<>>, seen |-> <<>>]
    BY <1>1 DEF NoLink
  <2>2. m \in Link
    BY DEF LinkOK, Link
  <2> QED BY <1>3, <2>1, <2>2 DEF InPhase
<1>5. LinkOK([l EXCEPT !.ws = "closed"])
  <2> PICK m : m = [l EXCEPT !.ws = "closed"]
    OBVIOUS
  <2>1. m = [ws |-> "closed", tcp |-> "none", sent |-> 0, up |-> <<>>, pending |-> <<>>,
             vnc |-> <<>>, spoken |-> 0, down |-> <<>>, back |-> <<>>, seen |-> <<>>]
    BY <1>1 DEF NoLink
  <2>2. m \in Link
    BY DEF LinkOK, Link
  <2> QED BY <1>3, <2>1, <2>2 DEF InPhase
<1> QED BY <1>4, <1>5

\* The end of the TCP connection, of the WebSocket, and of the server.
LEMMA CleanedOK ==
  ASSUME NEW l, LinkOK(l)
  PROVE  /\ l.ws # "none" => LinkOK(cleanup(l))
         /\ LinkOK([cleanup(l) EXCEPT !.ws = "closed", !.up = <<>>])
         /\ LinkOK([cleanup(l) EXCEPT !.ws = "closed", !.up = <<>>, !.pending = <<>>])
<1>1. <<>> \in Seq(Nat) /\ Len(<<>>) = 0
  BY EmptySeq
<1>2. l \in Link /\ Upward(l) /\ Downward(l)
  BY DEF LinkOK
<1>3. ASSUME NEW m \in Link, m.sent = l.sent, m.spoken = l.spoken, m.pending \in {l.pending, <<>>},
             m.vnc = l.vnc, m.back = l.back, m.seen = l.seen, m.tcp = "closed",
             m.ws \in {"closing", "closed"}
      PROVE  LinkOK(m)
  <2>1. m.ws # "open"
    BY <1>3
  <2>2. From(m.pending, Len(l.vnc)) /\ Len(l.vnc) + Len(m.pending) <= l.sent
    <3>1. CASE m.pending = l.pending
      BY <1>2, <3>1 DEF Upward
    <3>2. CASE m.pending = <<>>
      <4>1. Len(l.vnc) + Len(l.pending) <= l.sent
        BY <1>2 DEF Upward
      <4>2. Len(l.vnc) + 0 <= l.sent
        BY <1>2, <4>1, LinkParts, Sums
      <4> QED BY <1>1, <3>2, <4>2, FromEmpty
    <3> QED BY <1>3, <3>1, <3>2
  <2>3. Upward(m) /\ Downward(m)
    BY <1>2, <1>3, <2>1, <2>2 DEF Upward, Downward
  <2>4. InPhase(m)
    BY <1>3 DEF InPhase
  <2> QED BY <1>3, <2>3, <2>4 DEF LinkOK
<1>4. /\ cleanup(l).ws = IF l.ws = "open" THEN "closing" ELSE l.ws
      /\ cleanup(l) = [l EXCEPT !.tcp = "closed", !.down = <<>>, !.ws = cleanup(l).ws]
      /\ cleanup(l) \in Link
  BY <1>1, <1>2 DEF cleanup, Link
<1> PICK w : w = cleanup(l).ws
  OBVIOUS
<1>5. cleanup(l) = [l EXCEPT !.tcp = "closed", !.down = <<>>, !.ws = w]
  BY <1>4
<1>6. l.ws # "none" => LinkOK(cleanup(l))
  <2>1. l.ws \in {"none", "open", "closing", "closed"}
    BY <1>2 DEF Link
  <2>2. l.ws # "none" => w \in {"closing", "closed"}
    BY <1>4, <2>1
  <2> PICK m : m = cleanup(l)
    OBVIOUS
  <2>3. /\ m.sent = l.sent /\ m.spoken = l.spoken /\ m.pending = l.pending
        /\ m.vnc = l.vnc /\ m.back = l.back /\ m.seen = l.seen /\ m.tcp = "closed" /\ m.ws = w
    BY <1>2, <1>5 DEF Link
  <2> QED BY <1>3, <1>4, <2>2, <2>3
<1>7. LinkOK([cleanup(l) EXCEPT !.ws = "closed", !.up = <<>>])
  <2> PICK m : m = [l EXCEPT !.tcp = "closed", !.down = <<>>, !.ws = "closed", !.up = <<>>]
    OBVIOUS
  <2>1. m = [cleanup(l) EXCEPT !.ws = "closed", !.up = <<>>]
    BY <1>2, <1>5 DEF Link
  <2>2. m \in Link
    BY <1>1, <1>2 DEF Link
  <2>3. /\ m.sent = l.sent /\ m.spoken = l.spoken /\ m.pending = l.pending
        /\ m.vnc = l.vnc /\ m.back = l.back /\ m.seen = l.seen /\ m.tcp = "closed" /\ m.ws = "closed"
    BY <1>2 DEF Link
  <2> QED BY <1>3, <2>1, <2>2, <2>3
<1>8. LinkOK([cleanup(l) EXCEPT !.ws = "closed", !.up = <<>>, !.pending = <<>>])
  <2> PICK m : m = [l EXCEPT !.tcp = "closed", !.down = <<>>, !.ws = "closed", !.up = <<>>,
                             !.pending = <<>>]
    OBVIOUS
  <2>1. m = [cleanup(l) EXCEPT !.ws = "closed", !.up = <<>>, !.pending = <<>>]
    BY <1>2, <1>5 DEF Link
  <2>2. m \in Link
    BY <1>1, <1>2 DEF Link
  <2>3. /\ m.sent = l.sent /\ m.spoken = l.spoken /\ m.pending = <<>>
        /\ m.vnc = l.vnc /\ m.back = l.back /\ m.seen = l.seen /\ m.tcp = "closed" /\ m.ws = "closed"
    BY <1>2 DEF Link
  <2> QED BY <1>3, <2>1, <2>2, <2>3
<1> QED BY <1>6, <1>7, <1>8

LEMMA FlushedOK ==
  ASSUME NEW l, LinkOK(l), l.tcp = "connecting"
  PROVE  LinkOK(Flushed(l))
<1>1. l \in Link /\ Upward(l) /\ Downward(l) /\ l.ws = "open"
  BY DEF LinkOK, InPhase, NoLink
<1>2. <<>> \in Seq(Nat) /\ Len(<<>>) = 0
  BY EmptySeq
<1> PICK v : v = l.vnc \o l.pending
  OBVIOUS
<1>3. v \in Seq(Nat) /\ From(v, 0) /\ Len(v) = Len(l.vnc) + Len(l.pending)
  <2>1. 0 + Len(l.vnc) = Len(l.vnc)
    BY <1>1, LinkParts
  <2> QED BY <1>1, <2>1, LinkParts, FromConcat DEF Upward
<1> PICK m : m = Flushed(l)
  OBVIOUS
<1>4. /\ m \in Link /\ m.sent = l.sent /\ m.spoken = l.spoken /\ m.up = l.up /\ m.down = l.down
      /\ m.back = l.back /\ m.seen = l.seen /\ m.pending = <<>> /\ m.vnc = v
      /\ m.ws = "open" /\ m.tcp = "up"
  BY <1>1, <1>2, <1>3 DEF Flushed, Link
<1>5. Len(v) + 0 = Len(v) /\ Len(v) \in Nat
  <2>1. Len(v) \in Nat
    BY <1>3, LenProperties
  <2> QED BY <2>1, Sums
<1>6. Upward(m)
  BY <1>1, <1>2, <1>3, <1>4, <1>5, FromEmpty DEF Upward
<1> QED BY <1>1, <1>4, <1>6 DEF LinkOK, InPhase, Downward

LEMMA ForwardedOK ==
  ASSUME NEW l, LinkOK(l), l.ws \in {"open", "closing"}, l.up # <<>>
  PROVE  LinkOK(Forwarded([l EXCEPT !.up = Tail(@)], Head(l.up)))
<1> PICK n, p, u : n = Len(l.vnc) /\ p = Len(l.pending) /\ u = Len(l.up)
  OBVIOUS
<1>1. l \in Link /\ InPhase(l) /\ Upward(l) /\ Downward(l) /\ l.ws # "none"
  BY DEF LinkOK
<1>2. n \in Nat /\ p \in Nat /\ u \in Nat /\ l.sent \in Nat /\ n + p <= l.sent
  BY <1>1, LinkParts DEF Upward
<1>3. l.vnc \in Seq(Nat) /\ l.pending \in Seq(Nat) /\ l.up \in Seq(Nat)
  BY <1>1, LinkParts
<1>4. Tail(l.up) \in Seq(Nat) /\ Head(l.up) \in Nat
  BY <1>3, HeadTailProperties
<1>5. ASSUME l.ws = "open"
      PROVE  /\ Head(l.up) = n + p + 1 /\ From(Tail(l.up), n + p + 1) /\ Len(Tail(l.up)) = u - 1
             /\ n + p + u = l.sent /\ u >= 1
  <2>1. From(l.up, n + p) /\ n + p + u = l.sent
    BY <1>1, <1>5 DEF Upward
  <2>2. n + p \in Nat
    BY ONLY <1>2
  <2> QED BY <1>3, <2>1, <2>2, FromTail
<1> PICK r : r = [l EXCEPT !.up = Tail(@)]
  OBVIOUS
<1>6. /\ r \in Link /\ r.sent = l.sent /\ r.spoken = l.spoken /\ r.pending = l.pending
      /\ r.vnc = l.vnc /\ r.down = l.down /\ r.back = l.back /\ r.seen = l.seen
      /\ r.up = Tail(l.up) /\ r.ws = l.ws /\ r.tcp = l.tcp
  BY <1>1, <1>4 DEF Link
<1>7. CASE l.tcp = "up"
  <2>1. l.ws = "open" /\ l.pending = <<>> /\ p = 0
    BY <1>1, <1>7, EmptySeq DEF InPhase, NoLink
  <2>2. Head(l.up) = 0 + n + 1
    BY <1>2, <1>5, <2>1
  <2>3. From(l.vnc, 0)
    BY <1>1 DEF Upward
  <2> PICK v : v = Append(l.vnc, Head(l.up))
    OBVIOUS
  <2>4. v \in Seq(Nat) /\ From(v, 0) /\ Len(v) = n + 1
    BY <1>3, <2>2, <2>3, FromAppend
  <2> PICK m : m = [r EXCEPT !.vnc = v]
    OBVIOUS
  <2>5. m = Forwarded(r, Head(l.up))
    BY <1>6, <1>7 DEF Forwarded
  <2>6. /\ m \in Link /\ m.sent = l.sent /\ m.spoken = l.spoken /\ m.pending = <<>>
        /\ m.vnc = v /\ m.down = l.down /\ m.back = l.back /\ m.seen = l.seen
        /\ m.up = Tail(l.up) /\ m.ws = "open" /\ m.tcp = "up"
    BY <1>6, <1>7, <2>1, <2>4 DEF Link
  <2>7. /\ n + 1 + 0 <= l.sent /\ n + p + 1 = n + 1 + 0 /\ n + 1 + 0 + (u - 1) = l.sent
    BY ONLY <1>2, <1>5, <2>1
  <2>8. Upward(m)
    <3>1. From(m.pending, n + 1) /\ Len(m.pending) = 0
      BY <2>6, FromEmpty, EmptySeq
    <3>2. From(m.up, n + 1 + 0) /\ Len(m.up) = u - 1
      BY <1>5, <2>1, <2>6, <2>7
    <3> QED BY <2>4, <2>6, <2>7, <3>1, <3>2 DEF Upward
  <2>9. Downward(m)
    BY <1>1, <2>1, <2>6 DEF Downward
  <2> QED BY <2>5, <2>6, <2>8, <2>9 DEF LinkOK, InPhase
<1>8. CASE l.tcp = "connecting"
  <2>1. l.ws = "open"
    BY <1>1, <1>8 DEF InPhase, NoLink
  <2>2. Head(l.up) = n + p + 1
    BY <1>5, <2>1
  <2>3. From(l.pending, n)
    BY <1>1 DEF Upward
  <2> PICK v : v = Append(l.pending, Head(l.up))
    OBVIOUS
  <2>4. v \in Seq(Nat) /\ From(v, n) /\ Len(v) = p + 1
    BY <1>2, <1>3, <2>2, <2>3, FromAppend
  <2> PICK m : m = [r EXCEPT !.pending = v]
    OBVIOUS
  <2>5. m = Forwarded(r, Head(l.up))
    BY <1>6, <1>8 DEF Forwarded
  <2>6. /\ m \in Link /\ m.sent = l.sent /\ m.spoken = l.spoken /\ m.pending = v
        /\ m.vnc = l.vnc /\ m.down = l.down /\ m.back = l.back /\ m.seen = l.seen
        /\ m.up = Tail(l.up) /\ m.ws = "open" /\ m.tcp = "connecting"
    BY <1>6, <1>8, <2>1, <2>4 DEF Link
  <2>7. /\ n + (p + 1) <= l.sent /\ n + p + 1 = n + (p + 1) /\ n + (p + 1) + (u - 1) = l.sent
    BY ONLY <1>2, <1>5, <2>1
  <2>8. Upward(m)
    <3>1. From(m.up, n + (p + 1)) /\ Len(m.up) = u - 1
      BY <1>5, <2>1, <2>6, <2>7
    <3>2. From(m.vnc, 0) /\ Len(m.vnc) = n
      BY <1>1, <2>6 DEF Upward
    <3> QED BY <2>4, <2>6, <2>7, <3>1, <3>2 DEF Upward
  <2>9. Downward(m)
    BY <1>1, <2>1, <2>6 DEF Downward
  <2> QED BY <2>5, <2>6, <2>8, <2>9 DEF LinkOK, InPhase
<1>9. CASE l.tcp \notin {"up", "connecting"}
  <2>1. r = Forwarded(r, Head(l.up))
    BY <1>6, <1>9 DEF Forwarded
  <2>2. l.ws \in {"closing", "closed"} /\ l.tcp \in {"none", "closed"}
    BY <1>1, <1>9 DEF InPhase, NoLink
  <2>3. Upward(r) /\ Downward(r)
    BY <1>1, <1>6, <2>2 DEF Upward, Downward
  <2> QED BY <1>6, <2>1, <2>2, <2>3 DEF LinkOK, InPhase
<1> QED BY <1>7, <1>8, <1>9

LEMMA TcpDataOK ==
  ASSUME NEW l, LinkOK(l), l.tcp = "up", l.down # <<>>,
         NEW m, m = [l EXCEPT !.down = Tail(l.down),
                              !.back = @ \o (IF l.ws = "open" THEN <<Head(l.down)>> ELSE <<>>)]
  PROVE  LinkOK(m)
<1> PICK n, p, u : n = Len(l.seen) /\ p = Len(l.back) /\ u = Len(l.down)
  OBVIOUS
<1>1. l \in Link /\ Upward(l) /\ Downward(l) /\ l.ws = "open" /\ l.pending = <<>>
  BY DEF LinkOK, InPhase, NoLink
<1>2. n \in Nat /\ p \in Nat /\ u \in Nat /\ l.spoken \in Nat /\ n + p <= l.spoken
  BY <1>1, LinkParts DEF Downward
<1>3. l.seen \in Seq(Nat) /\ l.back \in Seq(Nat) /\ l.down \in Seq(Nat)
  BY <1>1, LinkParts
<1>4. /\ Head(l.down) = n + p + 1 /\ From(Tail(l.down), n + p + 1) /\ Len(Tail(l.down)) = u - 1
      /\ n + p + u = l.spoken /\ u >= 1 /\ Tail(l.down) \in Seq(Nat)
  <2>1. From(l.down, n + p) /\ n + p + u = l.spoken
    BY <1>1 DEF Downward
  <2>2. n + p \in Nat
    BY ONLY <1>2
  <2> QED BY <1>3, <2>1, <2>2, FromTail
<1> PICK v : v = Append(l.back, n + p + 1)
  OBVIOUS
<1>5. v \in Seq(Nat) /\ From(v, n) /\ Len(v) = p + 1
  <2>1. From(l.back, n)
    BY <1>1 DEF Downward
  <2> QED BY <1>2, <1>3, <2>1, FromAppend
<1>6. l.back \o <<Head(l.down)>> = v
  <2>1. n + p + 1 \in Nat
    BY ONLY <1>2
  <2>2. Append(l.back, n + p + 1) = l.back \o <<n + p + 1>>
    BY <1>3, <2>1, AppendIsConcat
  <2> QED BY <1>4, <2>2
<1>7. m = [l EXCEPT !.down = Tail(l.down), !.back = v]
  BY <1>1, <1>6
<1>8. /\ m \in Link /\ m.sent = l.sent /\ m.spoken = l.spoken /\ m.pending = l.pending
      /\ m.vnc = l.vnc /\ m.up = l.up /\ m.seen = l.seen
      /\ m.down = Tail(l.down) /\ m.back = v /\ m.ws = l.ws /\ m.tcp = l.tcp
  BY <1>1, <1>4, <1>5, <1>7 DEF Link
<1>9. Upward(m) /\ InPhase(m)
  BY <1>1, <1>8 DEF Upward, InPhase
<1>10. Downward(m)
  <2>1. /\ n + (p + 1) <= l.spoken /\ n + p + 1 = n + (p + 1) /\ n + (p + 1) + (u - 1) = l.spoken
    BY ONLY <1>2, <1>4
  <2>2. From(m.down, n + (p + 1)) /\ Len(m.down) = u - 1
    BY <1>4, <1>8, <2>1
  <2>3. From(m.seen, 0) /\ Len(m.seen) = n
    BY <1>1, <1>8 DEF Downward
  <2> QED BY <1>5, <1>8, <2>1, <2>2, <2>3 DEF Downward
<1> QED BY <1>8, <1>9, <1>10 DEF LinkOK

LEMMA BrowserSendsOK ==
  ASSUME NEW l, LinkOK(l), l.ws = "open", l.sent < MaxChunks,
         NEW m, m = [l EXCEPT !.sent = @ + 1, !.up = Append(@, l.sent + 1)]
  PROVE  LinkOK(m)
<1> PICK k, u : k = Len(l.vnc) + Len(l.pending) /\ u = Len(l.up)
  OBVIOUS
<1>1. l \in Link /\ InPhase(l) /\ Upward(l) /\ Downward(l)
  BY DEF LinkOK
<1>2. k \in Nat /\ u \in Nat /\ l.sent \in Nat /\ k <= l.sent /\ l.up \in Seq(Nat)
      /\ k + u = l.sent /\ From(l.up, k) /\ MaxChunks \in Nat
  <2>1. /\ k <= l.sent /\ k + u = l.sent /\ From(l.up, k)
    BY <1>1 DEF Upward
  <2>2. /\ l.sent \in Nat /\ u \in Nat /\ l.up \in Seq(Nat) /\ MaxChunks \in Nat
    BY <1>1, LinkParts, BridgeAssumption
  <2>3. k \in Nat
    <3>1. \A a, b \in Nat : a + b \in Nat
      OBVIOUS
    <3> QED BY <1>1, <3>1, LinkParts
  <2> QED BY <2>1, <2>2, <2>3
<1> PICK v : v = Append(l.up, l.sent + 1)
  OBVIOUS
<1>3. v \in Seq(Nat) /\ From(v, k) /\ Len(v) = u + 1
  BY <1>2, FromAppend
<1>4. /\ m \in Link /\ m.sent = l.sent + 1 /\ m.spoken = l.spoken /\ m.pending = l.pending
      /\ m.vnc = l.vnc /\ m.up = v /\ m.seen = l.seen
      /\ m.down = l.down /\ m.back = l.back /\ m.ws = l.ws /\ m.tcp = l.tcp
  <2>1. l.sent + 1 \in 0..MaxChunks
    BY <1>2
  <2> QED BY <1>1, <1>3, <2>1 DEF Link
<1>5. Downward(m) /\ InPhase(m)
  <2>1. l # NoLink
    BY DEF NoLink
  <2> QED BY <1>1, <1>4, <2>1 DEF Downward, InPhase
<1>6. Upward(m)
  <2>1. k <= l.sent + 1 /\ k + (u + 1) = l.sent + 1
    BY ONLY <1>2
  <2>2. From(m.vnc, 0) /\ From(m.pending, Len(m.vnc)) /\ k = Len(m.vnc) + Len(m.pending)
    BY <1>1, <1>4 DEF Upward
  <2> QED BY <1>3, <1>4, <2>1, <2>2 DEF Upward
<1> QED BY <1>4, <1>5, <1>6 DEF LinkOK

LEMMA VncSendsOK ==
  ASSUME NEW l, LinkOK(l), l.tcp = "up", l.spoken < MaxChunks,
         NEW m, m = [l EXCEPT !.spoken = @ + 1, !.down = Append(@, l.spoken + 1)]
  PROVE  LinkOK(m)
<1> PICK k, u : k = Len(l.seen) + Len(l.back) /\ u = Len(l.down)
  OBVIOUS
<1>1. l \in Link /\ Upward(l) /\ Downward(l) /\ l.ws = "open" /\ l.pending = <<>>
  BY DEF LinkOK, InPhase, NoLink
<1>2. k \in Nat /\ u \in Nat /\ l.spoken \in Nat /\ k <= l.spoken /\ l.down \in Seq(Nat)
      /\ k + u = l.spoken /\ From(l.down, k) /\ MaxChunks \in Nat
  <2>1. /\ k <= l.spoken /\ k + u = l.spoken /\ From(l.down, k)
    BY <1>1 DEF Downward
  <2>2. /\ l.spoken \in Nat /\ u \in Nat /\ l.down \in Seq(Nat) /\ MaxChunks \in Nat
    BY <1>1, LinkParts, BridgeAssumption
  <2>3. k \in Nat
    <3>1. \A a, b \in Nat : a + b \in Nat
      OBVIOUS
    <3> QED BY <1>1, <3>1, LinkParts
  <2> QED BY <2>1, <2>2, <2>3
<1> PICK v : v = Append(l.down, l.spoken + 1)
  OBVIOUS
<1>3. v \in Seq(Nat) /\ From(v, k) /\ Len(v) = u + 1
  BY <1>2, FromAppend
<1>4. /\ m \in Link /\ m.spoken = l.spoken + 1 /\ m.sent = l.sent /\ m.pending = l.pending
      /\ m.vnc = l.vnc /\ m.down = v /\ m.seen = l.seen
      /\ m.up = l.up /\ m.back = l.back /\ m.ws = l.ws /\ m.tcp = l.tcp
  <2>1. l.spoken + 1 \in 0..MaxChunks
    BY <1>2
  <2> QED BY <1>1, <1>3, <2>1 DEF Link
<1>5. Upward(m) /\ InPhase(m)
  BY <1>1, <1>4 DEF Upward, InPhase
<1>6. Downward(m)
  <2>1. k <= l.spoken + 1 /\ k + (u + 1) = l.spoken + 1
    BY ONLY <1>2
  <2>2. From(m.seen, 0) /\ From(m.back, Len(m.seen)) /\ k = Len(m.seen) + Len(m.back)
    BY <1>1, <1>4 DEF Downward
  <2> QED BY <1>3, <1>4, <2>1, <2>2 DEF Downward
<1> QED BY <1>4, <1>5, <1>6 DEF LinkOK

LEMMA BrowserReadsOK ==
  ASSUME NEW l, LinkOK(l), l.back # <<>>,
         NEW m, m = [l EXCEPT !.back = Tail(@), !.seen = Append(@, Head(l.back))]
  PROVE  LinkOK(m)
<1> PICK n, p : n = Len(l.seen) /\ p = Len(l.back)
  OBVIOUS
<1>1. l \in Link /\ InPhase(l) /\ Upward(l) /\ Downward(l) /\ l # NoLink
  BY DEF LinkOK, NoLink
<1>2. n \in Nat /\ p \in Nat /\ l.spoken \in Nat /\ n + p <= l.spoken
      /\ l.seen \in Seq(Nat) /\ l.back \in Seq(Nat)
  BY <1>1, LinkParts DEF Downward
<1>3. /\ Head(l.back) = n + 1 /\ From(Tail(l.back), n + 1) /\ Len(Tail(l.back)) = p - 1
      /\ p >= 1 /\ Tail(l.back) \in Seq(Nat)
  <2>1. From(l.back, n)
    BY <1>1 DEF Downward
  <2> QED BY <1>2, <2>1, FromTail
<1> PICK v : v = Append(l.seen, Head(l.back))
  OBVIOUS
<1>4. v \in Seq(Nat) /\ From(v, 0) /\ Len(v) = n + 1
  <2>1. From(l.seen, 0) /\ 0 + n + 1 = n + 1
    BY <1>1, <1>2 DEF Downward
  <2> QED BY <1>2, <1>3, <2>1, FromAppend
<1>5. /\ m \in Link /\ m.sent = l.sent /\ m.spoken = l.spoken /\ m.pending = l.pending
      /\ m.vnc = l.vnc /\ m.up = l.up /\ m.seen = v
      /\ m.down = l.down /\ m.back = Tail(l.back) /\ m.ws = l.ws /\ m.tcp = l.tcp
  BY <1>1, <1>3, <1>4 DEF Link
<1>6. Upward(m) /\ InPhase(m)
  BY <1>1, <1>5 DEF Upward, InPhase
<1>7. Downward(m)
  <2>1. n + 1 + (p - 1) = n + p
    BY ONLY <1>2, <1>3
  <2>2. l.ws = "open" => From(l.down, n + p) /\ n + p + Len(l.down) = l.spoken
    BY <1>1 DEF Downward
  <2> QED BY <1>2, <1>3, <1>4, <1>5, <2>1, <2>2 DEF Downward
<1> QED BY <1>5, <1>6, <1>7 DEF LinkOK

------------------------------------------------------------------------------
(* The invariant of the bridge, and its steps.                             *)

RfbStates == {"none", "connecting", "connected", "leaving", "disconnected"}

EndsOK ==
  /\ page \in Page /\ rfb \in [Sessions -> RfbStates] /\ audit \in Seq(AuditRow)
  /\ crashed \subseteq Sessions /\ admits \in BOOLEAN

LinksOK == link = [s \in Sessions |-> link[s]] /\ \A s \in Sessions : LinkOK(link[s])

BridgeIInv == EndsOK /\ LinksOK

LEMMA BridgeFollows == BridgeIInv => BridgeInv
<1> SUFFICES ASSUME BridgeIInv PROVE BridgeInv
  OBVIOUS
<1>1. link \in [Sessions -> Link]
  BY DEF BridgeIInv, LinksOK, LinkOK
<1>2. \A s \in Sessions : Len(link[s].vnc) + Len(link[s].pending) <= link[s].sent
  BY LinkInOrder DEF BridgeIInv, LinksOK
<1>3. BridgeTypeOK
  BY <1>1, <1>2 DEF BridgeIInv, EndsOK, BridgeTypeOK, RfbStates
<1>4. BytesInOrder
  BY LinkInOrder DEF BridgeIInv, LinksOK, BytesInOrder
<1> QED BY <1>3, <1>4 DEF BridgeInv

LEMMA BridgeInitOK == BridgeInit => BridgeIInv
<1> SUFFICES ASSUME BridgeInit PROVE BridgeIInv
  OBVIOUS
<1>1. EndsOK
  <2>1. audit \in Seq(AuditRow)
    BY EmptySeq DEF BridgeInit
  <2> QED BY <2>1 DEF BridgeInit, EndsOK, Page, RfbStates
<1>2. LinksOK
  BY NewLinkOK DEF BridgeInit, LinksOK
<1> QED BY <1>1, <1>2 DEF BridgeIInv

\* A step that changes one link.
LEMMA OneLink ==
  ASSUME LinksOK, NEW s \in Sessions, NEW m, LinkOK(m), link' = [link EXCEPT ![s] = m]
  PROVE  LinksOK'
BY DEF LinksOK

LEMMA Recording ==
  ASSUME audit \in Seq(AuditRow), NEW s \in Sessions, NEW a \in {"remote.start", "remote.end"},
         recordRemoteAudit(a, s)
  PROVE  audit' \in Seq(AuditRow)
<1>1. [action |-> a, session |-> s] \in AuditRow
  BY DEF AuditRow
<1> QED BY <1>1, AppendProperties DEF recordRemoteAudit

\* The steps of the page change no link.
LEMMA PageSteps ==
  ASSUME BridgeIInv,
         \/ Connect \/ handleDisconnect \/ Unmount \/ AccessChanges
         \/ \E s \in Sessions : onConnect(s) \/ onDisconnect(s)
  PROVE  BridgeIInv'
<1>1. /\ page.client \in Sessions \cup {NoClient} /\ page.heard \subseteq Sessions
      /\ page.pill \in {"connecting", "connected", "disconnected"} /\ page \in Page
      /\ rfb \in [Sessions -> RfbStates]
  BY DEF BridgeIInv, EndsOK, Page
<1>2. \A c : Disconnected(c) \in [Sessions -> RfbStates]
  BY <1>1 DEF Disconnected, RfbStates
<1>3. CASE Connect
  <2>1. PICK s \in Sessions :
          /\ rfb' = [Disconnected(page.client) EXCEPT ![s] = "connecting"]
          /\ page' = [client |-> s, heard |-> Unheard(page.client) \cup {s}, pill |-> "connecting"]
    BY <1>3 DEF Connect
  <2>2. rfb' \in [Sessions -> RfbStates]
    BY <1>2, <2>1 DEF RfbStates
  <2>3. page' \in Page
    BY <1>1, <2>1 DEF Page, Unheard
  <2> QED BY <1>3, <2>2, <2>3 DEF Connect, BridgeIInv, EndsOK, LinksOK
<1>4. CASE handleDisconnect
  BY <1>1, <1>2, <1>4 DEF handleDisconnect, BridgeIInv, EndsOK, LinksOK
<1>5. CASE Unmount
  <2>1. page' \in Page
    BY <1>1, <1>5 DEF Unmount, Page, Unheard
  <2> QED BY <1>2, <1>5, <2>1 DEF Unmount, BridgeIInv, EndsOK, LinksOK
<1>6. CASE AccessChanges
  BY <1>6 DEF AccessChanges, BridgeIInv, EndsOK, LinksOK
<1>7. ASSUME NEW s \in Sessions, onConnect(s) \/ onDisconnect(s) PROVE BridgeIInv'
  <2>1. page' \in Page
    BY <1>1, <1>7 DEF onConnect, onDisconnect, Page
  <2>2. rfb' \in [Sessions -> RfbStates]
    BY <1>1, <1>7 DEF onConnect, onDisconnect, RfbStates
  <2>3. UNCHANGED <<link, audit, crashed, admits>>
    BY <1>7 DEF onConnect, onDisconnect
  <2> QED BY <2>1, <2>2, <2>3 DEF BridgeIInv, EndsOK, LinksOK
<1> QED BY <1>3, <1>4, <1>5, <1>6, <1>7

LEMMA LinkSteps ==
  ASSUME BridgeIInv, NEW s \in Sessions,
         \/ Upgrade(s) \/ TcpConnects(s) \/ TcpEnds(s) \/ WsMessage(s) \/ TcpData(s) \/ WsCloses(s)
         \/ BrowserSends(s) \/ BrowserReads(s) \/ VncSends(s)
  PROVE  BridgeIInv'
<1>1. LinkOK(link[s]) /\ LinksOK /\ EndsOK /\ s \in DOMAIN link
  BY DEF BridgeIInv, LinksOK
<1>2. ASSUME NEW m, LinkOK(m), link' = [link EXCEPT ![s] = m], audit' \in Seq(AuditRow),
             UNCHANGED <<page, rfb, crashed, admits>>
      PROVE  BridgeIInv'
  BY <1>1, <1>2, OneLink DEF BridgeIInv, EndsOK
<1>3. audit \in Seq(AuditRow)
  BY <1>1 DEF EndsOK
<1>4. CASE Upgrade(s)
  <2>1. link[s].ws = "none" /\ UNCHANGED <<page, rfb, crashed, admits>>
    BY <1>4 DEF Upgrade, Waiting
  <2>2. CASE admits
    <3>1. link' = [link EXCEPT ![s] = [link[s] EXCEPT !.ws = "open", !.tcp = "connecting"]]
      BY <1>1, <1>4, <2>2 DEF Upgrade
    <3>2. audit' \in Seq(AuditRow)
      BY <1>3, <1>4, <2>2, Recording DEF Upgrade
    <3> QED BY <1>1, <1>2, <2>1, <3>1, <3>2, UpgradedOK
  <2>3. CASE ~ admits
    <3>1. link' = [link EXCEPT ![s] = [link[s] EXCEPT !.ws = "closed"]] /\ audit' = audit
      BY <1>1, <1>4, <2>3 DEF Upgrade
    <3> QED BY <1>1, <1>2, <1>3, <2>1, <3>1, UpgradedOK
  <2> QED BY <2>2, <2>3
<1>5. CASE TcpConnects(s)
  BY <1>1, <1>2, <1>3, <1>5, FlushedOK DEF TcpConnects
<1>6. CASE TcpEnds(s)
  <2>1. link[s].ws # "none"
    BY <1>1, <1>6 DEF TcpEnds, LinkOK, InPhase, NoLink
  <2> QED BY <1>1, <1>2, <1>3, <1>6, <2>1, CleanedOK DEF TcpEnds
<1>7. CASE WsMessage(s)
  BY <1>1, <1>2, <1>3, <1>7, ForwardedOK DEF WsMessage
<1>8. CASE TcpData(s)
  <2> PICK m : m = [link[s] EXCEPT !.down = Tail(link[s].down),
                      !.back = @ \o (IF link[s].ws = "open" THEN <<Head(link[s].down)>> ELSE <<>>)]
    OBVIOUS
  <2>1. link' = [link EXCEPT ![s] = m]
    BY <1>1, <1>8 DEF TcpData
  <2>2. LinkOK(m)
    BY <1>1, <1>8, TcpDataOK DEF TcpData
  <2> QED BY <1>2, <1>3, <1>8, <2>1, <2>2 DEF TcpData
<1>9. CASE WsCloses(s)
  <2>1. audit' \in Seq(AuditRow)
    BY <1>3, <1>9, Recording DEF WsCloses, EndRow
  <2> QED BY <1>1, <1>2, <1>9, <2>1, CleanedOK DEF WsCloses
<1>10. CASE BrowserSends(s)
  <2> PICK m : m = [link[s] EXCEPT !.sent = @ + 1, !.up = Append(@, link[s].sent + 1)]
    OBVIOUS
  <2>1. link' = [link EXCEPT ![s] = m]
    BY <1>1, <1>10 DEF BrowserSends
  <2>2. LinkOK(m)
    BY <1>1, <1>10, BrowserSendsOK DEF BrowserSends
  <2> QED BY <1>2, <1>3, <1>10, <2>1, <2>2 DEF BrowserSends
<1>11. CASE BrowserReads(s)
  <2> PICK m : m = [link[s] EXCEPT !.back = Tail(@), !.seen = Append(@, Head(link[s].back))]
    OBVIOUS
  <2>1. link' = [link EXCEPT ![s] = m]
    BY <1>1, <1>11 DEF BrowserReads
  <2>2. LinkOK(m)
    BY <1>1, <1>11, BrowserReadsOK DEF BrowserReads
  <2> QED BY <1>2, <1>3, <1>11, <2>1, <2>2 DEF BrowserReads
<1>12. CASE VncSends(s)
  <2> PICK m : m = [link[s] EXCEPT !.spoken = @ + 1, !.down = Append(@, link[s].spoken + 1)]
    OBVIOUS
  <2>1. link' = [link EXCEPT ![s] = m]
    BY <1>1, <1>12 DEF VncSends
  <2>2. LinkOK(m)
    BY <1>1, <1>12, VncSendsOK DEF VncSends
  <2> QED BY <1>2, <1>3, <1>12, <2>1, <2>2 DEF VncSends
<1> QED BY <1>4, <1>5, <1>6, <1>7, <1>8, <1>9, <1>10, <1>11, <1>12

LEMMA RestartStep ==
  ASSUME BridgeIInv, ServerRestart
  PROVE  BridgeIInv'
<1> PICK cut : cut = {s \in Sessions : rfb[s] # "none" /\ link[s].ws # "closed"}
  OBVIOUS
<1>1. /\ crashed' = crashed \cup cut /\ UNCHANGED <<page, rfb, audit, admits>>
      /\ link' = [s \in Sessions |-> IF s \in cut
                    THEN [cleanup(link[s]) EXCEPT !.ws = "closed", !.up = <<>>, !.pending = <<>>]
                    ELSE link[s]]
  BY DEF ServerRestart
<1>2. EndsOK'
  BY <1>1 DEF BridgeIInv, EndsOK
<1>3. \A s \in Sessions : LinkOK(link'[s])
  BY <1>1, CleanedOK DEF BridgeIInv, LinksOK
<1>4. link' = [s \in Sessions |-> link'[s]]
  BY <1>1
<1> QED BY <1>2, <1>3, <1>4 DEF BridgeIInv, LinksOK

\* wsProxy.ts holds bytes back until the TCP connection is up and then copies
\* both ways: whichever side connects, closes or dies, and when, what arrives is
\* a beginning of what was sent, and all of it while both connections live.
THEOREM BytesRight == BridgeSpec => []BridgeInv
<1>1. BridgeIInv /\ [BridgeNext]_bridgeVars => BridgeIInv'
  <2> SUFFICES ASSUME BridgeIInv, [BridgeNext]_bridgeVars PROVE BridgeIInv'
    OBVIOUS
  <2>1. CASE UNCHANGED bridgeVars
    BY <2>1 DEF bridgeVars, BridgeIInv, EndsOK, LinksOK
  <2> QED BY <2>1, PageSteps, LinkSteps, RestartStep DEF BridgeNext
<1> QED BY <1>1, BridgeInitOK, BridgeFollows, PTL DEF BridgeSpec

------------------------------------------------------------------------------
(* The audit rows of the bridge and the state the page shows.              *)

Row(a, s)  == [action |-> a, session |-> s]
StartTold(s) == Recorded("remote.start", s)
EndTold(s)   == Recorded("remote.end", s)
Linked(s)  == link[s].ws \in {"open", "closing"}

\* A row is written once, and an end after its start.
RowsOrdered ==
  /\ \A i, j \in DOMAIN audit : audit[i] = audit[j] => i = j
  /\ \A j \in DOMAIN audit : audit[j].action = "remote.end" =>
       \E i \in 1..(j - 1) : audit[i] = Row("remote.start", audit[j].session)

\* What the WebSocket of a session says of its rows.
RowsTell(s) ==
  /\ link[s].ws = "none" => ~ StartTold(s) /\ ~ EndTold(s)
  /\ Linked(s) => StartTold(s) /\ ~ EndTold(s)
  /\ s \in crashed => link[s].ws = "closed"
  /\ link[s].ws = "closed" /\ StartTold(s) /\ ~ EndTold(s) => s \in crashed

\* The page hears its client and no other.
Listening == page.heard = IF page.client = NoClient THEN {} ELSE {page.client}

RowsInv == BridgeIInv /\ RowsOrdered /\ (\A s \in Sessions : RowsTell(s)) /\ Listening /\ PillHonest

LEMMA WsStates ==
  ASSUME BridgeIInv, NEW s \in Sessions
  PROVE  link[s].ws \in {"none", "open", "closing", "closed"}
BY DEF BridgeIInv, LinksOK, LinkOK, Link

LEMMA RowsFollow == RowsInv => RowsPaired /\ PillHonest
<1> SUFFICES ASSUME RowsInv PROVE RowsPaired
  BY DEF RowsInv
<1>1. \A s \in Sessions : link[s].ws \in {"open", "closing"} \/ (s \in crashed /\ StartTold(s) /\ ~EndTold(s))
                             <=> StartTold(s) /\ ~EndTold(s)
  <2> TAKE s \in Sessions
  <2>1. RowsTell(s) /\ link[s].ws \in {"none", "open", "closing", "closed"}
    BY WsStates DEF RowsInv
  <2> QED BY <2>1 DEF RowsTell, Linked
<1> QED BY <1>1 DEF RowsInv, RowsOrdered, RowsPaired, StartTold, EndTold, Row

LEMMA RowsInitOK == BridgeInit => RowsInv
<1> SUFFICES ASSUME BridgeInit PROVE RowsInv
  OBVIOUS
<1>1. BridgeIInv
  BY BridgeInitOK
<1>2. audit = <<>> /\ DOMAIN audit = {}
  BY DEF BridgeInit
<1>3. RowsOrdered /\ \A s \in Sessions : RowsTell(s)
  BY <1>2 DEF BridgeInit, NoLink, RowsOrdered, RowsTell, StartTold, EndTold, Linked, Recorded
<1>4. Listening /\ PillHonest
  BY DEF BridgeInit, Listening, PillHonest
<1> QED BY <1>1, <1>3, <1>4 DEF RowsInv

\* A step that writes no row and leaves each WebSocket in its phase.
LEMMA RowsQuiet ==
  ASSUME RowsInv, audit' = audit, crashed' = crashed,
         \A s \in Sessions : link'[s].ws = link[s].ws \/ (Linked(s) /\ Linked(s)')
  PROVE  RowsOrdered' /\ \A s \in Sessions : RowsTell(s)'
<1>1. RowsOrdered'
  BY DEF RowsInv, RowsOrdered
<1>2. \A s \in Sessions : RowsTell(s)'
  <2> TAKE s \in Sessions
  <2>1. RowsTell(s) /\ (StartTold(s)' <=> StartTold(s)) /\ (EndTold(s)' <=> EndTold(s))
    BY DEF RowsInv, StartTold, EndTold, Recorded
  <2> QED BY <2>1 DEF RowsTell, Linked
<1> QED BY <1>1, <1>2

\* A step that leaves the page and its client as they are.
LEMMA PageQuiet ==
  ASSUME RowsInv, page' = page, rfb' = rfb
  PROVE  Listening' /\ PillHonest'
BY DEF RowsInv, Listening, PillHonest

LEMMA PageTells ==
  ASSUME RowsInv,
         \/ Connect \/ handleDisconnect \/ Unmount \/ AccessChanges
         \/ \E s \in Sessions : onConnect(s) \/ onDisconnect(s)
  PROVE  RowsInv'
<1>1. BridgeIInv'
  BY PageSteps DEF RowsInv
<1>2. UNCHANGED <<link, audit, crashed>>
  BY DEF Connect, handleDisconnect, Unmount, AccessChanges, onConnect, onDisconnect
<1>3. RowsOrdered' /\ \A s \in Sessions : RowsTell(s)'
  BY <1>2, RowsQuiet
<1>4. /\ page \in Page /\ rfb \in [Sessions -> RfbStates] /\ NoClient \notin Sessions
      /\ Listening /\ PillHonest
  BY DEF RowsInv, BridgeIInv, EndsOK, NoClient, Sessions
<1>5. Listening' /\ PillHonest'
  <2>1. CASE Connect
    <3>1. PICK s \in Sessions :
            /\ rfb' = [Disconnected(page.client) EXCEPT ![s] = "connecting"]
            /\ page' = [client |-> s, heard |-> Unheard(page.client) \cup {s}, pill |-> "connecting"]
      BY <2>1 DEF Connect
    <3>2. Unheard(page.client) = {}
      BY <1>4 DEF Listening, Unheard
    <3>3. rfb'[s] = "connecting"
      BY <3>1 DEF Disconnected
    <3> QED BY <1>4, <3>1, <3>2, <3>3 DEF Listening, PillHonest
  <2>2. CASE handleDisconnect
    <3>1. /\ page.client \in Sessions /\ page.pill = "connected" /\ page' = page
          /\ rfb' = Disconnected(page.client)
      BY <1>4, <2>2 DEF handleDisconnect, Page
    <3>2. rfb'[page.client] = "leaving"
      BY <1>4, <3>1 DEF Disconnected, PillHonest
    <3> QED BY <1>4, <3>1, <3>2 DEF Listening, PillHonest
  <2>3. CASE Unmount
    <3>1. page'.client = NoClient /\ page'.heard = Unheard(page.client)
      BY <1>4, <2>3 DEF Unmount, Page
    <3> QED BY <1>4, <3>1 DEF Listening, PillHonest, Unheard
  <2>4. CASE AccessChanges
    BY <2>4, PageQuiet DEF AccessChanges
  <2>5. ASSUME NEW s \in Sessions, onConnect(s) PROVE Listening' /\ PillHonest'
    <3>1. /\ rfb' = [rfb EXCEPT ![s] = "connected"]
          /\ page' = IF s \in page.heard THEN [page EXCEPT !.pill = "connected"] ELSE page
      BY <2>5 DEF onConnect
    <3>2. CASE s \in page.heard
      <4>1. page.client = s /\ page'.client = s /\ page'.heard = page.heard /\ page'.pill = "connected"
        BY <1>4, <3>1, <3>2 DEF Listening, Page
      <4> QED BY <1>4, <3>1, <4>1 DEF Listening, PillHonest
    <3>3. CASE s \notin page.heard
      <4>1. page' = page /\ page.client # s
        BY <1>4, <3>1, <3>3 DEF Listening
      <4>2. page.client # NoClient => page.client \in Sessions /\ rfb'[page.client] = rfb[page.client]
        BY <1>4, <3>1, <4>1 DEF Page
      <4> QED BY <1>4, <4>1, <4>2 DEF Listening, PillHonest
    <3> QED BY <3>2, <3>3
  <2>6. ASSUME NEW s \in Sessions, onDisconnect(s) PROVE Listening' /\ PillHonest'
    <3>1. /\ rfb' = [rfb EXCEPT ![s] = "disconnected"]
          /\ page' = IF s \in page.heard THEN [page EXCEPT !.pill = "disconnected"] ELSE page
      BY <2>6 DEF onDisconnect
    <3>2. CASE s \in page.heard
      <4>1. page.client = s /\ page'.client = s /\ page'.heard = page.heard /\ page'.pill = "disconnected"
        BY <1>4, <3>1, <3>2 DEF Listening, Page
      <4> QED BY <1>4, <3>1, <4>1 DEF Listening, PillHonest
    <3>3. CASE s \notin page.heard
      <4>1. page' = page /\ page.client # s
        BY <1>4, <3>1, <3>3 DEF Listening
      <4>2. page.client # NoClient => page.client \in Sessions /\ rfb'[page.client] = rfb[page.client]
        BY <1>4, <3>1, <4>1 DEF Page
      <4> QED BY <1>4, <4>1, <4>2 DEF Listening, PillHonest
    <3> QED BY <3>2, <3>3
  <2> QED BY <2>1, <2>2, <2>3, <2>4, <2>5, <2>6
<1> QED BY <1>1, <1>3, <1>5 DEF RowsInv

\* A row about a session, written where none like it was.
LEMMA RowWritten ==
  ASSUME RowsInv, NEW s \in Sessions, NEW a \in {"remote.start", "remote.end"},
         recordRemoteAudit(a, s), ~ Recorded(a, s), a = "remote.end" => StartTold(s)
  PROVE  /\ RowsOrdered'
         /\ \A b \in {"remote.start", "remote.end"}, r \in Sessions :
              Recorded(b, r)' <=> Recorded(b, r) \/ (b = a /\ r = s)
<1> DEFINE n == Len(audit)
<1>1. audit \in Seq(AuditRow) /\ n \in Nat /\ DOMAIN audit = 1..n
  BY LenProperties DEF RowsInv, BridgeIInv, EndsOK
<1>2. Row(a, s) \in AuditRow /\ audit' = Append(audit, Row(a, s))
  BY DEF recordRemoteAudit, Row, AuditRow
<1>3. /\ DOMAIN audit' = 1..n + 1 /\ audit'[n + 1] = Row(a, s)
      /\ \A i \in 1..n : audit'[i] = audit[i]
  BY <1>1, <1>2, AppendProperties
<1> HIDE DEF n
<1>4. \A i \in 1..n : audit[i] # Row(a, s)
  BY <1>1 DEF Recorded, Row
<1>5. \A i \in 1..n + 1 : i \in 1..n \/ i = n + 1
  BY <1>1
<1>6. \A i, j \in DOMAIN audit' : audit'[i] = audit'[j] => i = j
  <2> TAKE i, j \in DOMAIN audit'
  <2>1. (i \in 1..n \/ i = n + 1) /\ (j \in 1..n \/ j = n + 1)
    BY <1>3, <1>5
  <2> QED BY <1>1, <1>3, <1>4, <2>1 DEF RowsInv, RowsOrdered
<1>7. \A j \in DOMAIN audit' : audit'[j].action = "remote.end" =>
        \E i \in 1..(j - 1) : audit'[i] = Row("remote.start", audit'[j].session)
  <2> SUFFICES ASSUME NEW j \in DOMAIN audit', audit'[j].action = "remote.end"
               PROVE  \E i \in 1..(j - 1) : audit'[i] = Row("remote.start", audit'[j].session)
    OBVIOUS
  <2>1. CASE j \in 1..n
    <3>1. PICK i \in 1..(j - 1) : audit[i] = Row("remote.start", audit[j].session)
      BY <1>1, <1>3, <2>1 DEF RowsInv, RowsOrdered
    <3>2. i \in 1..n
      BY <1>1, <2>1
    <3> QED BY <1>3, <2>1, <3>1, <3>2
  <2>2. CASE j = n + 1
    <3>1. audit'[j].session = s /\ a = "remote.end"
      BY <1>3, <2>2 DEF Row
    <3>2. PICK i \in 1..n : audit[i] = Row("remote.start", s)
      BY <1>1, <3>1 DEF StartTold, Recorded, Row
    <3>3. i \in 1..(j - 1)
      BY <1>1, <2>2
    <3> QED BY <1>3, <3>1, <3>2, <3>3
  <2> QED BY <1>3, <1>5, <2>1, <2>2
<1>8. ASSUME NEW b \in {"remote.start", "remote.end"}, NEW r \in Sessions
      PROVE  Recorded(b, r)' <=> Recorded(b, r) \/ (b = a /\ r = s)
  <2>1. Recorded(b, r)' <=> \E i \in 1..n + 1 : audit'[i] = Row(b, r)
    BY <1>3 DEF Recorded, Row
  <2>2. Recorded(b, r) <=> \E i \in 1..n : audit[i] = Row(b, r)
    BY <1>1 DEF Recorded, Row
  <2>3. 1..n \subseteq 1..n + 1 /\ n + 1 \in 1..n + 1
    BY <1>1
  <2>4. Row(a, s) = Row(b, r) <=> b = a /\ r = s
    <3>1. Row(a, s).action = a /\ Row(a, s).session = s /\ Row(b, r).action = b /\ Row(b, r).session = r
      BY DEF Row
    <3> QED BY <3>1
  <2> QED BY <1>3, <1>5, <2>1, <2>2, <2>3, <2>4
<1> QED BY <1>6, <1>7, <1>8 DEF RowsOrdered

LEMMA LinkTells ==
  ASSUME RowsInv, NEW s \in Sessions,
         \/ Upgrade(s) \/ TcpConnects(s) \/ TcpEnds(s) \/ WsMessage(s) \/ TcpData(s) \/ WsCloses(s)
         \/ BrowserSends(s) \/ BrowserReads(s) \/ VncSends(s)
  PROVE  RowsInv'
<1>1. BridgeIInv /\ BridgeIInv'
  BY LinkSteps DEF RowsInv
<1>2. UNCHANGED <<page, rfb, crashed>>
  BY DEF Upgrade, TcpConnects, TcpEnds, WsMessage, TcpData, WsCloses, BrowserSends, BrowserReads,
         VncSends
<1>3. Listening' /\ PillHonest'
  BY <1>2, PageQuiet
<1>4. link = [r \in Sessions |-> link[r]] /\ RowsTell(s) /\ link[s] \in Link
  BY <1>1 DEF RowsInv, BridgeIInv, LinksOK, LinkOK
<1>5. CASE TcpConnects(s) \/ TcpEnds(s) \/ WsMessage(s) \/ TcpData(s) \/ BrowserSends(s)
             \/ BrowserReads(s) \/ VncSends(s)
  <2>1. audit' = audit
    BY <1>5 DEF TcpConnects, TcpEnds, WsMessage, TcpData, BrowserSends, BrowserReads, VncSends
  <2>2. \A r \in Sessions : r # s => link'[r] = link[r]
    BY <1>4, <1>5 DEF TcpConnects, TcpEnds, WsMessage, TcpData, BrowserSends, BrowserReads, VncSends
  <2>3. link'[s].ws = link[s].ws \/ (Linked(s) /\ Linked(s)')
    <3>1. CASE TcpConnects(s)
      BY <1>4, <3>1 DEF TcpConnects, Flushed, Link
    <3>2. CASE TcpEnds(s)
      BY <1>4, <3>2 DEF TcpEnds, cleanup, Link, Linked
    <3>3. CASE WsMessage(s)
      <4> PICK m : m = [link[s] EXCEPT !.up = Tail(@)]
        OBVIOUS
      <4>1. m.ws = link[s].ws
        BY <1>4 DEF Link
      <4>2. link'[s] = Forwarded(m, Head(link[s].up))
        BY <1>4, <3>3 DEF WsMessage
      <4>3. Forwarded(m, Head(link[s].up)).ws = m.ws
        BY <1>4 DEF Forwarded, Link
      <4> QED BY <4>1, <4>2, <4>3
    <3>4. CASE TcpData(s)
      BY <1>4, <3>4 DEF TcpData, Link
    <3>5. CASE BrowserSends(s)
      BY <1>4, <3>5 DEF BrowserSends, Link
    <3>6. CASE BrowserReads(s)
      BY <1>4, <3>6 DEF BrowserReads, Link
    <3>7. CASE VncSends(s)
      BY <1>4, <3>7 DEF VncSends, Link
    <3> QED BY <1>5, <3>1, <3>2, <3>3, <3>4, <3>5, <3>6, <3>7
  <2> QED BY <1>1, <1>2, <1>3, <2>1, <2>2, <2>3, RowsQuiet DEF RowsInv
<1>6. CASE Upgrade(s)
  <2>1. link[s].ws = "none" /\ s \notin crashed /\ ~ StartTold(s) /\ ~ EndTold(s)
    BY <1>4, <1>6 DEF Upgrade, Waiting, RowsTell
  <2>2. CASE admits
    <3>1. recordRemoteAudit("remote.start", s) /\ link'[s].ws = "open"
      BY <1>4, <1>6, <2>2 DEF Upgrade, Link
    <3>2. \A r \in Sessions : r # s => link'[r] = link[r]
      BY <1>4, <1>6, <2>2 DEF Upgrade
    <3>3. /\ RowsOrdered'
          /\ \A r \in Sessions : (StartTold(r)' <=> StartTold(r) \/ r = s) /\ (EndTold(r)' <=> EndTold(r))
      BY <2>1, <3>1, RowWritten DEF StartTold, EndTold
    <3>4. \A r \in Sessions : RowsTell(r)'
      <4> TAKE r \in Sessions
      <4>1. RowsTell(r)
        BY DEF RowsInv
      <4> QED BY <1>2, <2>1, <3>1, <3>2, <3>3, <4>1 DEF RowsTell, Linked
    <3> QED BY <1>1, <1>3, <3>3, <3>4 DEF RowsInv
  <2>3. CASE ~ admits
    <3>1. audit' = audit /\ link'[s].ws = "closed"
      BY <1>4, <1>6, <2>3 DEF Upgrade, Link
    <3>2. \A r \in Sessions : r # s => link'[r] = link[r]
      BY <1>4, <1>6, <2>3 DEF Upgrade
    <3>3. \A r \in Sessions : RowsTell(r)'
      <4> TAKE r \in Sessions
      <4>1. RowsTell(r) /\ (StartTold(r)' <=> StartTold(r)) /\ (EndTold(r)' <=> EndTold(r))
        BY <3>1 DEF RowsInv, StartTold, EndTold, Recorded
      <4> QED BY <1>2, <2>1, <3>1, <3>2, <4>1 DEF RowsTell, Linked
    <3>4. RowsOrdered'
      BY <3>1 DEF RowsInv, RowsOrdered
    <3> QED BY <1>1, <1>3, <3>3, <3>4 DEF RowsInv
  <2> QED BY <2>2, <2>3
<1>7. CASE WsCloses(s)
  <2>1. Linked(s) /\ StartTold(s) /\ ~ EndTold(s) /\ recordRemoteAudit("remote.end", s)
    BY <1>4, <1>7 DEF WsCloses, EndRow, RowsTell, Linked
  <2>2. link'[s].ws = "closed" /\ \A r \in Sessions : r # s => link'[r] = link[r]
    <3> PICK m : m = [cleanup(link[s]) EXCEPT !.ws = "closed", !.up = <<>>]
      OBVIOUS
    <3>1. m.ws = "closed"
      BY <1>4 DEF cleanup, Link
    <3>2. link' = [link EXCEPT ![s] = m]
      BY <1>7 DEF WsCloses
    <3> QED BY <1>4, <3>1, <3>2
  <2>3. /\ RowsOrdered'
        /\ \A r \in Sessions : (StartTold(r)' <=> StartTold(r)) /\ (EndTold(r)' <=> EndTold(r) \/ r = s)
    BY <2>1, RowWritten DEF StartTold, EndTold
  <2>4. \A r \in Sessions : RowsTell(r)'
    <3> TAKE r \in Sessions
    <3>1. RowsTell(r)
      BY DEF RowsInv
    <3> QED BY <1>2, <2>1, <2>2, <2>3, <3>1 DEF RowsTell, Linked
  <2> QED BY <1>1, <1>3, <2>3, <2>4 DEF RowsInv
<1> QED BY <1>5, <1>6, <1>7

LEMMA RestartTells ==
  ASSUME RowsInv, ServerRestart
  PROVE  RowsInv'
<1> PICK cut : cut = {s \in Sessions : rfb[s] # "none" /\ link[s].ws # "closed"}
  OBVIOUS
<1>1. /\ crashed' = crashed \cup cut /\ UNCHANGED <<page, rfb, audit, admits>>
      /\ link' = [s \in Sessions |-> IF s \in cut
                    THEN [cleanup(link[s]) EXCEPT !.ws = "closed", !.up = <<>>, !.pending = <<>>]
                    ELSE link[s]]
  BY DEF ServerRestart
<1>2. BridgeIInv' /\ Listening' /\ PillHonest' /\ RowsOrdered'
  BY <1>1, RestartStep, PageQuiet DEF RowsInv, RowsOrdered
<1>3. ASSUME NEW s \in Sessions PROVE RowsTell(s)'
  <2>1. /\ RowsTell(s) /\ (StartTold(s)' <=> StartTold(s)) /\ (EndTold(s)' <=> EndTold(s))
        /\ link[s] \in Link
    BY <1>1 DEF RowsInv, StartTold, EndTold, Recorded, BridgeIInv, LinksOK, LinkOK
  <2>2. CASE s \in cut
    <3> PICK m : m = [cleanup(link[s]) EXCEPT !.ws = "closed", !.up = <<>>, !.pending = <<>>]
      OBVIOUS
    <3>1. m.ws = "closed"
      BY <2>1 DEF cleanup, Link
    <3>2. link'[s] = m
      BY <1>1, <2>2
    <3> QED BY <1>1, <2>1, <2>2, <3>1, <3>2 DEF RowsTell, Linked
  <2>3. CASE s \notin cut
    BY <1>1, <2>1, <2>3 DEF RowsTell, Linked
  <2> QED BY <2>2, <2>3
<1> QED BY <1>2, <1>3 DEF RowsInv

\* wsProxy.ts:63-69 writes the rows at the upgrade and at the WebSocket's close:
\* whoever ends a session and however, its rows tell that it was connected.  And
\* RemotePage.tsx shows its own client's state: events of one it replaced, which
\* come late, change nothing.
THEOREM SessionsTold == BridgeSpec => [](RowsPaired /\ PillHonest)
<1>1. RowsInv /\ [BridgeNext]_bridgeVars => RowsInv'
  <2> SUFFICES ASSUME RowsInv, [BridgeNext]_bridgeVars PROVE RowsInv'
    OBVIOUS
  <2>1. CASE UNCHANGED bridgeVars
    <3>1. BridgeIInv'
      BY <2>1 DEF RowsInv, bridgeVars, BridgeIInv, EndsOK, LinksOK
    <3>2. UNCHANGED <<page, rfb, link, audit, crashed>>
      BY <2>1 DEF bridgeVars
    <3> QED BY <3>1, <3>2, RowsQuiet, PageQuiet DEF RowsInv
  <2> QED BY <2>1, PageTells, LinkTells, RestartTells DEF BridgeNext
<1> QED BY <1>1, RowsInitOK, RowsFollow, PTL DEF BridgeSpec

------------------------------------------------------------------------------
(* The upload page.  An id is never given twice, so what was learned of a  *)
(* session stays true of it: its file, and that its offset only grows.     *)

States == {"uploading", "submitting", "submitted"}

Request == [kind: CallKinds, by: Attempts, id: UploadIds \cup {NoId}, file: Files, offset: 0..Size,
            n: Nat, live: BOOLEAN]

\* What is known of session `id', even if it is gone.
Known(id, f)  == id \in 1..lastId /\ (id \in DOMAIN rows => rows[id].file = f)
Behind(id, n) == id \in 0..lastId /\ (id \in DOMAIN rows => n <= Offset(id))
Finished(id)  == id \in DOMAIN rows => rows[id].state # "uploading" /\ Offset(id) = Size

RowOK(id) ==
  /\ rows[id] \in UploadRow /\ Offset(id) \in 0..Size
  /\ rows[id].data = Bytes(rows[id].file, 0, Offset(id))

RowsOK ==
  /\ DOMAIN rows \subseteq 1..lastId /\ lastId \in 0..MaxUploads
  /\ \A id \in DOMAIN rows : RowOK(id)
  /\ OneSessionPerFile

\* A piece is sent to the session of its file, and fits in.
Piece(r) == r.n >= 1 /\ r.n <= ChunkBytes /\ r.offset + r.n <= Size

RequestOK(r) ==
  /\ r \in Request
  /\ r.kind = "chunk" => Piece(r)
  /\ r.kind \in {"chunk", "sync", "complete"} => Known(r.id, r.file)

\* While a piece is received its session waits for it.
ServingOK ==
  /\ \A r \in serving :
       /\ RequestOK(r) /\ r.kind = "chunk" /\ r.id \in DOMAIN rows
       /\ rows[r.id].state = "uploading" /\ rows[r.id].file = r.file /\ Offset(r.id) = r.offset
  /\ \A r, s \in serving : r.id = s.id => r = s

AttemptOK(w) ==
  \/ w = NoAttempt
  \/ /\ w \in Attempt /\ Behind(w.id, w.offset)
     /\ w.awaits \in {"chunk", "sync", "complete", "delay"} => Known(w.id, w.file)

AnswerOK(a, w) ==
  \/ a = NoAnswer
  \/ w.awaits \in CallKinds /\ a \in {Fatal, Refused}
  \/ w.awaits = "list" /\ a = [kind |-> "listed"]
  \/ /\ w.awaits \in CallKinds /\ a.kind = "ok"
     /\ a.id \in UploadIds /\ a.file \in Files /\ a.state \in States /\ a.offset \in 0..Size
     /\ Known(a.id, a.file) /\ Behind(a.id, a.offset)
     /\ w.awaits \in {"chunk", "sync", "complete"} => a.id = w.id /\ a.file = w.file
     /\ w.awaits = "complete" => Finished(a.id)

AttemptsOK ==
  /\ attempt \in [Attempts -> Attempt \cup {NoAttempt}]
  /\ answers = [k \in Attempts |-> answers[k]]
  /\ \A k \in Attempts : AttemptOK(attempt[k]) /\ AnswerOK(answers[k], attempt[k])

\* What a page shows: done only of what is, sending only while an attempt of it is.  Its
\* button cuts an attempt of its own that is under way.
Runs(k) == attempt[k].awaits \notin {"none", "list"}

PageOK(t, shown) ==
  /\ shown \in Tab /\ shown.id \in 0..lastId
  /\ shown.phase = "done" => Finished(shown.id)
  /\ shown.phase \in Sending => \E k \in Attempts : Runs(k) /\ attempt[k].tab = t
  /\ shown.control # NoControl =>
       shown.control \in Attempts /\ attempt[shown.control] # NoAttempt /\ attempt[shown.control].tab = t

PagesOK == tab \in [Tabs -> Tab] /\ \A t \in Tabs : PageOK(t, tab[t])

\* An attempt waits for at most one request, and for that one only.
LiveOK(r) ==
  r.live => /\ attempt[r.by].awaits = r.kind /\ attempt[r.by].id = r.id
            /\ answers[r.by] = NoAnswer

FlightsOK ==
  /\ \A r \in requests : RequestOK(r)
  /\ \A r \in requests \cup serving : LiveOK(r)
  /\ \A r, s \in requests \cup serving : r.live /\ s.live /\ r.by = s.by => r = s
  /\ \A r \in requests \cap serving : ~ r.live

ClientInv == RowsOK /\ ServingOK /\ AttemptsOK /\ FlightsOK /\ PagesOK

LEMMA MinTwo ==
  ASSUME NEW a \in Int, NEW b \in Int
  PROVE  Min({a, b}) = IF a <= b THEN a ELSE b
<1>1. \E x \in {a, b} : \A y \in {a, b} : x <= y
  OBVIOUS
<1>2. Min({a, b}) \in {a, b} /\ \A y \in {a, b} : Min({a, b}) <= y
  BY <1>1 DEF Min
<1> QED BY <1>2

LEMMA Kinds == /\ NoAnswer.kind = "none" /\ Fatal.kind = "fatal" /\ Refused.kind = "refused"
               /\ BadLength.kind = "length" /\ [kind |-> "listed"].kind = "listed"
BY DEF NoAnswer, Fatal, Refused, BadLength

LEMMA AttemptIsReal == \A w \in Attempt : w.awaits \in Awaits /\ w.awaits # "none" /\ w # NoAttempt
<1> SUFFICES ASSUME NEW w \in Attempt PROVE w.awaits \in Awaits /\ w.awaits # "none" /\ w # NoAttempt
  OBVIOUS
<1>1. w.awaits \in Awaits
  BY DEF Attempt
<1>2. w.awaits # "none"
  BY <1>1 DEF Awaits, CallKinds
<1> QED BY <1>1, <1>2 DEF NoAttempt

LEMMA ClientFollows == ClientInv => UploadInv /\ NeverAhead /\ SendingIsTrue
<1> SUFFICES ASSUME ClientInv PROVE UploadInv /\ NeverAhead /\ SendingIsTrue
  OBVIOUS
<1>1. ClientTypeOK
  BY DEF ClientInv, RowsOK, RowOK, ServingOK, AttemptsOK, PagesOK, ClientTypeOK
<1>2. OneFileInOrder
  BY DEF ClientInv, RowsOK, RowOK, OneFileInOrder
<1>3. PiecesFit
  <2> SUFFICES ASSUME NEW k \in Attempts PROVE answers[k] # BadLength
    BY DEF PiecesFit
  <2>1. AnswerOK(answers[k], attempt[k])
    BY DEF ClientInv, AttemptsOK
  <2> QED BY <2>1, Kinds DEF AnswerOK
<1>4. NeverAhead
  BY DEF ClientInv, AttemptsOK, AttemptOK, PagesOK, PageOK, Behind, Finished, NeverAhead
<1>5. SendingIsTrue
  BY DEF ClientInv, PagesOK, PageOK, Runs, SendingIsTrue
<1> QED BY <1>1, <1>2, <1>3, <1>4, <1>5 DEF UploadInv, ClientInv, RowsOK

LEMMA ClientInitOK == ClientInit => ClientInv
<1> SUFFICES ASSUME ClientInit PROVE ClientInv
  OBVIOUS
<1>1. DOMAIN rows = {} /\ lastId = 0 /\ serving = {} /\ requests = {}
  BY DEF ClientInit
<1>2. RowsOK /\ ServingOK /\ FlightsOK
  BY <1>1, ClientAssumption DEF RowsOK, ServingOK, FlightsOK, OneSessionPerFile
<1>3. AttemptsOK
  <2>1. /\ attempt = [k \in Attempts |-> NoAttempt]
        /\ answers = [k \in Attempts |-> NoAnswer]
    BY DEF ClientInit
  <2> QED BY <2>1 DEF AttemptsOK, AttemptOK, AnswerOK
<1>4. PagesOK
  <2>1. \A f \in Files : NewTab(f) \in Tab
    BY DEF NewTab, Tab
  <2>2. ASSUME NEW t \in Tabs PROVE PageOK(t, tab[t])
    <3>1. PICK f \in Files : tab[t] = NewTab(f)
      BY DEF ClientInit
    <3>2. tab[t] \in Tab /\ tab[t].id = 0 /\ tab[t].phase = "idle" /\ tab[t].control = NoControl
      BY <2>1, <3>1 DEF NewTab, NoId
    <3> QED BY <1>1, <3>2 DEF PageOK, Sending
  <2> QED BY <2>1, <2>2 DEF PagesOK, ClientInit
<1> QED BY <1>2, <1>3, <1>4 DEF ClientInv

------------------------------------------------------------------------------
(* The portal's steps.                                                     *)

\* Sessions come and go, and go on.
Grown ==
  /\ lastId' \in Nat /\ lastId <= lastId'
  /\ \A id \in DOMAIN rows' :
       \/ id > lastId
       \/ /\ id \in DOMAIN rows /\ rows'[id].file = rows[id].file
          /\ Offset(id) <= Offset(id)'
          /\ rows[id].state # "uploading" => rows'[id].state # "uploading" /\ Offset(id)' = Offset(id)

LEMMA KnowledgeStays ==
  ASSUME RowsOK, RowsOK', Grown
  PROVE  /\ \A id, f : Known(id, f) => Known(id, f)'
         /\ \A id, n \in Nat : Behind(id, n) => Behind(id, n)'
         /\ \A id \in 0..lastId : Finished(id) => Finished(id)'
<1>1. lastId \in Nat /\ lastId' \in Nat /\ lastId <= lastId'
  BY ClientAssumption DEF RowsOK, Grown
<1>2. \A id : id \in 0..lastId => id \in 0..lastId' /\ ~ id > lastId
  BY <1>1
<1>3. \A id : id \in 1..lastId => id \in 1..lastId' /\ ~ id > lastId
  BY <1>1
<1>4. /\ \A id \in DOMAIN rows : Offset(id) \in Nat
      /\ \A id \in DOMAIN rows' : Offset(id)' \in Nat
  BY ClientAssumption DEF RowsOK, RowOK
<1>5. \A id, f : Known(id, f) => Known(id, f)'
  BY <1>3 DEF Known, Grown
<1>6. ASSUME NEW id, NEW n \in Nat, Behind(id, n) PROVE Behind(id, n)'
  <2>1. id \in 0..lastId'
    BY <1>2, <1>6 DEF Behind
  <2>2. ASSUME id \in DOMAIN rows' PROVE n <= Offset(id)'
    <3>1. id \in DOMAIN rows /\ Offset(id) <= Offset(id)' /\ n <= Offset(id)
      BY <1>2, <1>6, <2>2 DEF Behind, Grown
    <3>2. Offset(id) \in Nat /\ Offset(id)' \in Nat
      BY <1>4, <2>2, <3>1
    <3> QED BY <3>1, <3>2
  <2> QED BY <2>1, <2>2 DEF Behind
<1>7. \A id \in 0..lastId : Finished(id) => Finished(id)'
  BY <1>2 DEF Finished, Grown
<1> QED BY <1>5, <1>6, <1>7

LEMMA AttemptsStay ==
  ASSUME RowsOK, RowsOK', Grown, AttemptsOK,
         NEW k \in Attempts
  PROVE  /\ attempt'[k] = attempt[k] => AttemptOK(attempt[k])'
         /\ attempt'[k] = attempt[k] /\ answers'[k] = answers[k] => AnswerOK(answers[k], attempt[k])'
<1>1. AttemptOK(attempt[k]) /\ AnswerOK(answers[k], attempt[k])
  BY DEF AttemptsOK
<1>2. ASSUME attempt'[k] = attempt[k] PROVE AttemptOK(attempt[k])'
  <2>1. CASE attempt[k] = NoAttempt
    BY <1>2, <2>1 DEF AttemptOK
  <2>2. CASE attempt[k] # NoAttempt
    <3>1. /\ attempt[k] \in Attempt /\ Behind(attempt[k].id, attempt[k].offset)
          /\ attempt[k].awaits \in {"chunk", "sync", "complete", "delay"}
               => Known(attempt[k].id, attempt[k].file)
      BY <1>1, <2>2 DEF AttemptOK
    <3>2. attempt[k].offset \in Nat /\ attempt[k].id \in 0..lastId
      BY <3>1, ClientAssumption DEF Attempt, Behind
    <3>3. Behind(attempt[k].id, attempt[k].offset)'
      BY <1>2, <3>1, <3>2, KnowledgeStays
    <3>4. attempt[k].awaits \in {"chunk", "sync", "complete", "delay"}
            => Known(attempt[k].id, attempt[k].file)'
      BY <1>2, <3>1, KnowledgeStays
    <3> QED BY <1>2, <3>1, <3>3, <3>4 DEF AttemptOK
  <2> QED BY <2>1, <2>2
<1>3. ASSUME attempt'[k] = attempt[k], answers'[k] = answers[k] PROVE AnswerOK(answers[k], attempt[k])'
  <2>1. CASE answers[k].kind = "ok"
    <3>1. /\ attempt[k].awaits \in CallKinds
          /\ answers[k].id \in UploadIds /\ answers[k].file \in Files /\ answers[k].state \in States
          /\ answers[k].offset \in 0..Size
          /\ Known(answers[k].id, answers[k].file) /\ Behind(answers[k].id, answers[k].offset)
          /\ attempt[k].awaits \in {"chunk", "sync", "complete"}
               => answers[k].id = attempt[k].id /\ answers[k].file = attempt[k].file
          /\ attempt[k].awaits = "complete" => Finished(answers[k].id)
      BY <1>1, <2>1, Kinds DEF AnswerOK
    <3>2. answers[k].offset \in Nat /\ answers[k].id \in 0..lastId
      BY <3>1, ClientAssumption DEF Behind
    <3>3. Known(answers[k].id, answers[k].file)' /\ Behind(answers[k].id, answers[k].offset)'
      BY <1>3, <3>1, <3>2, KnowledgeStays
    <3>4. attempt[k].awaits = "complete" => Finished(answers[k].id)'
      BY <1>3, <3>1, <3>2, KnowledgeStays
    <3> QED BY <1>3, <2>1, <3>1, <3>3, <3>4 DEF AnswerOK
  <2>2. CASE answers[k].kind # "ok"
    BY <1>1, <1>3, <2>2 DEF AnswerOK
  <2> QED BY <2>1, <2>2
<1> QED BY <1>2, <1>3

\* A page goes on while no attempt of it ends.
LEMMA PageStays ==
  ASSUME RowsOK, RowsOK', Grown, PagesOK, NEW t \in Tabs, NEW shown, shown = tab[t],
         \A k \in Attempts :
           \/ attempt'[k] = attempt[k]
           \/ attempt[k] # NoAttempt /\ attempt'[k] # NoAttempt /\ Runs(k)'
              /\ attempt'[k].tab = attempt[k].tab
  PROVE  PageOK(t, shown)'
<1>1. PageOK(t, shown)
  BY DEF PagesOK
<1>2. shown.id \in 0..lastId' /\ (shown.phase = "done" => Finished(shown.id)')
  <2>1. shown.id \in 0..lastId /\ lastId \in Nat /\ lastId' \in Nat /\ lastId <= lastId'
    BY <1>1, ClientAssumption DEF PageOK, RowsOK, Grown
  <2>2. shown.id \in 0..lastId'
    BY <2>1
  <2> QED BY <1>1, <2>1, <2>2, KnowledgeStays DEF PageOK
<1>3. shown.phase \in Sending => \E k \in Attempts : Runs(k)' /\ attempt'[k].tab = t
  <2> SUFFICES ASSUME shown.phase \in Sending PROVE \E k \in Attempts : Runs(k)' /\ attempt'[k].tab = t
    OBVIOUS
  <2>1. PICK k \in Attempts : Runs(k) /\ attempt[k].tab = t
    BY <1>1 DEF PageOK
  <2>2. Runs(k)' /\ attempt'[k].tab = t
    BY <2>1 DEF Runs
  <2> QED BY <2>2
<1>4. shown.control # NoControl =>
        shown.control \in Attempts /\ attempt'[shown.control] # NoAttempt /\ attempt'[shown.control].tab = t
  BY <1>1 DEF PageOK
<1> QED BY <1>1, <1>2, <1>3, <1>4 DEF PageOK

LEMMA PagesStay ==
  ASSUME RowsOK, RowsOK', Grown, PagesOK, UNCHANGED <<attempt, tab>>
  PROVE  PagesOK'
<1>1. ASSUME NEW t \in Tabs PROVE PageOK(t, tab[t])'
  <2> PICK shown : shown = tab[t]
    OBVIOUS
  <2>1. PageOK(t, shown)'
    BY PageStays
  <2> QED BY <2>1
<1> QED BY <1>1 DEF PagesOK

\* One page changes, and of the attempts those of that page.
LEMMA PagesKeep ==
  ASSUME RowsOK, RowsOK', Grown, PagesOK, NEW t \in Tabs, NEW shown, PageOK(t, shown)',
         tab' = [tab EXCEPT ![t] = shown],
         \A k \in Attempts : \/ attempt'[k] = attempt[k] \/ attempt[k] = NoAttempt
                             \/ attempt[k].tab = t
  PROVE  PagesOK'
<1>1. shown \in Tab
  BY DEF PageOK
<1>2. ASSUME NEW s \in Tabs \ {t} PROVE PageOK(s, tab[s])'
  <2> PICK other : other = tab[s]
    OBVIOUS
  <2>1. PageOK(s, other) /\ tab'[s] = other
    BY DEF PagesOK
  <2>2. other.id \in 0..lastId' /\ (other.phase = "done" => Finished(other.id)')
    <3>1. other.id \in 0..lastId /\ lastId \in Nat /\ lastId' \in Nat /\ lastId <= lastId'
      BY <2>1, ClientAssumption DEF PageOK, RowsOK, Grown
    <3>2. other.id \in 0..lastId'
      BY <3>1
    <3> QED BY <2>1, <3>1, <3>2, KnowledgeStays DEF PageOK
  <2>3. other.phase \in Sending => \E k \in Attempts : Runs(k)' /\ attempt'[k].tab = s
    <3> SUFFICES ASSUME other.phase \in Sending
                 PROVE  \E k \in Attempts : Runs(k)' /\ attempt'[k].tab = s
      OBVIOUS
    <3>1. PICK k \in Attempts : Runs(k) /\ attempt[k].tab = s
      BY <2>1 DEF PageOK
    <3>2. attempt[k] # NoAttempt
      BY <3>1 DEF Runs, NoAttempt
    <3>3. attempt'[k] = attempt[k]
      BY <3>1, <3>2
    <3> QED BY <3>1, <3>3 DEF Runs
  <2>4. other.control # NoControl =>
          other.control \in Attempts /\ attempt'[other.control] # NoAttempt
          /\ attempt'[other.control].tab = s
    BY <2>1 DEF PageOK
  <2> QED BY <2>1, <2>2, <2>3, <2>4 DEF PageOK
<1>3. tab'[t] = shown
  BY DEF PagesOK
<1>4. PageOK(t, tab[t])'
  BY <1>3 DEF PageOK
<1>5. tab' \in [Tabs -> Tab]
  BY <1>1 DEF PagesOK
<1> QED BY <1>2, <1>4, <1>5 DEF PagesOK

LEMMA RequestStays ==
  ASSUME RowsOK, RowsOK', Grown, NEW r, RequestOK(r)
  PROVE  RequestOK(r)'
BY KnowledgeStays DEF RequestOK, Piece

\* Request r is answered, and nothing else changes but the sessions.
LEMMA GivenKeeps ==
  ASSUME ClientInv, RowsOK', ServingOK', Grown, NEW r \in requests \cup serving, NEW a, Give(r, a),
         serving' \subseteq serving, ~ r.live \/ r \notin serving',
         r.live => AnswerOK(a, attempt[r.by])'
  PROVE  ClientInv'
<1> USE DEF ClientInv
<1>1. /\ requests' = requests \ {r} /\ attempt' = attempt /\ tab' = tab
      /\ answers' = IF r.live THEN [answers EXCEPT ![r.by] = a] ELSE answers
  BY DEF Give
<1>2. r.live \in BOOLEAN /\ r.by \in Attempts
  BY DEF FlightsOK, ServingOK, RequestOK, Request
<1>3. AttemptsOK'
  <2>1. /\ attempt' \in [Attempts -> Attempt \cup {NoAttempt}]
        /\ answers' = [k \in Attempts |-> answers'[k]]
    BY <1>1 DEF AttemptsOK
  <2>2. ASSUME NEW k \in Attempts PROVE AttemptOK(attempt[k])' /\ AnswerOK(answers[k], attempt[k])'
    <3>1. AttemptOK(attempt[k])'
      BY <1>1, AttemptsStay
    <3>2. CASE r.live /\ k = r.by
      <4>1. answers'[k] = a
        BY <1>1, <3>2 DEF AttemptsOK
      <4> QED BY <3>1, <3>2, <4>1
    <3>3. CASE ~ (r.live /\ k = r.by)
      <4>1. answers'[k] = answers[k]
        BY <1>1, <1>2, <3>3 DEF AttemptsOK
      <4> QED BY <1>1, <3>1, <4>1, AttemptsStay
    <3> QED BY <3>2, <3>3
  <2> QED BY <2>1, <2>2 DEF AttemptsOK
<1>4. FlightsOK'
  <2>1. \A q \in requests' : RequestOK(q)'
    BY <1>1, RequestStays DEF FlightsOK
  <2>2. ASSUME NEW q \in requests' \cup serving' PROVE LiveOK(q)'
    <3>1. q \in requests \cup serving /\ LiveOK(q)
      BY <1>1, <2>2 DEF FlightsOK
    <3>2. CASE r.live /\ q.live /\ q.by = r.by
      <4>1. q = r
        BY <3>1, <3>2 DEF FlightsOK
      <4> QED BY <1>1, <2>2, <3>2, <4>1
    <3>3. CASE ~ (r.live /\ q.live /\ q.by = r.by)
      BY <1>1, <1>2, <3>1, <3>3 DEF LiveOK, AttemptsOK
    <3> QED BY <3>2, <3>3
  <2>3. requests' \subseteq requests /\ serving' \subseteq serving
    BY <1>1
  <2> QED BY <2>1, <2>2, <2>3 DEF FlightsOK
<1>5. PagesOK'
  BY <1>1, PagesStay
<1> QED BY <1>3, <1>4, <1>5

LEMMA SameRows ==
  ASSUME RowsOK, UNCHANGED <<rows, lastId>>
  PROVE  RowsOK' /\ Grown
<1>1. RowsOK'
  BY DEF RowsOK, RowOK, Offset, OneSessionPerFile
<1>2. Grown
  <2>1. lastId \in Nat /\ lastId <= lastId' /\ \A id \in DOMAIN rows : Offset(id) \in Nat
    BY ClientAssumption DEF RowsOK, RowOK
  <2>2. \A id : Offset(id)' = Offset(id)
    BY DEF Offset
  <2> QED BY <2>1, <2>2 DEF Grown
<1> QED BY <1>1, <1>2

\* What the portal says of a session is true.
LEMMA Viewed ==
  ASSUME RowsOK', NEW id \in DOMAIN rows', NEW w, w.awaits \in CallKinds,
         w.awaits \in {"chunk", "sync", "complete"} => w.id = id /\ rows'[id].file = w.file,
         w.awaits = "complete" => Finished(id)'
  PROVE  AnswerOK(View(id, rows[id]), w)'
<1> PICK a : a = View(id, rows'[id])
  OBVIOUS
<1>1. /\ a.kind = "ok" /\ a.id = id /\ a.file = rows'[id].file /\ a.state = rows'[id].state
      /\ a.offset = Offset(id)'
  BY DEF View, Offset
<1>2. id \in 1..lastId' /\ id \in UploadIds /\ id \in 0..lastId'
  BY ClientAssumption DEF RowsOK, UploadIds
<1>3. /\ rows'[id].file \in Files /\ rows'[id].state \in States /\ Offset(id)' \in 0..Size
      /\ Offset(id)' <= Offset(id)'
  BY ClientAssumption DEF RowsOK, RowOK, UploadRow, States
<1> QED BY <1>1, <1>2, <1>3 DEF AnswerOK, Known, Behind

\* The sessions a step leaves to be served.
LEMMA ServingStays ==
  ASSUME ServingOK, RowsOK, RowsOK', Grown, serving' \subseteq serving,
         \A r \in serving' : r.id \in DOMAIN rows' /\ rows'[r.id] = rows[r.id]
  PROVE  ServingOK'
<1>1. \A r \in serving' : RequestOK(r)'
  BY RequestStays DEF ServingOK
<1>2. \A r \in serving' : Offset(r.id)' = Offset(r.id)
  BY DEF Offset
<1> QED BY <1>1, <1>2 DEF ServingOK

LEMMA NotServed ==
  ASSUME ClientInv, NEW r \in requests, r.live
  PROVE  /\ r \notin serving /\ r.by \in Attempts /\ attempt[r.by].awaits = r.kind
         /\ attempt[r.by].id = r.id /\ r.kind \in CallKinds
BY DEF ClientInv, FlightsOK, LiveOK, RequestOK, Request

\* A request that changes no session.
LEMMA AnsweredOnly ==
  ASSUME ClientInv, UNCHANGED <<rows, lastId, serving>>, NEW r \in requests, NEW a, Give(r, a),
         r.live => AnswerOK(a, attempt[r.by])'
  PROVE  ClientInv'
<1>1. RowsOK' /\ Grown
  BY SameRows DEF ClientInv
<1>2. \A q \in serving' : q.id \in DOMAIN rows' /\ rows'[q.id] = rows[q.id]
  BY DEF ClientInv, ServingOK
<1>3. ServingOK'
  BY <1>1, <1>2, ServingStays DEF ClientInv
<1>4. r.live \in BOOLEAN /\ (~ r.live \/ r \notin serving')
  BY DEF ClientInv, FlightsOK, RequestOK, Request
<1> QED BY <1>1, <1>3, <1>4, GivenKeeps

LEMMA PlainAnswer ==
  ASSUME NEW a \in {Fatal, Refused, [kind |-> "listed"]}, NEW w, w.awaits \in CallKinds,
         a \in {Fatal, Refused} \/ w.awaits = "list"
  PROVE  AnswerOK(a, w)'
BY DEF AnswerOK

LEMMA RefusalKeeps ==
  ASSUME ClientInv, UNCHANGED <<rows, lastId, serving>>, NEW r \in requests,
         NEW a \in {Fatal, Refused, [kind |-> "listed"]}, Give(r, a),
         a \in {Fatal, Refused} \/ r.kind = "list"
  PROVE  ClientInv'
<1>1. ASSUME r.live PROVE AnswerOK(a, attempt[r.by])'
  <2>1. attempt[r.by].awaits \in CallKinds /\ attempt[r.by].awaits = r.kind /\ attempt' = attempt
    BY <1>1, NotServed DEF Give
  <2> PICK w : w = attempt[r.by]
    OBVIOUS
  <2>2. AnswerOK(a, w)'
    BY <2>1, PlainAnswer
  <2> QED BY <2>1, <2>2 DEF AnswerOK
<1> QED BY <1>1, AnsweredOnly

\* A request is answered with its session, which may just have changed.
LEMMA ViewAnswers ==
  ASSUME ClientInv, RowsOK', Grown, NEW r \in requests \cup serving, NEW id \in DOMAIN rows',
         attempt' = attempt, r.live,
         r.kind \in {"chunk", "sync", "complete"} => r.id = id,
         r.kind = "complete" => Finished(id)'
  PROVE  AnswerOK(View(id, rows[id]), attempt[r.by])'
<1>1. LiveOK(r) /\ r.kind \in CallKinds /\ r.by \in Attempts
  BY DEF ClientInv, FlightsOK, ServingOK, RequestOK, Request
<1> PICK w : w = attempt[r.by]
  OBVIOUS
<1>2. w.awaits = r.kind /\ w.id = r.id
  BY <1>1 DEF LiveOK
<1>3. r.kind \in {"chunk", "sync", "complete"} => rows'[id].file = w.file
  <2>1. r.kind # "none" /\ AttemptOK(w)
    BY <1>1 DEF ClientInv, AttemptsOK, CallKinds
  <2>2. r.kind \in {"chunk", "sync", "complete"} => Known(w.id, w.file)
    BY <1>2, <2>1 DEF AttemptOK, NoAttempt
  <2>3. r.kind \in {"chunk", "sync", "complete"} => Known(w.id, w.file)'
    BY <2>2, KnowledgeStays DEF ClientInv
  <2> QED BY <1>2, <2>3 DEF Known
<1> PICK a : a = View(id, rows'[id])
  OBVIOUS
<1>4. AnswerOK(a, w)'
  BY <1>1, <1>2, <1>3, Viewed
<1> QED BY <1>4 DEF AnswerOK

LEMMA ServeOpenKeeps ==
  ASSUME ClientInv, NEW r \in requests, ServeOpen(r)
  PROVE  ClientInv'
<1>1. r.kind \in {"open", "sync"} /\ UNCHANGED serving /\ attempt' = attempt /\ tab' = tab
  BY DEF ServeOpen, Give
<1>2. RequestOK(r)
  BY DEF ClientInv, FlightsOK
<1>3. r.kind = "sync" => r.id # NoId
  BY <1>2, ClientAssumption DEF RequestOK, Known, NoId, ClientInv, RowsOK
<1> PICK found : found = IF r.id # NoId THEN {r.id} \cap DOMAIN rows ELSE Previous(r.file)
  OBVIOUS
<1> PICK new : new = [file |-> r.file, state |-> "uploading", data |-> <<>>]
  OBVIOUS
<1>4. CASE (\E id \in found : Give(r, View(id, rows[id]))) /\ UNCHANGED <<rows, lastId>>
  <2>1. PICK id \in found : Give(r, View(id, rows[id]))
    BY <1>4
  <2>2. id \in DOMAIN rows' /\ (r.kind = "sync" => id = r.id)
    BY <1>3, <1>4 DEF Previous
  <2>3. RowsOK' /\ Grown
    BY <1>4, SameRows DEF ClientInv
  <2>4. r.live => AnswerOK(View(id, rows[id]), attempt[r.by])'
    BY <1>1, <2>2, <2>3, ViewAnswers
  <2> PICK a : a = View(id, rows[id])
    OBVIOUS
  <2>5. r.live => AnswerOK(a, attempt[r.by])'
    BY <1>4, <2>4 DEF AnswerOK
  <2> QED BY <1>1, <1>4, <2>1, <2>5, AnsweredOnly
<1>5. CASE /\ found = {} /\ r.id = NoId /\ lastId < MaxUploads /\ lastId' = lastId + 1
           /\ rows' = [id \in DOMAIN rows \cup {lastId'} |-> IF id = lastId' THEN new ELSE rows[id]]
           /\ Give(r, View(lastId', new))
  <2>1. /\ lastId \in Nat /\ lastId' \in 0..MaxUploads /\ lastId' \in 1..lastId' /\ lastId' > lastId
        /\ lastId' \notin DOMAIN rows /\ DOMAIN rows \subseteq 1..lastId'
    BY <1>5, ClientAssumption DEF ClientInv, RowsOK
  <2>2. /\ DOMAIN rows' = DOMAIN rows \cup {lastId'} /\ rows'[lastId'] = new
        /\ \A id \in DOMAIN rows : rows'[id] = rows[id] /\ Offset(id)' = Offset(id)
    BY <1>5, <2>1 DEF Offset
  <2>3. RowOK(lastId)'
    <3>1. /\ new.data = <<>> /\ Len(new.data) = 0 /\ new.data \in Seq(Files \X (1..Size))
          /\ new.file = r.file /\ r.file \in Files /\ new.state = "uploading"
      BY <1>2, EmptySeq DEF RequestOK, Request
    <3>2. new \in UploadRow
      BY <3>1 DEF UploadRow
    <3>3. Offset(lastId)' = 0 /\ 0 \in 0..Size
      BY <2>2, <3>1, ClientAssumption DEF Offset
    <3>4. Bytes(r.file, 0, 0) = <<>>
      BY DEF Bytes
    <3> QED BY <2>2, <3>1, <3>2, <3>3, <3>4 DEF RowOK
  <2>4. \A id \in DOMAIN rows : RowOK(id)'
    BY <2>2 DEF ClientInv, RowsOK, RowOK
  <2>5. OneSessionPerFile'
    <3>1. \A id \in DOMAIN rows : rows[id].file = r.file => rows[id].state = "submitted"
      BY <1>5 DEF Previous
    <3>2. rows'[lastId'].file = r.file /\ rows'[lastId'].state = "uploading"
      BY <2>2
    <3>3. OneSessionPerFile
      BY DEF ClientInv, RowsOK
    <3> QED BY <2>2, <3>1, <3>2, <3>3 DEF OneSessionPerFile
  <2>6. RowsOK'
    BY <2>1, <2>2, <2>3, <2>4, <2>5 DEF RowsOK
  <2>7. Grown
    <3>1. \A id \in DOMAIN rows : Offset(id) \in Nat
      BY ClientAssumption DEF ClientInv, RowsOK, RowOK
    <3> QED BY <2>1, <2>2, <3>1 DEF Grown
  <2>8. ServingOK'
    <3>1. \A q \in serving' : q.id \in DOMAIN rows' /\ rows'[q.id] = rows[q.id]
      BY <1>1, <2>2 DEF ClientInv, ServingOK
    <3> QED BY <1>1, <2>6, <2>7, <3>1, ServingStays DEF ClientInv
  <2> PICK id : id = lastId'
    OBVIOUS
  <2>9. id \in DOMAIN rows' /\ rows'[id] = new /\ r.kind # "sync" /\ r.kind \notin {"chunk", "complete"}
    BY <1>1, <1>3, <1>5, <2>2
  <2>10. r.live => AnswerOK(View(id, rows[id]), attempt[r.by])'
    BY <1>1, <2>6, <2>7, <2>9, ViewAnswers
  <2> PICK a : a = View(id, new)
    OBVIOUS
  <2>11. r.live => AnswerOK(a, attempt[r.by])'
    BY <2>9, <2>10 DEF AnswerOK
  <2>12. r.live \in BOOLEAN /\ (~ r.live \/ r \notin serving')
    BY <1>1, <1>2, NotServed DEF RequestOK, Request
  <2> QED BY <1>1, <1>5, <2>6, <2>7, <2>8, <2>11, <2>12, GivenKeeps
<1>6. CASE Give(r, Fatal) /\ UNCHANGED <<rows, lastId>>
  BY <1>1, <1>6, RefusalKeeps
<1> QED BY <1>4, <1>5, <1>6 DEF ServeOpen

LEMMA BytesJoin ==
  ASSUME NEW f \in Files, NEW k \in 0..Size, NEW n \in Nat, k + n <= Size
  PROVE  /\ Bytes(f, 0, k) \o Bytes(f, k, n) = Bytes(f, 0, k + n)
         /\ Bytes(f, 0, k + n) \in Seq(Files \X (1..Size)) /\ Len(Bytes(f, 0, k + n)) = k + n
<1> PICK q : q = Bytes(f, 0, k) \o Bytes(f, k, n)
  OBVIOUS
<1> DEFINE S == Files \X (1..Size)
<1>1. Size \in Nat /\ k \in Nat /\ k + n \in Nat /\ k <= Size
  BY ClientAssumption
<1>2. ASSUME NEW from \in Nat, NEW m \in Nat, from + m <= Size
      PROVE  Bytes(f, from, m) \in Seq(S) /\ Len(Bytes(f, from, m)) = m
             /\ \A i \in 1..m : Bytes(f, from, m)[i] = <<f, from + i>>
  <2>1. \A i \in 1..m : from + i \in 1..Size
    BY <1>1, <1>2
  <2>2. \A i \in 1..m : <<f, from + i>> \in S
    BY <2>1
  <2> PICK b : b = Bytes(f, from, m)
    OBVIOUS
  <2>3. b \in [1..m -> S] /\ \A i \in 1..m : b[i] = <<f, from + i>>
    BY <2>2 DEF Bytes
  <2>4. b \in Seq(S)
    BY <2>3
  <2>5. Len(b) = m
    <3>1. DOMAIN b = 1..m /\ DOMAIN b = 1..Len(b) /\ Len(b) \in Nat
      BY <2>3, <2>4, LenProperties
    <3> QED BY <3>1
  <2> QED BY <2>3, <2>4, <2>5
<1> PICK a, b, c : a = Bytes(f, 0, k) /\ b = Bytes(f, k, n) /\ c = Bytes(f, 0, k + n)
  OBVIOUS
<1>3. /\ a \in Seq(S) /\ Len(a) = k /\ \A i \in 1..k : a[i] = <<f, i>>
  <2>1. 0 \in Nat /\ 0 + k <= Size /\ \A i \in 1..k : 0 + i = i
    BY <1>1
  <2>2. /\ Bytes(f, 0, k) \in Seq(S) /\ Len(Bytes(f, 0, k)) = k
        /\ \A i \in 1..k : Bytes(f, 0, k)[i] = <<f, 0 + i>>
    BY <1>1, <1>2, <2>1
  <2> QED BY <2>1, <2>2
<1>4. /\ b \in Seq(S) /\ Len(b) = n /\ \A i \in 1..n : b[i] = <<f, k + i>>
  BY <1>1, <1>2
<1>5. /\ c \in Seq(S) /\ Len(c) = k + n /\ \A i \in 1..(k + n) : c[i] = <<f, i>>
  <2>1. 0 \in Nat /\ 0 + (k + n) <= Size /\ \A i \in 1..(k + n) : 0 + i = i
    BY <1>1
  <2>2. /\ Bytes(f, 0, k + n) \in Seq(S) /\ Len(Bytes(f, 0, k + n)) = k + n
        /\ \A i \in 1..(k + n) : Bytes(f, 0, k + n)[i] = <<f, 0 + i>>
    BY <1>1, <1>2, <2>1
  <2> QED BY <2>1, <2>2
<1> HIDE DEF S
<1>6. /\ q \in Seq(S) /\ Len(q) = k + n
      /\ \A i \in 1..(k + n) : q[i] = IF i <= k THEN a[i] ELSE b[i - k]
  <2>1. /\ a \o b \in Seq(S) /\ Len(a \o b) = Len(a) + Len(b)
        /\ \A i \in 1..Len(a) + Len(b) : (a \o b)[i] = IF i <= Len(a) THEN a[i] ELSE b[i - Len(a)]
    BY <1>3, <1>4, ConcatProperties
  <2>2. Len(a) + Len(b) = k + n
    BY <1>3, <1>4
  <2> QED BY <1>3, <2>1, <2>2
<1>7. ASSUME NEW i \in 1..(k + n) PROVE q[i] = c[i]
  <2>1. c[i] = <<f, i>> /\ q[i] = IF i <= k THEN a[i] ELSE b[i - k]
    BY <1>5, <1>6
  <2>2. CASE i <= k
    <3>1. i \in 1..k
      BY ONLY <1>1, <2>2, n \in Nat, i \in 1..(k + n)
    <3> QED BY <1>3, <2>1, <2>2, <3>1
  <2>3. CASE ~ i <= k
    <3>1. i - k \in 1..n /\ k + (i - k) = i
      BY ONLY <1>1, <2>3, n \in Nat, i \in 1..(k + n)
    <3>2. b[i - k] = <<f, k + (i - k)>>
      BY <1>4, <3>1
    <3> QED BY <2>1, <2>3, <3>1, <3>2
  <2> QED BY <2>2, <2>3
<1>8. q = c
  <2>1. q \in [1..Len(q) -> S] /\ c \in [1..Len(c) -> S]
    BY <1>5, <1>6, LenProperties
  <2>2. q \in [1..(k + n) -> S] /\ c \in [1..(k + n) -> S]
    BY <1>5, <1>6, <2>1
  <2> PICK I : I = 1..(k + n)
    OBVIOUS
  <2>3. q \in [I -> S] /\ c \in [I -> S] /\ \A i \in I : q[i] = c[i]
    BY <1>7, <2>2
  <2> QED BY ONLY <2>3
<1> QED BY <1>6, <1>8 DEF S

LEMMA FitsPiece ==
  ASSUME NEW r \in Request
  PROVE  Fits(r) => Piece(r)
<1>1. r.n \in Nat /\ Size - r.offset \in Int /\ ChunkBytes \in Int /\ Size \in Int /\ r.offset \in Int
  BY ClientAssumption DEF Request
<1>2. Min({ChunkBytes, Size - r.offset}) = IF ChunkBytes <= Size - r.offset THEN ChunkBytes ELSE Size - r.offset
  BY <1>1, MinTwo
<1> QED BY <1>1, <1>2 DEF Fits, Piece

LEMMA PieceFits ==
  ASSUME NEW r \in Request
  PROVE  Piece(r) => Fits(r)
<1>1. r.n \in Nat /\ Size - r.offset \in Int /\ ChunkBytes \in Int /\ Size \in Int /\ r.offset \in Int
  BY ClientAssumption DEF Request
<1>2. Min({ChunkBytes, Size - r.offset}) = IF ChunkBytes <= Size - r.offset THEN ChunkBytes ELSE Size - r.offset
  BY <1>1, MinTwo
<1> QED BY <1>1, <1>2 DEF Fits, Piece

LEMMA ServeChunkKeeps ==
  ASSUME ClientInv, NEW r \in requests, ServeChunk(r)
  PROVE  ClientInv'
<1>1. r.kind = "chunk" /\ UNCHANGED <<rows, lastId>> /\ RequestOK(r) /\ Fits(r)
  BY PieceFits DEF ServeChunk, ClientInv, FlightsOK, RequestOK
<1>2. CASE serving' = serving
  <2>1. Give(r, Fatal) \/ Give(r, Refused)
    <3>1. ~ (serving' = serving \cup {r} /\ requests' = requests \ {r} /\ ~ Locked(r.id))
      BY <1>2 DEF Locked
    <3> QED BY <1>1, <3>1 DEF ServeChunk
  <2> QED BY <1>1, <1>2, <2>1, RefusalKeeps
<1>3. CASE serving' # serving
  <2>1. /\ r.id \in DOMAIN rows /\ ~ Locked(r.id) /\ rows[r.id].state = "uploading"
        /\ r.offset = Offset(r.id) /\ serving' = serving \cup {r} /\ requests' = requests \ {r}
        /\ answers' = answers /\ attempt' = attempt /\ tab' = tab
    BY <1>1, <1>3 DEF ServeChunk
  <2>2. RowsOK' /\ Grown /\ \A id : Offset(id)' = Offset(id)
    BY <1>1, SameRows DEF ClientInv, Offset
  <2>3. ServingOK'
    <3>1. rows[r.id].file = r.file
      BY <1>1, <2>1 DEF RequestOK, Known
    <3>2. ASSUME NEW q \in serving'
          PROVE  /\ RequestOK(q)' /\ q.kind = "chunk" /\ q.id \in DOMAIN rows'
                 /\ rows'[q.id].state = "uploading" /\ rows'[q.id].file = q.file
                 /\ Offset(q.id)' = q.offset
      <4>1. /\ RequestOK(q) /\ q.kind = "chunk" /\ q.id \in DOMAIN rows
            /\ rows[q.id].state = "uploading" /\ rows[q.id].file = q.file /\ Offset(q.id) = q.offset
        BY <1>1, <2>1, <3>1, <3>2 DEF ClientInv, ServingOK
      <4>2. RequestOK(q)'
        BY <2>2, <4>1, RequestStays DEF ClientInv
      <4> QED BY <1>1, <2>2, <4>1, <4>2
    <3>3. \A p, q \in serving' : p.id = q.id => p = q
      BY <2>1 DEF ClientInv, ServingOK, Locked
    <3> QED BY <3>2, <3>3 DEF ServingOK
  <2>4. AttemptsOK'
    <3>1. \A k \in Attempts : AttemptOK(attempt[k])' /\ AnswerOK(answers[k], attempt[k])'
      BY <2>1, <2>2, AttemptsStay DEF ClientInv
    <3> QED BY <2>1, <3>1 DEF ClientInv, AttemptsOK
  <2>5. FlightsOK'
    <3>1. \A q \in requests' : RequestOK(q)'
      BY <2>1, <2>2, RequestStays DEF ClientInv, FlightsOK
    <3>2. requests' \cup serving' = requests \cup serving
      BY <2>1
    <3>3. \A q \in requests' \cup serving' : LiveOK(q)'
      BY <2>1, <3>2 DEF ClientInv, FlightsOK, LiveOK
    <3>4. \A q \in requests' \cap serving' : ~ q.live
      BY <2>1 DEF ClientInv, FlightsOK
    <3> QED BY <3>1, <3>2, <3>3, <3>4 DEF ClientInv, FlightsOK
  <2>6. PagesOK'
    BY <2>1, <2>2, PagesStay DEF ClientInv
  <2> QED BY <2>2, <2>3, <2>4, <2>5, <2>6 DEF ClientInv
<1> QED BY <1>2, <1>3

LEMMA EndChunkKeeps ==
  ASSUME ClientInv, NEW r \in serving, EndChunk(r)
  PROVE  ClientInv'
<1>1. /\ RequestOK(r) /\ r.kind = "chunk" /\ r.id \in DOMAIN rows /\ lastId' = lastId
      /\ rows[r.id].state = "uploading" /\ rows[r.id].file = r.file /\ Offset(r.id) = r.offset
      /\ serving' = serving \ {r} /\ attempt' = attempt /\ tab' = tab
  BY DEF ClientInv, ServingOK, EndChunk, Give
<1>2. r.file \in Files /\ r.offset \in 0..Size /\ r.n \in Nat /\ r.offset + r.n <= Size /\ Size \in Nat
      /\ r.by \in Attempts /\ r.live \in BOOLEAN
  BY <1>1, ClientAssumption DEF RequestOK, Request, Piece
<1>3. CASE Give(r, Refused) /\ UNCHANGED rows
  <2>1. RowsOK' /\ Grown
    BY <1>1, <1>3, SameRows DEF ClientInv
  <2>2. ServingOK'
    <3>1. \A q \in serving' : q.id \in DOMAIN rows' /\ rows'[q.id] = rows[q.id]
      BY <1>1, <1>3 DEF ClientInv, ServingOK
    <3> QED BY <1>1, <2>1, <3>1, ServingStays DEF ClientInv
  <2>3. r.live => AnswerOK(Refused, attempt[r.by])'
    <3>1. r.live => attempt'[r.by].awaits \in CallKinds
      BY <1>1 DEF ClientInv, FlightsOK, LiveOK, RequestOK, Request
    <3> QED BY <3>1 DEF AnswerOK
  <2> QED BY <1>1, <1>3, <2>1, <2>2, <2>3, GivenKeeps
<1>4. CASE /\ rows' = [rows EXCEPT ![r.id].data = @ \o Bytes(r.file, r.offset, r.n)]
           /\ Give(r, View(r.id, rows'[r.id]))
  <2> PICK d : d = rows[r.id].data \o Bytes(r.file, r.offset, r.n)
    OBVIOUS
  <2>1. rows[r.id].data = Bytes(r.file, 0, r.offset) /\ rows[r.id] \in UploadRow
    BY <1>1 DEF ClientInv, RowsOK, RowOK
  <2>2. /\ d = Bytes(r.file, 0, r.offset + r.n) /\ d \in Seq(Files \X (1..Size))
        /\ Len(d) = r.offset + r.n
    <3>1. d = Bytes(r.file, 0, r.offset) \o Bytes(r.file, r.offset, r.n)
      BY <2>1
    <3> PICK f, k, n : f = r.file /\ k = r.offset /\ n = r.n
      OBVIOUS
    <3>2. f \in Files /\ k \in 0..Size /\ n \in Nat /\ k + n <= Size
      BY <1>2
    <3>3. d = Bytes(f, 0, k) \o Bytes(f, k, n)
      BY <3>1
    <3>4. /\ Bytes(f, 0, k) \o Bytes(f, k, n) = Bytes(f, 0, k + n)
          /\ Bytes(f, 0, k + n) \in Seq(Files \X (1..Size)) /\ Len(Bytes(f, 0, k + n)) = k + n
      BY <3>2, BytesJoin
    <3> QED BY <3>3, <3>4
  <2>3. /\ DOMAIN rows' = DOMAIN rows /\ rows'[r.id] = [rows[r.id] EXCEPT !.data = d]
        /\ \A id \in DOMAIN rows \ {r.id} : rows'[id] = rows[id]
    BY <1>1, <1>4
  <2>4. /\ rows'[r.id].data = d /\ rows'[r.id].file = r.file /\ rows'[r.id].state = "uploading"
        /\ rows'[r.id] \in UploadRow
    BY <1>1, <2>1, <2>2, <2>3 DEF UploadRow
  <2>5. Offset(r.id)' = r.offset + r.n /\ \A id \in DOMAIN rows \ {r.id} : Offset(id)' = Offset(id)
    BY <2>2, <2>3, <2>4 DEF Offset
  <2>6. RowsOK'
    <3>1. RowOK(r.id)'
      <4>1. r.offset + r.n \in 0..Size
        BY <1>2
      <4> QED BY <2>2, <2>4, <2>5, <4>1 DEF RowOK
    <3>2. \A id \in DOMAIN rows \ {r.id} : RowOK(id)'
      BY <2>3, <2>5 DEF ClientInv, RowsOK, RowOK
    <3>3. \A id \in DOMAIN rows : rows'[id].file = rows[id].file /\ rows'[id].state = rows[id].state
      BY <1>1, <2>3, <2>4
    <3>4. OneSessionPerFile'
      BY <2>3, <3>3 DEF ClientInv, RowsOK, OneSessionPerFile
    <3> QED BY <1>1, <2>3, <3>1, <3>2, <3>4 DEF ClientInv, RowsOK
  <2>7. Grown
    <3>1. lastId \in Nat /\ \A id \in DOMAIN rows : Offset(id) \in Nat
      BY ClientAssumption DEF ClientInv, RowsOK, RowOK
    <3>2. r.offset <= r.offset + r.n
      BY <1>2
    <3>3. Offset(r.id) <= Offset(r.id)'
      BY <1>1, <2>5, <3>2
    <3>4. \A id \in DOMAIN rows \ {r.id} : /\ rows'[id] = rows[id] /\ Offset(id)' = Offset(id)
                                          /\ Offset(id) <= Offset(id)
      BY <2>3, <2>5, <3>1
    <3>5. lastId <= lastId
      BY <3>1
    <3> QED BY <1>1, <2>3, <2>4, <3>1, <3>3, <3>4, <3>5 DEF Grown
  <2>8. ServingOK'
    <3>1. \A q \in serving' : q.id \in DOMAIN rows' /\ rows'[q.id] = rows[q.id]
      BY <1>1, <2>3 DEF ClientInv, ServingOK
    <3> QED BY <1>1, <2>6, <2>7, <3>1, ServingStays DEF ClientInv
  <2> PICK id, a : id = r.id /\ a = View(r.id, rows'[r.id])
    OBVIOUS
  <2>9. r.live => AnswerOK(View(id, rows[id]), attempt[r.by])'
    BY <1>1, <2>3, <2>6, <2>7, ViewAnswers
  <2>10. r.live => AnswerOK(a, attempt[r.by])'
    BY <2>9 DEF AnswerOK
  <2> QED BY <1>1, <1>4, <2>6, <2>7, <2>8, <2>10, GivenKeeps
<1> QED BY <1>3, <1>4 DEF EndChunk

\* Only the sessions change.
LEMMA RowsOnly ==
  ASSUME ClientInv, RowsOK', Grown, ServingOK', UNCHANGED <<serving, requests, answers, attempt, tab>>
  PROVE  ClientInv'
<1>1. \A k \in Attempts : AttemptOK(attempt[k])' /\ AnswerOK(answers[k], attempt[k])'
  BY AttemptsStay DEF ClientInv
<1>2. AttemptsOK'
  BY <1>1 DEF ClientInv, AttemptsOK
<1>3. \A q \in requests' : RequestOK(q)'
  BY RequestStays DEF ClientInv, FlightsOK
<1>4. \A q \in requests' \cup serving' : LiveOK(q)'
  BY DEF ClientInv, FlightsOK, LiveOK
<1>5. FlightsOK'
  BY <1>3, <1>4 DEF ClientInv, FlightsOK
<1>6. PagesOK'
  BY PagesStay DEF ClientInv
<1> QED BY <1>2, <1>5, <1>6 DEF ClientInv

LEMMA StateSet ==
  ASSUME ClientInv, NEW id \in DOMAIN rows, NEW state \in {"submitting", "submitted"},
         rows[id].state = "submitted" => state = "submitted", ~ Locked(id),
         rows' = [rows EXCEPT ![id].state = state], UNCHANGED <<lastId, serving>>
  PROVE  RowsOK' /\ Grown /\ ServingOK' /\ rows'[id].state = state /\ Offset(id)' = Offset(id)
         /\ DOMAIN rows' = DOMAIN rows
<1>1. rows[id] \in UploadRow /\ RowOK(id)
  BY DEF ClientInv, RowsOK, RowOK
<1>2. /\ DOMAIN rows' = DOMAIN rows /\ rows'[id] = [rows[id] EXCEPT !.state = state]
      /\ \A i \in DOMAIN rows \ {id} : rows'[i] = rows[i]
  OBVIOUS
<1>3. /\ rows'[id].data = rows[id].data /\ rows'[id].file = rows[id].file /\ rows'[id].state = state
      /\ rows'[id] \in UploadRow
  BY <1>1, <1>2 DEF UploadRow
<1>4. \A i \in DOMAIN rows : rows'[i].data = rows[i].data /\ rows'[i].file = rows[i].file
                             /\ Offset(i)' = Offset(i)
  BY <1>2, <1>3 DEF Offset
<1>5. \A i \in DOMAIN rows : RowOK(i)'
  BY <1>2, <1>3, <1>4 DEF ClientInv, RowsOK, RowOK
<1>6. OneSessionPerFile'
  <2>1. \A i \in DOMAIN rows : rows'[i].state # "submitted" => rows[i].state # "submitted"
    BY <1>2, <1>3
  <2>2. OneSessionPerFile
    BY DEF ClientInv, RowsOK
  <2> QED BY <1>2, <1>4, <2>1, <2>2 DEF OneSessionPerFile
<1>7. RowsOK'
  BY <1>2, <1>5, <1>6 DEF ClientInv, RowsOK
<1>8. Grown
  <2>1. lastId \in Nat /\ \A i \in DOMAIN rows : Offset(i) \in Nat
    BY ClientAssumption DEF ClientInv, RowsOK, RowOK
  <2>2. lastId <= lastId /\ \A i \in DOMAIN rows : Offset(i) <= Offset(i)
    BY <2>1
  <2> QED BY <1>2, <1>3, <1>4, <2>1, <2>2 DEF Grown
<1>9. ServingOK'
  <2>1. \A q \in serving' : q.id \in DOMAIN rows' /\ rows'[q.id] = rows[q.id]
    BY <1>2 DEF ClientInv, ServingOK, Locked
  <2> QED BY <1>7, <1>8, <2>1, ServingStays DEF ClientInv
<1> QED BY <1>2, <1>3, <1>4, <1>7, <1>8, <1>9

LEMMA ServeCompleteKeeps ==
  ASSUME ClientInv, NEW r \in requests, ServeComplete(r)
  PROVE  ClientInv'
<1>1. r.kind = "complete" /\ UNCHANGED <<lastId, serving>>
  BY DEF ServeComplete
<1>2. CASE (Give(r, Fatal) \/ Give(r, Refused)) /\ UNCHANGED rows
  BY <1>1, <1>2, RefusalKeeps
<1>3. ASSUME NEW state \in {"submitting", "submitted"}, r.id \in DOMAIN rows, ~ Locked(r.id),
             Offset(r.id) = Size, rows[r.id].state = "submitted" => state = "submitted",
             rows' = [rows EXCEPT ![r.id].state = state], Give(r, View(r.id, rows'[r.id]))
      PROVE  ClientInv'
  <2> PICK id, a : id = r.id /\ a = View(r.id, rows'[r.id])
    OBVIOUS
  <2>1. RowsOK' /\ Grown /\ ServingOK' /\ rows'[id].state = state /\ Offset(id)' = Offset(id)
        /\ DOMAIN rows' = DOMAIN rows
    BY <1>1, <1>3, StateSet
  <2>2. Finished(id)'
    BY <1>3, <2>1 DEF Finished
  <2>3. id \in DOMAIN rows' /\ attempt' = attempt /\ tab' = tab
    BY <1>3, <2>1 DEF Give
  <2>4. r.live => AnswerOK(View(id, rows[id]), attempt[r.by])'
    BY <1>1, <2>1, <2>2, <2>3, ViewAnswers
  <2>5. r.live => AnswerOK(a, attempt[r.by])'
    BY <2>4 DEF AnswerOK
  <2>6. r.live \in BOOLEAN /\ (~ r.live \/ r \notin serving')
    BY <1>1, NotServed DEF ClientInv, FlightsOK, RequestOK, Request
  <2> QED BY <1>1, <1>3, <2>1, <2>5, <2>6, GivenKeeps
<1> QED BY <1>2, <1>3 DEF ServeComplete

LEMMA ServeRequestKeeps ==
  ASSUME ClientInv, NEW r \in requests, ServeRequest(r)
  PROVE  ClientInv'
<1>1. CASE ServeList(r)
  <2>1. r.kind = "list" /\ UNCHANGED <<rows, lastId, serving>>
    BY <1>1 DEF ServeList
  <2> QED BY <1>1, <2>1, RefusalKeeps DEF ServeList
<1> QED BY <1>1, ServeOpenKeeps, ServeChunkKeeps, ServeCompleteKeeps DEF ServeRequest

LEMMA MaintenanceKeeps ==
  ASSUME ClientInv, NEW id \in DOMAIN rows, Confirm(id) \/ RemoveSession(id)
  PROVE  ClientInv'
<1>1. CASE Confirm(id)
  <2>1. RowsOK' /\ Grown /\ ServingOK'
    BY <1>1, StateSet DEF Confirm
  <2> QED BY <1>1, <2>1, RowsOnly DEF Confirm
<1>2. CASE RemoveSession(id)
  <2>1. /\ DOMAIN rows' = DOMAIN rows \ {id} /\ \A i \in DOMAIN rows' : rows'[i] = rows[i]
        /\ UNCHANGED <<lastId, serving, requests, answers, attempt, tab>>
    BY <1>2 DEF RemoveSession
  <2>2. \A i \in DOMAIN rows' : Offset(i)' = Offset(i)
    BY <2>1 DEF Offset
  <2>3. RowsOK'
    <3>1. \A i \in DOMAIN rows' : RowOK(i)'
      BY <2>1, <2>2 DEF ClientInv, RowsOK, RowOK
    <3>2. OneSessionPerFile'
      BY <2>1 DEF ClientInv, RowsOK, OneSessionPerFile
    <3> QED BY <2>1, <3>1, <3>2 DEF ClientInv, RowsOK
  <2>4. Grown
    <3>1. lastId \in Nat /\ \A i \in DOMAIN rows : Offset(i) \in Nat
      BY ClientAssumption DEF ClientInv, RowsOK, RowOK
    <3>2. lastId <= lastId /\ \A i \in DOMAIN rows : Offset(i) <= Offset(i)
      BY <3>1
    <3> QED BY <2>1, <2>2, <3>1, <3>2 DEF Grown
  <2>5. ServingOK'
    <3>1. \A q \in serving' : q.id \in DOMAIN rows' /\ rows'[q.id] = rows[q.id]
      BY <1>2, <2>1 DEF ClientInv, ServingOK, Locked, RemoveSession
    <3> QED BY <2>1, <2>3, <2>4, <3>1, ServingStays DEF ClientInv
  <2> QED BY <2>1, <2>3, <2>4, <2>5, RowsOnly
<1> QED BY <1>1, <1>2

------------------------------------------------------------------------------
(* The steps of the attempts and their pages.                              *)

LEMMA NothingWaits ==
  ASSUME ClientInv, NEW k \in Attempts, attempt[k].awaits \notin CallKinds \/ answers[k] # NoAnswer
  PROVE  \A r \in requests \cup serving : r.live => r.by # k
BY DEF ClientInv, FlightsOK, ServingOK, LiveOK, RequestOK, Request

LEMMA GoesKeeps ==
  ASSUME ClientInv, NEW k \in Attempts, NEW new, NEW t \in Tabs, NEW shown, Goes(k, new, t, shown),
         AttemptOK(new), new.awaits = "chunk" => new.offset < Size,
         attempt[k] = NoAttempt \/ attempt[k].tab = t, PageOK(t, shown)',
         \A r \in requests \cup serving : r.live => r.by # k
  PROVE  ClientInv'
<1> PICK rec : rec = [kind |-> new.awaits, by |-> k, id |-> new.id, file |-> new.file,
                      offset |-> new.offset, n |-> Min({new.bytes, Size - new.offset}), live |-> TRUE]
  OBVIOUS
<1>1. /\ attempt' = [attempt EXCEPT ![k] = new] /\ answers' = [answers EXCEPT ![k] = NoAnswer]
      /\ tab' = [tab EXCEPT ![t] = shown]
      /\ UNCHANGED <<rows, lastId, serving>>
      /\ requests' \subseteq requests \cup {rec}
      /\ new.awaits \notin CallKinds => requests' \subseteq requests
  BY DEF Goes
<1>2. RowsOK' /\ Grown
  BY <1>1, SameRows DEF ClientInv
<1>3. ServingOK'
  <2>1. \A q \in serving' : q.id \in DOMAIN rows' /\ rows'[q.id] = rows[q.id]
    BY <1>1 DEF ClientInv, ServingOK
  <2> QED BY <1>1, <1>2, <2>1, ServingStays DEF ClientInv
<1>4. new \in Attempt \cup {NoAttempt} /\ Size \in Nat /\ ChunkBytes \in Nat
  BY ClientAssumption DEF AttemptOK
<1>5. AttemptsOK'
  <2>1. /\ attempt' \in [Attempts -> Attempt \cup {NoAttempt}]
        /\ answers' = [s \in Attempts |-> answers'[s]]
    BY <1>1, <1>4 DEF ClientInv, AttemptsOK
  <2>2. AttemptOK(attempt[k])' /\ AnswerOK(answers[k], attempt[k])'
    <3>1. attempt'[k] = new /\ answers'[k] = NoAnswer
      BY <1>1 DEF ClientInv, AttemptsOK
    <3>2. AttemptOK(attempt[k])'
      BY <1>1, <3>1 DEF AttemptOK, Behind, Known, Finished, Offset
    <3> QED BY <3>1, <3>2 DEF AnswerOK
  <2>3. ASSUME NEW s \in Attempts \ {k} PROVE AttemptOK(attempt[s])' /\ AnswerOK(answers[s], attempt[s])'
    <3>1. attempt'[s] = attempt[s] /\ answers'[s] = answers[s]
      BY <1>1 DEF ClientInv, AttemptsOK
    <3> QED BY <1>2, <3>1, AttemptsStay DEF ClientInv
  <2> QED BY <2>1, <2>2, <2>3 DEF AttemptsOK
<1>6. ASSUME new.awaits \in CallKinds PROVE RequestOK(rec)
  <2>0. new \in Attempt
    BY <1>4, <1>6 DEF NoAttempt, CallKinds
  <2>1. new.bytes \in 1..ChunkBytes /\ new.offset \in 0..Size /\ new.id \in UploadIds \cup {NoId}
        /\ new.file \in Files
    BY <2>0 DEF Attempt
  <2>2. new.bytes \in Nat /\ new.bytes >= 1 /\ new.bytes <= ChunkBytes
        /\ Size - new.offset \in Nat /\ new.offset \in Nat
    BY <1>4, <2>1
  <2> PICK n : n = Min({new.bytes, Size - new.offset})
    OBVIOUS
  <2>3. n = IF new.bytes <= Size - new.offset THEN new.bytes ELSE Size - new.offset
    BY <2>2, MinTwo
  <2>4. n \in Nat /\ n <= ChunkBytes /\ new.offset + n <= Size /\ (new.offset < Size => n >= 1)
    <3>1. \A b, c, s, o \in Nat : \A i \in Int :
            b >= 1 /\ b <= c /\ s - o >= 0 /\ i = (IF b <= s - o THEN b ELSE s - o)
            => i \in Nat /\ i <= c /\ o + i <= s /\ (o < s => i >= 1)
      OBVIOUS
    <3>2. Size - new.offset >= 0
      BY <2>2
    <3>3. n \in Nat
      <4>1. CASE new.bytes <= Size - new.offset
        BY ONLY <2>2, <2>3, <4>1
      <4>2. CASE ~ new.bytes <= Size - new.offset
        BY ONLY <2>2, <2>3, <4>2
      <4> QED BY <4>1, <4>2
    <3>4. n \in Int
      BY ONLY <3>3
    <3> QED BY ONLY <1>4, <2>2, <2>3, <3>1, <3>2, <3>4
  <2>5. rec \in Request
    BY <1>6, <2>1, <2>4 DEF Request
  <2>6. new.awaits = "chunk" => Piece(rec)
    BY <2>4 DEF Piece
  <2>7. new.awaits \in {"chunk", "sync", "complete"} => Known(rec.id, rec.file)
    BY <2>0, AttemptIsReal DEF AttemptOK
  <2> QED BY <2>5, <2>6, <2>7 DEF RequestOK
<1>7. FlightsOK'
  <2>1. \A q \in requests' : RequestOK(q)'
    <3>1. \A q \in requests' : RequestOK(q)
      BY <1>1, <1>6 DEF ClientInv, FlightsOK
    <3> QED BY <1>2, <3>1, RequestStays DEF ClientInv
  <2>2. ASSUME NEW q \in requests' \cup serving' PROVE LiveOK(q)'
    <3>1. CASE q = rec
      BY <1>1, <3>1 DEF LiveOK, ClientInv, AttemptsOK
    <3>2. CASE q # rec
      <4>1. q \in requests \cup serving /\ LiveOK(q) /\ (q.live => q.by # k)
        BY <1>1, <2>2, <3>2 DEF ClientInv, FlightsOK
      <4> QED BY <1>1, <4>1 DEF LiveOK
    <3> QED BY <3>1, <3>2
  <2>3. rec.live /\ rec.by = k
    OBVIOUS
  <2>4. ASSUME NEW q \in requests' \cup serving', NEW s \in requests' \cup serving',
               q.live, s.live, q.by = s.by
        PROVE  q = s
    <3>1. ASSUME NEW x \in requests' \cup serving', x.live, x # rec
          PROVE  x \in requests \cup serving /\ x.by # k
      BY <1>1, <3>1 DEF ClientInv, FlightsOK
    <3>2. CASE q = rec \/ s = rec
      BY ONLY <2>3, <2>4, <3>1, <3>2
    <3>3. CASE q # rec /\ s # rec
      <4>1. q \in requests \cup serving /\ s \in requests \cup serving
        BY <2>4, <3>1, <3>3
      <4> QED BY <2>4, <4>1 DEF ClientInv, FlightsOK
    <3> QED BY <3>2, <3>3
  <2>5. \A q \in requests' \cap serving' : ~ q.live
    BY <1>1, <2>3 DEF ClientInv, FlightsOK
  <2> QED BY <2>1, <2>2, <2>4, <2>5 DEF FlightsOK
<1>8. PagesOK'
  <2>1. \A s \in Attempts : \/ attempt'[s] = attempt[s] \/ attempt[s] = NoAttempt
                            \/ attempt[s].tab = t
    BY <1>1 DEF ClientInv, AttemptsOK
  <2> QED BY <1>1, <1>2, <2>1, PagesKeep DEF ClientInv
<1> QED BY <1>2, <1>3, <1>5, <1>7, <1>8 DEF ClientInv

\* An attempt of a page stays one of that page; a piece is asked for while one is missing.
GoesOn(w, new) ==
  /\ AttemptOK(new) /\ (new.awaits = "chunk" => new.offset < Size)
  /\ new = NoAttempt \/ new.tab = w.tab

LEMMA EndOK == \A w : GoesOn(w, NoAttempt) /\ NoAttempt.awaits = "none"
BY DEF GoesOn, AttemptOK, NoAttempt

LEMMA ContinueOK ==
  ASSUME NEW w \in Attempt, Behind(w.id, w.offset), Known(w.id, w.file)
  PROVE  GoesOn(w, Continue(w)) /\ Continue(w).awaits \in {"none", "chunk", "complete"}
<1>1. CASE w.aborted
  BY <1>1, EndOK DEF Continue
<1>2. CASE ~ w.aborted /\ w.state = "uploading" /\ w.offset < Size
  <2> PICK v : v = [w EXCEPT !.awaits = "chunk"]
    OBVIOUS
  <2>1. Continue(w) = v
    BY <1>2 DEF Continue
  <2>2. v \in Attempt /\ v.id = w.id /\ v.offset = w.offset /\ v.file = w.file /\ v.tab = w.tab
        /\ v.awaits = "chunk"
    BY DEF Attempt, Awaits, CallKinds
  <2> QED BY <1>2, <2>1, <2>2 DEF GoesOn, AttemptOK
<1>3. CASE ~ w.aborted /\ ~ (w.state = "uploading" /\ w.offset < Size)
  <2> PICK v : v = [w EXCEPT !.awaits = "complete"]
    OBVIOUS
  <2>1. Continue(w) = v
    BY <1>3 DEF Continue
  <2>2. v \in Attempt /\ v.id = w.id /\ v.offset = w.offset /\ v.file = w.file /\ v.tab = w.tab
        /\ v.awaits = "complete"
    BY DEF Attempt, Awaits, CallKinds
  <2> QED BY <2>1, <2>2 DEF GoesOn, AttemptOK
<1> QED BY <1>1, <1>2, <1>3

\* What a good answer leaves of the attempt.
LEMMA LearnsOK ==
  ASSUME NEW w \in Attempt, NEW a, AnswerOK(a, w), a.kind = "ok"
  PROVE  /\ Learns(w, a) \in Attempt /\ Behind(a.id, a.offset) /\ Known(a.id, a.file)
         /\ Learns(w, a).id = a.id /\ Learns(w, a).offset = a.offset /\ Learns(w, a).file = w.file
         /\ Learns(w, a).tab = w.tab
         /\ w.awaits \in {"chunk", "sync", "complete"} => a.id = w.id /\ a.file = w.file
         /\ w.awaits = "complete" => Finished(a.id)
<1>1. /\ a.id \in UploadIds /\ a.state \in States /\ a.offset \in 0..Size
      /\ Known(a.id, a.file) /\ Behind(a.id, a.offset)
      /\ w.awaits \in {"chunk", "sync", "complete"} => a.id = w.id /\ a.file = w.file
      /\ w.awaits = "complete" => Finished(a.id)
  BY Kinds DEF AnswerOK
<1>2. Learns(w, a) \in Attempt
  BY <1>1 DEF Learns, Attempt, States
<1> QED BY <1>1, <1>2 DEF Learns, Attempt

LEMMA ReactionOK ==
  ASSUME NEW w, AttemptOK(w), NEW a, AnswerOK(a, w), a # NoAnswer, NEW new \in Reactions(w, a)
  PROVE  /\ GoesOn(w, new) /\ new.awaits \in {"none", "chunk", "delay", "complete", "list"}
         /\ new.awaits = "list" => w.awaits = "complete" /\ a.kind = "ok"
<1>1. w \in Attempt /\ Behind(w.id, w.offset) /\ w.awaits \in CallKinds
  BY DEF AttemptOK, AnswerOK, NoAttempt, CallKinds
<1>2. CASE w.awaits = "open"
  <2>1. new = Opened(w, a)
    BY <1>2 DEF Reactions
  <2>2. CASE SameFile(w, a)
    <3> PICK v : v = Learns(w, a)
      OBVIOUS
    <3>1. v \in Attempt /\ Behind(v.id, v.offset) /\ Known(v.id, v.file) /\ v.tab = w.tab
      BY <1>1, <2>2, LearnsOK DEF SameFile
    <3>2. GoesOn(v, new) /\ new.awaits \in {"none", "chunk", "complete"}
      BY <2>1, <2>2, <3>1, ContinueOK DEF Opened
    <3> QED BY <3>1, <3>2 DEF GoesOn
  <2>3. CASE ~ SameFile(w, a)
    BY <2>1, <2>3, EndOK DEF Opened
  <2> QED BY <2>2, <2>3
<1>3. CASE w.awaits = "chunk"
  <2>1. new \in ChunkAnswered(w, a) /\ Known(w.id, w.file)
    BY <1>1, <1>3, AttemptIsReal DEF Reactions, AttemptOK
  <2>2. CASE a.kind = "ok"
    <3>1. PICK p \in Pieces :
            new = Continue([Learns(w, a) EXCEPT !.retries = 0, !.bytes = nextTransferBytes(p)])
      BY <2>1, <2>2 DEF ChunkAnswered
    <3> PICK l : l = Learns(w, a)
      OBVIOUS
    <3> PICK v : v = [l EXCEPT !.retries = 0, !.bytes = nextTransferBytes(p)]
      OBVIOUS
    <3>2. l \in Attempt /\ Behind(l.id, l.offset) /\ l.id = w.id /\ l.file = w.file /\ l.tab = w.tab
      BY <1>1, <1>3, <2>2, LearnsOK
    <3>3. nextTransferBytes(p) \in 1..ChunkBytes
      <4>1. p \in Nat /\ p >= 1 /\ ChunkBytes \in Nat /\ ChunkBytes >= 1
        BY ClientAssumption
      <4> QED BY <4>1, MinTwo DEF nextTransferBytes
    <3>4. 0 \in 0..MaxRetries
      BY ClientAssumption
    <3>5. v \in Attempt /\ v.id = l.id /\ v.offset = l.offset /\ v.file = l.file /\ v.tab = l.tab
      BY <3>2, <3>3, <3>4 DEF Attempt
    <3>6. GoesOn(v, new) /\ new.awaits \in {"none", "chunk", "complete"}
      BY <2>1, <3>1, <3>2, <3>5, ContinueOK
    <3> QED BY <3>2, <3>5, <3>6 DEF GoesOn
  <2>3. CASE a.kind # "ok"
    <3>1. new = Unacknowledged(w, a)
      BY <2>1, <2>3 DEF ChunkAnswered
    <3>2. CASE w.aborted \/ a = Fatal \/ Retries(w) > MaxRetries
      BY <3>1, <3>2, EndOK DEF Unacknowledged
    <3>3. CASE ~ (w.aborted \/ a = Fatal \/ Retries(w) > MaxRetries)
      <4>1. w.retries \in Nat /\ MaxRetries \in Nat
        BY <1>1, ClientAssumption DEF Attempt
      <4>2. Retries(w) \in 0..MaxRetries
        BY <3>3, <4>1 DEF Retries
      <4>3. 1 \in 1..ChunkBytes
        BY ClientAssumption
      <4>4. new = [w EXCEPT !.awaits = "delay", !.retries = Retries(w), !.bytes = 1]
        BY <3>1, <3>3 DEF Unacknowledged
      <4>5. new \in Attempt /\ new.id = w.id /\ new.offset = w.offset /\ new.file = w.file
            /\ new.tab = w.tab /\ new.awaits = "delay"
        BY <1>1, <4>2, <4>3, <4>4 DEF Attempt, Awaits
      <4> QED BY <1>1, <2>1, <4>5 DEF GoesOn, AttemptOK
    <3> QED BY <3>2, <3>3
  <2> QED BY <2>2, <2>3
<1>4. CASE w.awaits = "sync"
  <2>1. new = Synced(w, a) /\ Known(w.id, w.file)
    BY <1>1, <1>4, AttemptIsReal DEF Reactions, AttemptOK
  <2>2. CASE a.kind = "ok"
    <3> PICK v : v = Learns(w, a)
      OBVIOUS
    <3>1. v \in Attempt /\ Behind(v.id, v.offset) /\ Known(v.id, v.file) /\ v.tab = w.tab
      BY <1>1, <1>4, <2>1, <2>2, LearnsOK
    <3>2. new = Continue(v)
      BY <2>1, <2>2, Kinds DEF Synced
    <3>3. GoesOn(v, new) /\ new.awaits \in {"none", "chunk", "complete"}
      BY <3>1, <3>2, ContinueOK
    <3> QED BY <3>1, <3>3 DEF GoesOn
  <2>3. CASE a.kind # "ok" /\ a = Fatal
    BY <2>1, <2>3, EndOK DEF Synced
  <2>4. CASE a.kind # "ok" /\ a # Fatal
    <3>1. new = Continue(w)
      BY <2>1, <2>4 DEF Synced
    <3> QED BY <1>1, <2>1, <3>1, ContinueOK
  <2> QED BY <2>2, <2>3, <2>4
<1>5. CASE w.awaits = "complete"
  <2>1. new = Completed(w, a)
    BY <1>5 DEF Reactions
  <2>2. CASE a.kind = "ok"
    <3> PICK l : l = Learns(w, a)
      OBVIOUS
    <3>1. l \in Attempt /\ Behind(l.id, l.offset) /\ l.tab = w.tab
      BY <1>1, <1>5, <2>2, LearnsOK
    <3>2. new = [l EXCEPT !.awaits = "list", !.retries = 0, !.bytes = 1]
      BY <2>1, <2>2 DEF Completed
    <3>3. 1 \in 1..ChunkBytes /\ 0 \in 0..MaxRetries
      BY ClientAssumption
    <3>4. new \in Attempt /\ new.id = l.id /\ new.offset = l.offset /\ new.awaits = "list"
          /\ new.tab = l.tab
      BY <3>1, <3>2, <3>3 DEF Attempt, Awaits, CallKinds
    <3> QED BY <1>5, <2>2, <3>1, <3>4 DEF GoesOn, AttemptOK
  <2>3. CASE a.kind # "ok"
    BY <2>1, <2>3, EndOK DEF Completed
  <2> QED BY <2>2, <2>3
<1>6. CASE w.awaits = "list"
  <2>1. new = NoAttempt
    BY <1>6 DEF Reactions
  <2> QED BY <2>1, EndOK
<1> QED BY <1>1, <1>2, <1>3, <1>4, <1>5, <1>6 DEF CallKinds

LEMMA PhaseShown ==
  /\ Phase["none"] = "paused" /\ Phase["chunk"] = "uploading" /\ Phase["delay"] = "retrying"
  /\ Phase["complete"] = "submitting" /\ Phase["list"] = "done"
BY DEF Phase

\* What a page shows of an answer is true of the attempt that goes on.
LEMMA ShownOK ==
  ASSUME ClientInv, NEW k \in Attempts, answers[k] # NoAnswer, NEW t \in Tabs, t = attempt[k].tab,
         NEW new \in Reactions(attempt[k], answers[k]),
         attempt' = [attempt EXCEPT ![k] = new], UNCHANGED <<rows, lastId>>,
         NEW shown, shown = Shown(tab[t], k, new)
  PROVE  PageOK(t, shown)'
<1> PICK w, a, old : w = attempt[k] /\ a = answers[k] /\ old = tab[t]
  OBVIOUS
<1>1. AttemptOK(w) /\ AnswerOK(a, w) /\ a # NoAnswer /\ new \in Reactions(w, a) /\ t = w.tab
      /\ PageOK(t, old)
  BY DEF ClientInv, AttemptsOK, PagesOK
<1>2. /\ GoesOn(w, new) /\ new.awaits \in {"none", "chunk", "delay", "complete", "list"}
      /\ new.awaits = "list" => w.awaits = "complete" /\ a.kind = "ok"
  BY <1>1, ReactionOK
<1>3. w \in Attempt
  BY <1>1 DEF AttemptOK, AnswerOK, NoAttempt, CallKinds
<1>4. a.kind = "listed" => w.awaits = "list" /\ new = NoAttempt
  BY <1>1, Kinds DEF AnswerOK, Reactions
<1> PICK said, id, rel :
      /\ said = IF a.kind = "listed" THEN old.phase ELSE Phase[new.awaits]
      /\ id = IF SameFile(w, a) /\ w.awaits # "sync" THEN a.id ELSE old.id
      /\ rel = Released(old, k, new)
  OBVIOUS
<1>5. old \in Tab
  BY <1>1 DEF PageOK
<1>6. /\ rel \in Tab /\ rel.phase = old.phase /\ rel.id = old.id
      /\ rel.control = IF new = NoAttempt /\ old.control = k THEN NoControl ELSE old.control
  BY <1>5 DEF Released, Tab
<1>7. a.kind = "ok" => a.id \in 1..lastId /\ a.id \in UploadIds
  BY <1>1, Kinds DEF AnswerOK, Known
<1>8. said \in Sending \cup {"idle", "paused", "done"} /\ id \in UploadIds \cup {NoId}
      /\ id \in 0..lastId
  <2>1. old.phase \in Sending \cup {"idle", "paused", "done"} /\ old.id \in UploadIds \cup {NoId}
        /\ old.id \in 0..lastId
    BY <1>1, <1>5 DEF Tab, PageOK
  <2>2. said \in Sending \cup {"idle", "paused", "done"}
    BY <1>2, <2>1, PhaseShown DEF Sending
  <2>3. lastId \in Nat
    BY ClientAssumption DEF ClientInv, RowsOK
  <2> QED BY <1>7, <2>1, <2>2, <2>3 DEF SameFile
<1>9. shown = [rel EXCEPT !.phase = said, !.id = id]
  BY <1>6 DEF Shown
<1>10. shown \in Tab /\ shown.phase = said /\ shown.id = id /\ shown.control = rel.control
  BY <1>6, <1>8, <1>9 DEF Tab
<1>11. attempt'[k] = new /\ \A s \in Attempts \ {k} : attempt'[s] = attempt[s]
  BY DEF ClientInv, AttemptsOK
<1>12. shown.phase = "done" => Finished(shown.id)'
  <2>1. Finished(shown.id)' <=> Finished(id)
    BY <1>10 DEF Finished, Offset
  <2> SUFFICES ASSUME said = "done" PROVE Finished(id)
    BY <1>10, <2>1
  <2>2. CASE a.kind = "listed"
    BY <1>1, <2>2 DEF SameFile, PageOK
  <2>3. CASE a.kind # "listed"
    <3>1. new.awaits = "list"
      BY <1>2, <2>3, PhaseShown
    <3>2. a.file = w.file /\ Finished(a.id)
      BY <1>1, <1>2, <1>3, <3>1, LearnsOK
    <3> QED BY <1>2, <3>1, <3>2 DEF SameFile
  <2> QED BY <2>2, <2>3
<1>13. shown.phase \in Sending => \E s \in Attempts : Runs(s)' /\ attempt'[s].tab = t
  <2> SUFFICES ASSUME said \in Sending PROVE \E s \in Attempts : Runs(s)' /\ attempt'[s].tab = t
    BY <1>10
  <2>1. CASE a.kind = "listed"
    <3>1. PICK s \in Attempts : Runs(s) /\ attempt[s].tab = t
      BY <1>1, <2>1 DEF PageOK
    <3>2. s # k
      BY <1>4, <2>1, <3>1 DEF Runs
    <3> QED BY <1>11, <3>1, <3>2 DEF Runs
  <2>2. CASE a.kind # "listed"
    <3>1. new.awaits \notin {"none", "list"}
      BY <1>2, <2>2, PhaseShown DEF Sending
    <3>2. new.tab = t
      BY <1>1, <1>2, <3>1, EndOK DEF GoesOn
    <3> QED BY <1>11, <3>1, <3>2 DEF Runs
  <2> QED BY <2>1, <2>2
<1>14. shown.control # NoControl =>
         shown.control \in Attempts /\ attempt'[shown.control] # NoAttempt
         /\ attempt'[shown.control].tab = t
  <2> SUFFICES ASSUME shown.control # NoControl
               PROVE  shown.control \in Attempts /\ attempt'[shown.control] # NoAttempt
                      /\ attempt'[shown.control].tab = t
    OBVIOUS
  <2>1. shown.control = old.control /\ ~ (new = NoAttempt /\ old.control = k)
    BY <1>6, <1>10
  <2>2. CASE old.control = k
    BY <1>1, <1>2, <1>11, <2>1, <2>2 DEF GoesOn
  <2>3. CASE old.control # k
    BY <1>1, <1>11, <2>1, <2>3 DEF PageOK
  <2> QED BY <2>2, <2>3
<1> QED BY <1>8, <1>10, <1>12, <1>13, <1>14 DEF PageOK

\* What an attempt gives up goes on without it, or is gone.
LEMMA GivenUpKeeps ==
  ASSUME ClientInv, NEW k \in Attempts, GiveUp(k), NEW w, NEW a,
         attempt' = [attempt EXCEPT ![k] = w], answers' = [answers EXCEPT ![k] = a],
         AttemptOK(w), AnswerOK(a, w), PagesOK'
  PROVE  ClientInv'
<1>1. PICK lost \in SUBSET {r \in requests : r.by = k /\ r.live} :
        requests' = GivenUp(k, requests \ lost)
  BY DEF GiveUp
<1>2. serving' = GivenUp(k, serving) /\ UNCHANGED <<rows, lastId>>
  BY DEF GiveUp
<1>3. RowsOK' /\ Grown
  BY <1>2, SameRows DEF ClientInv
<1>4. ASSUME NEW r \in Request
      PROVE  LET s == [r EXCEPT !.live = r.live /\ r.by # k]
             IN  /\ s \in Request /\ s.kind = r.kind /\ s.by = r.by /\ s.id = r.id /\ s.file = r.file
                 /\ s.offset = r.offset /\ s.n = r.n
                 /\ s.live => r.live /\ r.by # k /\ s = r
                 /\ RequestOK(r) => RequestOK(s)
  <2> PICK s : s = [r EXCEPT !.live = r.live /\ r.by # k]
    OBVIOUS
  <2>1. /\ s \in Request /\ s.kind = r.kind /\ s.by = r.by /\ s.id = r.id /\ s.file = r.file
        /\ s.offset = r.offset /\ s.n = r.n /\ s.live = (r.live /\ r.by # k)
    BY DEF Request
  <2>2. s.live => s = r
    BY <2>1 DEF Request
  <2>3. RequestOK(r) => RequestOK(s)
    BY <2>1 DEF RequestOK, Piece
  <2> QED BY <2>1, <2>2, <2>3
<1>5. \A r \in requests \cup serving : r \in Request /\ RequestOK(r)
  BY DEF ClientInv, FlightsOK, ServingOK, RequestOK
\* Whatever is on its way comes from a request that was, and a live one is that request.
<1>6. ASSUME NEW set, set \subseteq requests \cup serving, NEW s \in GivenUp(k, set)
      PROVE  \E r \in set : /\ s.kind = r.kind /\ s.by = r.by /\ s.id = r.id /\ s.file = r.file
                            /\ s.offset = r.offset /\ s.n = r.n
                            /\ s.live => r.live /\ r.by # k /\ s = r
                            /\ RequestOK(s) /\ s = [r EXCEPT !.live = r.live /\ r.by # k]
  <2>1. PICK r \in set : s = [r EXCEPT !.live = r.live /\ r.by # k]
    BY <1>6 DEF GivenUp
  <2>2. r \in Request /\ RequestOK(r)
    BY <1>5, <1>6
  <2> QED BY <1>4, <2>1, <2>2
<1>7. ServingOK'
  <2>1. ASSUME NEW s \in serving'
        PROVE  /\ RequestOK(s)' /\ s.kind = "chunk" /\ s.id \in DOMAIN rows'
               /\ rows'[s.id].state = "uploading" /\ rows'[s.id].file = s.file /\ Offset(s.id)' = s.offset
    <3>1. PICK r \in serving : /\ s.kind = r.kind /\ s.id = r.id /\ s.file = r.file
                               /\ s.offset = r.offset /\ RequestOK(s)
      BY <1>2, <1>6
    <3>2. RequestOK(s)'
      BY <1>3, <3>1, RequestStays DEF ClientInv
    <3> QED BY <1>2, <3>1, <3>2 DEF ClientInv, ServingOK, Offset
  <2>2. ASSUME NEW s1 \in serving', NEW s2 \in serving', s1.id = s2.id PROVE s1 = s2
    <3>1. PICK r1 \in serving : s1.id = r1.id /\ s1 = [r1 EXCEPT !.live = r1.live /\ r1.by # k]
      BY <1>2, <1>6
    <3>2. PICK r2 \in serving : s2.id = r2.id /\ s2 = [r2 EXCEPT !.live = r2.live /\ r2.by # k]
      BY <1>2, <1>6
    <3>3. r1 = r2
      BY <2>2, <3>1, <3>2 DEF ClientInv, ServingOK
    <3> QED BY <3>1, <3>2, <3>3
  <2> QED BY <2>1, <2>2 DEF ServingOK
<1>8. AttemptsOK'
  <2>1. attempt' \in [Attempts -> Attempt \cup {NoAttempt}] /\ answers' = [s \in Attempts |-> answers'[s]]
    BY DEF ClientInv, AttemptsOK, AttemptOK
  <2>2. AttemptOK(attempt[k])' /\ AnswerOK(answers[k], attempt[k])'
    <3>1. attempt'[k] = w /\ answers'[k] = a
      BY DEF ClientInv, AttemptsOK
    <3>2. \A id, f : Known(id, f)' <=> Known(id, f)
      BY <1>2 DEF Known
    <3>3. \A id, n : Behind(id, n)' <=> Behind(id, n)
      BY <1>2 DEF Behind, Offset
    <3>4. \A id : Finished(id)' <=> Finished(id)
      BY <1>2 DEF Finished, Offset
    <3> QED BY <3>1, <3>2, <3>3, <3>4 DEF AttemptOK, AnswerOK
  <2>3. ASSUME NEW s \in Attempts \ {k} PROVE AttemptOK(attempt[s])' /\ AnswerOK(answers[s], attempt[s])'
    <3>1. attempt'[s] = attempt[s] /\ answers'[s] = answers[s]
      BY DEF ClientInv, AttemptsOK
    <3> QED BY <1>3, <3>1, AttemptsStay DEF ClientInv
  <2> QED BY <2>1, <2>2, <2>3 DEF AttemptsOK
<1>9. FlightsOK'
  <2>1. requests' = GivenUp(k, requests \ lost) /\ requests \ lost \subseteq requests \cup serving
    BY <1>1
  <2>2. ASSUME NEW s \in requests' PROVE RequestOK(s)'
    <3>1. RequestOK(s)
      BY <1>6, <2>1
    <3> QED BY <1>3, <3>1, RequestStays DEF ClientInv
  <2>3. ASSUME NEW s \in requests' \cup serving', s.live
        PROVE  /\ s \in requests \cup serving /\ s.live /\ s.by # k
               /\ s \in requests' => s \in requests
               /\ s \in serving' => s \in serving
    <3>1. s \in requests' => s \in requests /\ s.by # k
      BY <1>6, <2>1, <2>3
    <3>2. s \in serving' => s \in serving /\ s.by # k
      BY <1>2, <1>6, <2>3
    <3> QED BY <2>3, <3>1, <3>2
  <2>4. ASSUME NEW s \in requests' \cup serving' PROVE LiveOK(s)'
    <3>1. CASE s.live
      <4>1. s \in requests \cup serving /\ s.by # k
        BY <2>3, <3>1
      <4>2. LiveOK(s) /\ s.by \in Attempts
        BY <1>5, <4>1 DEF ClientInv, FlightsOK, Request
      <4> QED BY <4>1, <4>2 DEF LiveOK, ClientInv, AttemptsOK
    <3> QED BY <3>1 DEF LiveOK
  <2>5. \A q, s \in requests' \cup serving' : q.live /\ s.live /\ q.by = s.by => q = s
    BY <2>3 DEF ClientInv, FlightsOK
  <2>6. \A s \in requests' \cap serving' : ~ s.live
    BY <2>3 DEF ClientInv, FlightsOK
  <2> QED BY <2>2, <2>4, <2>5, <2>6 DEF FlightsOK
<1> QED BY <1>3, <1>7, <1>8, <1>9 DEF ClientInv

LEMMA SelectKeeps ==
  ASSUME ClientInv, NEW t \in Tabs, NEW f \in Files, NEW id \in DOMAIN rows \cup {NoId}, Select(t, f, id)
  PROVE  ClientInv'
<1>1. /\ tab' = [tab EXCEPT ![t].phase = "idle", ![t].file = f, ![t].id = id]
      /\ UNCHANGED <<rows, lastId, serving, requests, answers, attempt>>
  BY DEF Select
<1> PICK old : old = tab[t]
  OBVIOUS
<1> PICK shown : shown = [old EXCEPT !.phase = "idle", !.file = f, !.id = id]
  OBVIOUS
<1>2. PageOK(t, old) /\ old \in Tab /\ tab' = [tab EXCEPT ![t] = shown]
  BY <1>1 DEF ClientInv, PagesOK, PageOK
<1>3. id \in 0..lastId /\ id \in UploadIds \cup {NoId}
  BY ClientAssumption DEF ClientInv, RowsOK, NoId, UploadIds
<1>4. shown \in Tab /\ shown.id = id /\ shown.phase = "idle" /\ shown.control = old.control
  BY <1>2, <1>3 DEF Tab
<1>5. RowsOK' /\ Grown
  BY <1>1, SameRows DEF ClientInv
<1>6. PageOK(t, shown)'
  <2>1. shown.phase \notin Sending /\ shown.phase # "done"
    BY <1>4 DEF Sending
  <2>2. shown.control # NoControl =>
          shown.control \in Attempts /\ attempt[shown.control] # NoAttempt
          /\ attempt[shown.control].tab = t
    BY <1>2, <1>4 DEF PageOK
  <2> QED BY <1>1, <1>3, <1>4, <2>1, <2>2 DEF PageOK
<1>7. PagesOK'
  BY <1>1, <1>2, <1>5, <1>6, PagesKeep DEF ClientInv
<1>8. ServingOK' /\ AttemptsOK' /\ FlightsOK'
  BY <1>1 DEF ClientInv, ServingOK, AttemptsOK, FlightsOK, AttemptOK, AnswerOK, RequestOK, LiveOK,
     Known, Behind, Finished, Offset
<1> QED BY <1>5, <1>7, <1>8 DEF ClientInv

LEMMA StartKeeps ==
  ASSUME ClientInv, NEW t \in Tabs, start(t)
  PROVE  ClientInv'
<1> PICK old : old = tab[t]
  OBVIOUS
<1>1. PICK k \in Attempts : /\ attempt[k] = NoAttempt
                            /\ Goes(k, Begun(t), t, [old EXCEPT !.phase = "checking", !.control = k])
  BY DEF start
<1> PICK new, shown : new = Begun(t) /\ shown = [old EXCEPT !.phase = "checking", !.control = k]
  OBVIOUS
<1>2. PageOK(t, old) /\ old \in Tab
  BY DEF ClientInv, PagesOK, PageOK
<1>3. /\ new.tab = t /\ new.awaits = "open" /\ new.id = old.id /\ new.offset = 0
  BY DEF Begun
<1>4. new \in Attempt
  <2>1. 0 \in 0..Size /\ 1 \in 1..ChunkBytes /\ 0 \in 0..MaxRetries
    BY ClientAssumption
  <2>2. old.id \in UploadIds \cup {NoId} /\ old.file \in Files
    BY <1>2 DEF Tab
  <2> QED BY <2>1, <2>2 DEF Begun, Attempt, Awaits, CallKinds
<1>5. AttemptOK(new)
  <2>1. old.id \in 0..lastId /\ \A id \in DOMAIN rows : Offset(id) \in Nat
    BY <1>2, ClientAssumption DEF PageOK, ClientInv, RowsOK, RowOK
  <2>2. \A id \in DOMAIN rows : 0 <= Offset(id)
    BY <2>1
  <2> QED BY <1>3, <1>4, <2>1, <2>2 DEF AttemptOK, Behind
<1>6. shown \in Tab /\ shown.phase = "checking" /\ shown.id = old.id /\ shown.control = k
  BY <1>2 DEF Tab, Sending
<1>7. /\ attempt'[k] = new /\ UNCHANGED <<rows, lastId>>
  BY <1>1 DEF Goes, ClientInv, AttemptsOK
<1>8. PageOK(t, shown)'
  <2>1. shown.id \in 0..lastId' /\ shown.phase # "done"
    BY <1>2, <1>6, <1>7 DEF PageOK
  <2>2. Runs(k)' /\ attempt'[k].tab = t
    BY <1>3, <1>7 DEF Runs
  <2>3. attempt'[k] # NoAttempt
    BY <1>4, <1>7, AttemptIsReal
  <2> QED BY <1>6, <2>1, <2>2, <2>3 DEF PageOK
<1>9. attempt[k].awaits \notin CallKinds
  BY <1>1 DEF NoAttempt, CallKinds
<1>10. Goes(k, new, t, shown)
  BY <1>1
<1> QED BY <1>1, <1>3, <1>5, <1>8, <1>9, <1>10, GoesKeeps, NothingWaits

LEMMA ReceiveKeeps ==
  ASSUME ClientInv, NEW k \in Attempts, Receive(k)
  PROVE  ClientInv'
<1> PICK t : t = attempt[k].tab
  OBVIOUS
<1>1. answers[k] # NoAnswer
  BY DEF Receive
<1>2. PICK new \in Reactions(attempt[k], answers[k]) : Goes(k, new, t, Shown(tab[t], k, new))
  BY DEF Receive
<1> PICK shown : shown = Shown(tab[t], k, new)
  OBVIOUS
<1>3. AttemptOK(attempt[k]) /\ AnswerOK(answers[k], attempt[k])
  BY DEF ClientInv, AttemptsOK
<1>4. t \in Tabs
  BY <1>1, <1>3 DEF AttemptOK, AnswerOK, NoAttempt, CallKinds, Attempt
<1>5. AttemptOK(new) /\ (new.awaits = "chunk" => new.offset < Size)
  BY <1>1, <1>3, ReactionOK DEF GoesOn
<1>6. PageOK(t, shown)'
  <2>1. attempt' = [attempt EXCEPT ![k] = new] /\ UNCHANGED <<rows, lastId>>
    BY <1>2 DEF Goes
  <2> QED BY <1>1, <1>4, <2>1, ShownOK
<1>7. Goes(k, new, t, shown)
  BY <1>2
<1> QED BY <1>1, <1>4, <1>5, <1>6, <1>7, GoesKeeps, NothingWaits

LEMMA ResyncKeeps ==
  ASSUME ClientInv, NEW k \in Attempts, Resync(k)
  PROVE  ClientInv'
<1> PICK w : w = attempt[k]
  OBVIOUS
<1> PICK new, t, shown : new = [w EXCEPT !.awaits = "sync"] /\ t = w.tab /\ shown = tab[t]
  OBVIOUS
<1>1. w.awaits = "delay" /\ Goes(k, new, t, shown) /\ AttemptOK(w)
  BY DEF Resync, ClientInv, AttemptsOK
<1>2. w \in Attempt /\ w # NoAttempt /\ t \in Tabs
  BY <1>1 DEF AttemptOK, NoAttempt, Attempt
<1>3. new \in Attempt /\ new.id = w.id /\ new.offset = w.offset /\ new.awaits = "sync"
      /\ new.file = w.file /\ new.tab = t
  BY <1>2 DEF Attempt, Awaits, CallKinds
<1>4. AttemptOK(new)
  BY <1>1, <1>2, <1>3 DEF AttemptOK
<1>5. PageOK(t, shown)'
  <2>1. /\ attempt'[k] = new /\ \A s \in Attempts \ {k} : attempt'[s] = attempt[s]
        /\ UNCHANGED <<rows, lastId>>
    BY <1>1 DEF Goes, ClientInv, AttemptsOK
  <2>2. new # NoAttempt /\ Runs(k)'
    BY <1>3, <2>1, AttemptIsReal DEF Runs
  <2>3. \A s \in Attempts : \/ attempt'[s] = attempt[s]
                            \/ attempt[s] # NoAttempt /\ attempt'[s] # NoAttempt /\ Runs(s)'
                               /\ attempt'[s].tab = attempt[s].tab
    BY <1>2, <1>3, <2>1, <2>2
  <2>4. RowsOK' /\ Grown
    BY <2>1, SameRows DEF ClientInv
  <2> QED BY <1>2, <2>3, <2>4, PageStays DEF ClientInv
<1>6. w.awaits \notin CallKinds
  BY <1>1 DEF CallKinds
<1> QED BY <1>1, <1>2, <1>3, <1>4, <1>5, <1>6, GoesKeeps, NothingWaits

LEMMA LoseKeeps ==
  ASSUME ClientInv, NEW k \in Attempts, Lose(k)
  PROVE  ClientInv'
<1>1. /\ attempt' = [attempt EXCEPT ![k] = attempt[k]] /\ answers' = [answers EXCEPT ![k] = Refused]
      /\ GiveUp(k) /\ UNCHANGED <<attempt, tab, rows, lastId>>
  BY DEF Lose, GiveUp, ClientInv, AttemptsOK
<1>2. AttemptOK(attempt[k]) /\ AnswerOK(Refused, attempt[k])
  BY DEF Lose, AnswerOK, ClientInv, AttemptsOK
<1>3. PagesOK'
  BY <1>1, SameRows, PagesStay DEF ClientInv
<1> QED BY <1>1, <1>2, <1>3, GivenUpKeeps

LEMMA PauseKeeps ==
  ASSUME ClientInv, NEW t \in Tabs, Pause(t)
  PROVE  ClientInv'
<1> PICK k, old : k = tab[t].control /\ old = tab[t]
  OBVIOUS
<1>1. PageOK(t, old) /\ old \in Tab /\ k # NoControl
  BY DEF Pause, ClientInv, PagesOK, PageOK
<1> PICK w : w = attempt[k]
  OBVIOUS
<1>2. k \in Attempts /\ w # NoAttempt /\ w.tab = t
  BY <1>1 DEF PageOK
<1>3. w \in Attempt /\ AttemptOK(w) /\ AnswerOK(answers[k], w)
  BY <1>2 DEF ClientInv, AttemptsOK, AttemptOK
<1>4. CASE w.awaits \in {"chunk", "delay"}
  <2> PICK shown : shown = [old EXCEPT !.phase = "paused", !.control = NoControl]
    OBVIOUS
  <2>1. /\ attempt' = [attempt EXCEPT ![k] = NoAttempt] /\ answers' = [answers EXCEPT ![k] = NoAnswer]
        /\ tab' = [tab EXCEPT ![t].phase = "paused", ![t].control = NoControl] /\ GiveUp(k)
    BY <1>4 DEF Pause
  <2>2. tab' = [tab EXCEPT ![t] = shown]
    BY <2>1 DEF ClientInv, PagesOK
  <2>3. RowsOK' /\ Grown /\ UNCHANGED <<rows, lastId>>
    BY <2>1, SameRows DEF GiveUp, ClientInv
  <2>4. shown \in Tab /\ shown.phase = "paused" /\ shown.control = NoControl /\ shown.id = old.id
    BY <1>1 DEF Tab
  <2>5. PageOK(t, shown)'
    BY <1>1, <2>3, <2>4 DEF PageOK, Sending
  <2>6. \A s \in Attempts : attempt'[s] = attempt[s] \/ attempt[s] = NoAttempt \/ attempt[s].tab = t
    BY <1>2, <2>1 DEF ClientInv, AttemptsOK
  <2>7. PagesOK'
    BY <2>2, <2>3, <2>5, <2>6, PagesKeep DEF ClientInv
  <2>8. AttemptOK(NoAttempt) /\ AnswerOK(NoAnswer, NoAttempt)
    BY DEF AttemptOK, AnswerOK
  <2> QED BY <1>2, <2>1, <2>7, <2>8, GivenUpKeeps
<1>5. CASE w.awaits \notin {"chunk", "delay"}
  <2> PICK new : new = [w EXCEPT !.aborted = TRUE]
    OBVIOUS
  <2>1. new \in Attempt /\ new.id = w.id /\ new.offset = w.offset /\ new.file = w.file
        /\ new.awaits = w.awaits /\ new.tab = w.tab
    BY <1>3 DEF Attempt
  <2>2. /\ attempt' = [attempt EXCEPT ![k].aborted = TRUE]
        /\ UNCHANGED <<rows, lastId, serving, requests, answers, tab>>
    BY <1>5 DEF Pause
  <2>3. attempt' = [attempt EXCEPT ![k] = new]
    BY <2>2
  <2>4. AttemptOK(new) /\ AnswerOK(answers[k], new)
    BY <1>2, <1>3, <2>1 DEF AttemptOK, AnswerOK
  <2>5. RowsOK' /\ Grown
    BY <2>2, SameRows DEF ClientInv
  <2>6. ServingOK'
    <3>1. \A q \in serving' : q.id \in DOMAIN rows' /\ rows'[q.id] = rows[q.id]
      BY <2>2 DEF ClientInv, ServingOK
    <3> QED BY <2>2, <2>5, <3>1, ServingStays DEF ClientInv
  <2>7. /\ \A id, f : Known(id, f)' <=> Known(id, f)
        /\ \A id, n : Behind(id, n)' <=> Behind(id, n)
        /\ \A id : Finished(id)' <=> Finished(id)
    BY <2>2 DEF Known, Behind, Finished, Offset
  <2>8. attempt'[k] = new /\ \A s \in Attempts \ {k} : attempt'[s] = attempt[s]
    BY <1>2, <2>3 DEF ClientInv, AttemptsOK
  <2>9. AttemptsOK'
    <3>1. attempt' \in [Attempts -> Attempt \cup {NoAttempt}] /\ answers' = [s \in Attempts |-> answers'[s]]
      BY <2>1, <2>2, <2>3 DEF ClientInv, AttemptsOK
    <3>2. ASSUME NEW s \in Attempts PROVE AttemptOK(attempt[s])' /\ AnswerOK(answers[s], attempt[s])'
      <4>1. AttemptOK(attempt'[s]) /\ AnswerOK(answers[s], attempt'[s])
        BY <2>4, <2>8 DEF ClientInv, AttemptsOK
      <4> QED BY <2>2, <2>7, <4>1 DEF AttemptOK, AnswerOK
    <3> QED BY <3>1, <3>2 DEF AttemptsOK
  <2>10. FlightsOK'
    <3>1. \A s \in Attempts : attempt'[s].id = attempt[s].id /\ attempt'[s].awaits = attempt[s].awaits
      BY <2>1, <2>8
    <3>2. \A q \in requests \cup serving : LiveOK(q) /\ q.by \in Attempts
      BY DEF ClientInv, FlightsOK, ServingOK, RequestOK, Request
    <3>3. \A q \in requests' \cup serving' : LiveOK(q)'
      BY <2>2, <3>1, <3>2 DEF LiveOK
    <3>4. \A q \in requests' : RequestOK(q)'
      BY <2>2, <2>5, RequestStays DEF ClientInv, FlightsOK
    <3> QED BY <2>2, <3>3, <3>4 DEF ClientInv, FlightsOK
  <2>11. PagesOK'
    <3>1. \A s \in Attempts : attempt'[s] = attempt[s] \/ attempt[s] = NoAttempt \/ attempt[s].tab = t
      BY <1>2, <2>8
    <3>2. PageOK(t, old)'
      <4>1. /\ old.id \in 0..lastId' /\ (old.phase = "done" => Finished(old.id)')
        BY <1>1, <2>2, <2>7 DEF PageOK
      <4>2. old.phase \in Sending => \E s \in Attempts : Runs(s)' /\ attempt'[s].tab = t
        <5>1. \A s \in Attempts : Runs(s) /\ attempt[s].tab = t => Runs(s)' /\ attempt'[s].tab = t
          BY <1>2, <2>1, <2>8 DEF Runs
        <5> QED BY <1>1, <5>1 DEF PageOK
      <4>3. old.control # NoControl => old.control \in Attempts /\ attempt'[old.control] # NoAttempt
                                       /\ attempt'[old.control].tab = t
        BY <1>2, <2>1, <2>8, AttemptIsReal
      <4> QED BY <1>1, <4>1, <4>2, <4>3 DEF PageOK
    <3>3. tab' = [tab EXCEPT ![t] = old]
      BY <2>2 DEF ClientInv, PagesOK
    <3> QED BY <2>5, <3>1, <3>2, <3>3, PagesKeep DEF ClientInv
  <2> QED BY <2>5, <2>6, <2>9, <2>10, <2>11 DEF ClientInv
<1> QED BY <1>4, <1>5

\* The upload page and the portal under lost and late requests, whichever attempts of
\* whichever pages overlap: what the portal holds of a file is its beginning, a file has one
\* unsubmitted session, no piece is refused for its length, no attempt is ahead of what is
\* stored, and a page says done only of what is all there and sending only while it sends.
THEOREM UploadsRight == ClientSpec => [](UploadInv /\ NeverAhead /\ SendingIsTrue)
<1>1. ASSUME ClientInv, [ClientNext]_clientVars PROVE ClientInv'
  <2>1. CASE UNCHANGED clientVars
    BY <1>1, <2>1 DEF clientVars, ClientInv, RowsOK, RowOK, ServingOK, AttemptsOK, FlightsOK, AttemptOK,
       PagesOK, PageOK, Runs, AnswerOK, RequestOK, LiveOK, Known, Behind, Finished, Offset,
       OneSessionPerFile
  <2>2. CASE \E t \in Tabs :
               \/ start(t) \/ Pause(t)
               \/ \E f \in Files, id \in DOMAIN rows \cup {NoId} : Select(t, f, id)
    BY <1>1, <2>2, StartKeeps, PauseKeeps, SelectKeeps
  <2>3. CASE \E k \in Attempts : Receive(k) \/ Resync(k) \/ Lose(k)
    BY <1>1, <2>3, ReceiveKeeps, ResyncKeeps, LoseKeeps
  <2>4. CASE \E r \in requests : ServeRequest(r)
    BY <1>1, <2>4, ServeRequestKeeps
  <2>5. CASE \E r \in serving : EndChunk(r)
    BY <1>1, <2>5, EndChunkKeeps
  <2>6. CASE \E id \in DOMAIN rows : Confirm(id) \/ RemoveSession(id)
    BY <1>1, <2>6, MaintenanceKeeps
  <2> QED BY <1>1, <2>1, <2>2, <2>3, <2>4, <2>5, <2>6 DEF ClientNext
<1> QED BY <1>1, ClientInitOK, ClientFollows, PTL DEF ClientSpec

------------------------------------------------------------------------------
(* The portal's session with the engine.  While the client's cookie is     *)
(* live, only a call that was sent under an older one can still lead to a  *)
(* login; while it is dead, every live session but the one on its way to   *)
(* the client is of a login whose answer was lost.                         *)

\* The calls that will be refused.
Stale == {c \in Calls : call[c].at \in {"sent", "401"} /\ call[c].sent \notin live}

\* The session that the login under way is still to make.
Owed == IF \E l \in logins : l.answer = 0 THEN 1 ELSE 0

Answers == {l.answer : l \in logins}

Covered == cookie \in live =>
  /\ \A l \in logins : l.answer > 0 => l.answer \in live
  /\ Cardinality(live) + Cardinality(Stale) + Owed <= Cardinality(Calls) + faults

Uncovered == cookie \notin live => Cardinality(live \ Answers) <= faults

SInv ==
  /\ SessionTypeOK /\ faults \in Nat
  /\ \A l, m \in logins : l = m
  /\ logins # {} => Waiters # {}
  /\ \A c \in Calls : call[c].at = "401" => call[c].sent \notin live
  /\ Covered /\ Uncovered

\* The sets that are counted are finite.
LEMMA CountsOK ==
  ASSUME SessionTypeOK
  PROVE  /\ IsFiniteSet(live) /\ Cardinality(live) \in Nat
         /\ IsFiniteSet(Stale) /\ Cardinality(Stale) \in Nat
         /\ IsFiniteSet(Calls) /\ Cardinality(Calls) \in Nat
         /\ IsFiniteSet(live \ Answers) /\ Cardinality(live \ Answers) \in Nat
         /\ Owed \in {0, 1}
<1>1. IsFiniteSet(1..cookies)
  BY FS_Interval, SessionAssumption DEF SessionTypeOK
<1>2. IsFiniteSet(live)
  BY <1>1, FS_Subset DEF SessionTypeOK
<1>3. IsFiniteSet(Stale)
  BY SessionAssumption, FS_Subset DEF Stale
<1>4. IsFiniteSet(live \ Answers)
  BY <1>2, FS_Subset
<1> QED BY <1>2, <1>3, <1>4, SessionAssumption, FS_CardinalityType DEF Owed

LEMMA LessOne ==
  ASSUME SessionTypeOK, NEW n, Answers = {n}
  PROVE  Cardinality(live) <= Cardinality(live \ Answers) + 1
<1>1. Cardinality(live \ {n}) = IF n \in live THEN Cardinality(live) - 1 ELSE Cardinality(live)
  BY CountsOK, FS_RemoveElement
<1> QED BY <1>1, CountsOK

\* A call that goes on without a login, lost or not.
LEMMA CallKeeps ==
  ASSUME SInv, SessionTypeOK', faults' \in Nat, faults' >= faults,
         UNCHANGED <<live, cookie, logins>>, Waiters' = Waiters, Stale' \subseteq Stale,
         \A c \in Calls : call'[c].at = "401" => call'[c].sent \notin live
  PROVE  SInv'
<1>1. Cardinality(Stale') <= Cardinality(Stale)
  BY CountsOK, FS_Subset DEF SInv
<1>2. Owed' = Owed /\ Answers' = Answers
  BY DEF Owed, Answers
<1>3. Cardinality(Stale') \in Nat
  BY CountsOK, FS_Subset, FS_CardinalityType DEF SInv
<1>4. Covered'
  BY <1>1, <1>2, <1>3, CountsOK DEF Covered, SInv
<1>5. Uncovered'
  BY <1>2, CountsOK DEF Uncovered, SInv
<1> QED BY <1>4, <1>5 DEF SInv

CallRow == [at: {"idle", "waiting", "sending", "sent", "ok", "401"}, attempt: 0..1,
            sent: 0..cookies, result: {"none", "ok", "401", "failed"}]

\* A call that goes on is still a call.
LEMMA CallTries ==
  ASSUME SessionTypeOK, NEW c \in Calls, NEW at \in {"idle", "waiting", "sending", "sent", "ok", "401"},
         NEW a \in 0..1
  PROVE  [call EXCEPT ![c].at = at, ![c].attempt = a] \in [Calls -> CallRow]
<1>1. call \in [Calls -> CallRow]
  BY DEF SessionTypeOK, CallRow
<1>2. \A row \in CallRow : [row EXCEPT !.at = at, !.attempt = a] \in CallRow
  BY DEF CallRow
<1>3. [call[c] EXCEPT !.at = at, !.attempt = a] \in CallRow
  BY <1>1, <1>2
<1> QED BY <1>1, <1>3

LEMMA CallSends ==
  ASSUME SessionTypeOK, NEW c \in Calls, NEW sent \in 0..cookies
  PROVE  [call EXCEPT ![c].at = "sent", ![c].sent = sent] \in [Calls -> CallRow]
<1>1. call \in [Calls -> CallRow]
  BY DEF SessionTypeOK, CallRow
<1>2. \A row \in CallRow : [row EXCEPT !.at = "sent", !.sent = sent] \in CallRow
  BY DEF CallRow
<1>3. [call[c] EXCEPT !.at = "sent", !.sent = sent] \in CallRow
  BY <1>1, <1>2
<1> QED BY <1>1, <1>3

LEMMA BeginTyped ==
  ASSUME SInv, NEW c \in Calls, NEW a \in 0..1, NeedsLogin(c, a),
         UNCHANGED <<following, live, cookies, cookie>>
  PROVE  SessionTypeOK'
<1>1. logins' \subseteq [by: Calls, answer: 0..cookies]
  BY SessionAssumption DEF NeedsLogin, Joined, SInv, SessionTypeOK
<1>2. call' \in [Calls -> [at: {"idle", "waiting", "sending", "sent", "ok", "401"}, attempt: 0..1,
                         sent: 0..cookies, result: {"none", "ok", "401", "failed"}]]
  <2>1. SessionTypeOK /\ call' = [call EXCEPT ![c].at = "waiting", ![c].attempt = a]
    BY DEF NeedsLogin, SInv
  <2>2. "waiting" \in {"idle", "waiting", "sending", "sent", "ok", "401"}
    OBVIOUS
  <2>3. call' \in [Calls -> CallRow]
    BY <2>1, <2>2, CallTries
  <2> QED BY ONLY <2>3 DEF CallRow
<1>3. logins' # {}
  BY DEF NeedsLogin, Joined
<1> QED BY <1>1, <1>2, <1>3 DEF SInv, SessionTypeOK

\* A call that needs a login: its cookie is dead, or it has just been refused.
LEMMA NeedsLoginKeeps ==
  ASSUME SInv, NEW c \in Calls, NEW a \in 0..1, NeedsLogin(c, a), UNCHANGED faults,
         UNCHANGED <<following, live, cookies, cookie>>, cookie = 0 \/ call[c].at = "401"
  PROVE  SInv'
<1> USE CountsOK
<1>1. SessionTypeOK'
  BY BeginTyped
<1>2. \A d \in Calls : call'[d] = IF d = c THEN [call[c] EXCEPT !.at = "waiting", !.attempt = a]
                                  ELSE call[d]
  BY DEF NeedsLogin, SInv, SessionTypeOK
<1>3. call'[c].at = "waiting"
  BY DEF NeedsLogin, SInv, SessionTypeOK
<1>4. Waiters' # {}
  BY <1>3 DEF Waiters
<1>5. \A d \in Calls : call'[d].at = "401" => call'[d].sent \notin live'
  BY <1>2, <1>3 DEF SInv
<1>6. Stale' = Stale \ {c}
  BY <1>2, <1>3 DEF Stale
<1>7. \A l, m \in logins' : l = m
  BY DEF NeedsLogin, Joined, SInv
<1>8. Answers' \subseteq Answers \cup {0} /\ Answers \subseteq Answers'
  BY DEF NeedsLogin, Joined, Answers
<1>9. 0 \notin live
  BY DEF SInv, SessionTypeOK
<1>10. Covered'
  <2> SUFFICES ASSUME cookie \in live PROVE Covered'
    BY DEF Covered
  <2>1. c \in Stale
    BY <1>9 DEF Stale, SInv
  <2>2. Cardinality(Stale') = Cardinality(Stale) - 1
    BY <1>6, <2>1, FS_RemoveElement DEF SInv
  <2>3. Owed' \in {0, 1} /\ Owed \in {0, 1} /\ (logins # {} => Owed' = Owed)
    BY DEF Owed, NeedsLogin, Joined, SInv
  <2>4. \A l \in logins' : l.answer > 0 => l.answer \in live
    BY DEF NeedsLogin, Joined, Covered, SInv
  <2> QED BY <2>2, <2>3, <2>4 DEF Covered, SInv
<1>11. Uncovered'
  <2>1. live' \ Answers' = live \ Answers
    BY <1>8, <1>9
  <2> QED BY <2>1 DEF Uncovered, SInv
<1> QED BY <1>1, <1>4, <1>5, <1>7, <1>10, <1>11 DEF SInv

LEMMA BeginKeeps == ASSUME SInv, NEW c \in Calls, Begin(c) PROVE SInv'
<1>1. CASE cookie = 0
  BY <1>1, NeedsLoginKeeps DEF Begin
<1>2. CASE cookie # 0
  <2>1. call' = [call EXCEPT ![c].at = "sending", ![c].attempt = 0] /\ call[c].at = "idle"
        /\ UNCHANGED <<logins, following, live, cookies, cookie, restarts, faults>>
    BY <1>2 DEF Begin
  <2>2. Waiters' = Waiters /\ Stale' = Stale
    BY <2>1 DEF Waiters, Stale, SInv, SessionTypeOK
  <2>3. call' \in [Calls -> [at: {"idle", "waiting", "sending", "sent", "ok", "401"}, attempt: 0..1,
                            sent: 0..cookies, result: {"none", "ok", "401", "failed"}]]
    <3>1. "sending" \in {"idle", "waiting", "sending", "sent", "ok", "401"} /\ 0 \in 0..1
      OBVIOUS
    <3>2. SessionTypeOK
      BY DEF SInv
    <3>3. call' \in [Calls -> CallRow]
      BY <2>1, <3>1, <3>2, CallTries
    <3> QED BY ONLY <3>3 DEF CallRow
  <2>4. SessionTypeOK'
    BY <2>1, <2>2, <2>3 DEF SInv, SessionTypeOK
  <2>5. ASSUME NEW d \in Calls, call'[d].at = "401" PROVE call'[d].sent \notin live
    <3>1. call'[c].at = "sending"
      BY <2>1 DEF SInv, SessionTypeOK
    <3>2. d # c
      BY <2>5, <3>1
    <3>3. call'[d] = call[d]
      BY <2>1, <3>2 DEF SInv, SessionTypeOK
    <3> QED BY <2>5, <3>3 DEF SInv
  <2>6. faults' \in Nat /\ faults' >= faults
    BY <2>1 DEF SInv
  <2> QED BY <2>1, <2>2, <2>4, <2>5, <2>6, CallKeeps
<1> QED BY <1>1, <1>2

LEMMA SendKeeps == ASSUME SInv, NEW c \in Calls, Send(c) PROVE SInv'
<1>1. call' = [call EXCEPT ![c].at = "sent", ![c].sent = cookie] /\ call[c].at = "sending"
      /\ UNCHANGED <<logins, following, live, cookies, cookie, restarts, faults>>
  BY DEF Send
<1>2. Waiters' = Waiters
  BY <1>1 DEF Waiters, SInv, SessionTypeOK
<1>3. SessionTypeOK'
  <2>1. cookie \in 0..cookies
    BY DEF SInv, SessionTypeOK
  <2>2. SessionTypeOK
    BY DEF SInv
  <2>3. call' \in [Calls -> CallRow]
    BY <1>1, <2>1, <2>2, CallSends
  <2>4. call' \in [Calls -> [at: {"idle", "waiting", "sending", "sent", "ok", "401"}, attempt: 0..1,
                            sent: 0..cookies', result: {"none", "ok", "401", "failed"}]]
    BY ONLY <1>1, <2>3 DEF CallRow
  <2> QED BY ONLY <1>1, <1>2, <2>2, <2>4 DEF SessionTypeOK
<1>4. \A d \in Calls : call'[d].at = "401" => call'[d].sent \notin live
  BY <1>1 DEF SInv, SessionTypeOK
<1>5. CASE cookie \in live
  <2>1. Stale' = Stale
    BY <1>1, <1>5 DEF Stale, SInv, SessionTypeOK
  <2>2. faults' \in Nat /\ faults' >= faults
    BY <1>1 DEF SInv
  <2> QED BY <1>1, <1>2, <1>3, <1>4, <2>1, <2>2, CallKeeps
<1>6. CASE cookie \notin live
  <2>1. Answers' = Answers
    BY <1>1 DEF Answers
  <2> QED BY <1>1, <1>2, <1>3, <1>4, <1>6, <2>1 DEF SInv, Covered, Uncovered
<1> QED BY <1>5, <1>6

LEMMA ServeCallKeeps == ASSUME SInv, NEW c \in Calls, ServeCall(c) PROVE SInv'
<1>1. call' = [call EXCEPT ![c].at = IF call[c].sent \in live THEN "ok" ELSE "401"]
      /\ call[c].at = "sent"
      /\ UNCHANGED <<logins, following, live, cookies, cookie, restarts, faults>>
  BY DEF ServeCall
<1>2. Waiters' = Waiters /\ Stale' = Stale
  BY <1>1 DEF Waiters, Stale, SInv, SessionTypeOK
<1>3. SessionTypeOK'
  BY <1>1, <1>2 DEF SInv, SessionTypeOK
<1>4. \A d \in Calls : call'[d].at = "401" => call'[d].sent \notin live
  BY <1>1 DEF SInv, SessionTypeOK
<1> QED BY <1>1, <1>2, <1>3, <1>4, CallKeeps DEF SInv

\* A call that ends, with its answer or without.
LEMMA EndCallKeeps ==
  ASSUME SInv, NEW c \in Calls, NEW r \in {"ok", "401", "failed"},
         call[c].at \in {"sent", "ok", "401"}, call' = [call EXCEPT ![c] = Idle(r)],
         UNCHANGED <<logins, following, live, cookies, cookie>>, faults' \in Nat, faults' >= faults
  PROVE  SInv'
<1>1. Idle(r) \in [at: {"idle"}, attempt: 0..1, sent: 0..cookies, result: {"none", "ok", "401", "failed"}]
  BY DEF Idle, SInv, SessionTypeOK
<1>2. \A d \in Calls : call'[d] = IF d = c THEN Idle(r) ELSE call[d]
  BY DEF SInv, SessionTypeOK
<1>3. Idle(r).at = "idle"
  BY DEF Idle
<1>4. Waiters' = Waiters /\ Stale' \subseteq Stale
  BY <1>2, <1>3 DEF Waiters, Stale
<1>5. SessionTypeOK'
  BY <1>1, <1>4 DEF SInv, SessionTypeOK
<1>6. \A d \in Calls : call'[d].at = "401" => call'[d].sent \notin live
  BY <1>2, <1>3 DEF SInv
<1> QED BY <1>4, <1>5, <1>6, CallKeeps

LEMMA AnsweredKeeps == ASSUME SInv, NEW c \in Calls, Answered(c) PROVE SInv'
<1>1. CASE Again(c)
  BY <1>1, NeedsLoginKeeps DEF Answered, Again
<1>2. CASE ~ Again(c)
  BY <1>2, EndCallKeeps DEF Answered, SInv
<1> QED BY <1>1, <1>2

LEMMA CallFailsKeeps == ASSUME SInv, NEW c \in Calls, CallFails(c) PROVE SInv'
<1>1. /\ call[c].at \in {"sent", "ok", "401"} /\ call' = [call EXCEPT ![c] = Idle("failed")]
      /\ UNCHANGED <<logins, following, live, cookies, cookie>>
  BY DEF CallFails
<1>2. faults' \in Nat /\ faults' >= faults
  BY DEF CallFails, SInv
<1> QED BY <1>1, <1>2, EndCallKeeps

LEMMA ServeLoginKeeps == ASSUME SInv, NEW l \in logins, ServeLogin(l) PROVE SInv'
<1> USE CountsOK
<1> DEFINE m == [l EXCEPT !.answer = cookies + 1]
<1>1. /\ l.answer = 0 /\ cookies' = cookies + 1 /\ live' = live \cup {cookies + 1}
      /\ logins' = (logins \ {l}) \cup {m} /\ logins = {l}
      /\ UNCHANGED <<following, cookie, call, restarts, faults>>
  BY DEF ServeLogin, SInv
<1>2. cookies \in Nat /\ cookies + 1 <= MaxCookies /\ l \in [by: Calls, answer: 0..cookies]
      /\ live \subseteq 1..cookies /\ cookie \in 0..cookies
  BY SessionAssumption DEF ServeLogin, SInv, SessionTypeOK
<1>3. logins' = {m} /\ m.answer = cookies + 1 /\ m \in [by: Calls, answer: 0..cookies + 1]
  BY <1>1, <1>2
<1>4. SessionTypeOK'
  <2>1. call' \in [Calls -> [at: {"idle", "waiting", "sending", "sent", "ok", "401"}, attempt: 0..1,
                         sent: 0..cookies', result: {"none", "ok", "401", "failed"}]]
    <3>1. 0..cookies \subseteq 0..cookies'
      BY <1>1, <1>2
    <3> QED BY <1>1, <3>1 DEF SInv, SessionTypeOK
  <2> QED BY <1>1, <1>2, <1>3, <2>1, SessionAssumption DEF SInv, SessionTypeOK
<1>5. Waiters' = Waiters
  BY <1>1 DEF Waiters
<1>6. cookies + 1 \notin live /\ \A c \in Calls : call[c].sent # cookies + 1
  BY <1>2 DEF SInv, SessionTypeOK
<1>7. Stale' = Stale
  BY <1>1, <1>6 DEF Stale
<1>8. cookie \in live' <=> cookie \in live
  BY <1>1, <1>2
<1>9. Cardinality(live') = Cardinality(live) + 1
  BY <1>1, <1>6, FS_AddElement DEF SInv
<1>10. Owed = 1 /\ Owed' = 0
  BY <1>1, <1>2, <1>3 DEF Owed
<1>11. Covered'
  BY <1>1, <1>3, <1>7, <1>8, <1>9, <1>10 DEF Covered, SInv
<1>12. Uncovered'
  <2>1. live' \ Answers' = live \ Answers
    BY <1>1, <1>2, <1>3, <1>6 DEF Answers
  <2> QED BY <1>1, <1>8, <2>1 DEF Uncovered, SInv
<1>13. \A c \in Calls : call'[c].at = "401" => call'[c].sent \notin live'
  BY <1>1, <1>6 DEF SInv
<1> QED BY <1>1, <1>3, <1>4, <1>5, <1>11, <1>12, <1>13 DEF SInv

LEMMA LoggedInKeeps == ASSUME SInv, NEW l \in logins, LoggedIn(l) PROVE SInv'
<1> USE CountsOK
<1>1. /\ l.answer > 0 /\ cookie' = l.answer /\ logins' = {} /\ logins = {l}
      /\ UNCHANGED <<following, live, cookies, restarts, faults>>
      /\ call' = [c \in Calls |->
                IF c \in Waiters THEN [call[c] EXCEPT !.at = "sending"] ELSE call[c]]
  BY DEF LoggedIn, SInv
<1>2. /\ Waiters' = {} /\ Stale' = Stale
      /\ \A c \in Calls : call'[c].at = "401" => call'[c].sent \notin live'
  BY <1>1 DEF SInv, SessionTypeOK, Waiters, Stale
<1>3. SessionTypeOK'
  <2>1. l.answer \in 0..cookies
    BY DEF SInv, SessionTypeOK
  <2>2. call' \in [Calls -> [at: {"idle", "waiting", "sending", "sent", "ok", "401"}, attempt: 0..1,
                         sent: 0..cookies, result: {"none", "ok", "401", "failed"}]]
    BY <1>1 DEF SInv, SessionTypeOK
  <2> QED BY <1>1, <1>2, <2>1, <2>2 DEF SInv, SessionTypeOK
<1>4. Owed' = 0 /\ Answers = {l.answer} /\ Answers' = {}
  BY <1>1 DEF Owed, Answers
<1>5. Cardinality(live) <= Cardinality(live \ Answers) + 1
  BY <1>4, LessOne DEF SInv
<1>6. CASE cookie \in live
  BY <1>1, <1>2, <1>3, <1>4, <1>6 DEF SInv, Covered, Uncovered
<1>7. CASE cookie \notin live
  <2>1. Covered'
    <3>1. PICK w \in Calls : w \in Waiters
      BY DEF SInv, Waiters
    <3>2. Stale \subseteq Calls \ {w}
      BY <3>1 DEF Stale, Waiters
    <3>3. Cardinality(Stale) <= Cardinality(Calls) - 1
      <4>1. /\ IsFiniteSet(Calls \ {w})
            /\ Cardinality(Calls \ {w}) = Cardinality(Calls) - 1
        BY <3>1, FS_RemoveElement DEF SInv
      <4>2. Cardinality(Stale) <= Cardinality(Calls \ {w})
        BY <3>2, <4>1, FS_Subset
      <4> QED BY <4>1, <4>2
    <3> QED BY <1>1, <1>2, <1>4, <1>5, <1>7, <3>3 DEF Covered, Uncovered, SInv
  <2>2. Uncovered'
    <3> SUFFICES ASSUME l.answer \notin live PROVE Uncovered'
      BY <1>1 DEF Uncovered
    <3>1. live' \ Answers' = live \ Answers
      BY <1>1, <1>4
    <3> QED BY <1>1, <1>7, <3>1 DEF Uncovered, SInv
  <2> QED BY <1>1, <1>2, <1>3, <2>1, <2>2 DEF SInv
<1> QED BY <1>6, <1>7

LEMMA LoginFailsKeeps == ASSUME SInv, NEW l \in logins, LoginFails(l) PROVE SInv'
<1> USE CountsOK
<1>1. /\ faults' = faults + 1 /\ logins' = {} /\ logins = {l}
      /\ UNCHANGED <<following, live, cookies, cookie, restarts>>
      /\ call' = [c \in Calls |-> IF c \in Waiters THEN Idle("failed") ELSE call[c]]
  BY DEF LoginFails, FailedWith, SInv
<1>2. Idle("failed") \in [at: {"idle"}, attempt: 0..1, sent: 0..cookies,
                          result: {"none", "ok", "401", "failed"}] /\ Idle("failed").at = "idle"
  BY DEF Idle, SInv, SessionTypeOK
<1>3. /\ Waiters' = {} /\ Stale' = Stale
      /\ \A c \in Calls : call'[c].at = "401" => call'[c].sent \notin live'
  BY <1>1, <1>2 DEF SInv, SessionTypeOK, Waiters, Stale
<1>4. SessionTypeOK'
  BY <1>1, <1>2, <1>3 DEF SInv, SessionTypeOK
<1>5. Owed' = 0 /\ Answers = {l.answer} /\ Answers' = {}
  BY <1>1 DEF Owed, Answers
<1>6. Cardinality(live) <= Cardinality(live \ Answers) + 1
  BY <1>5, LessOne DEF SInv
<1>7. Covered'
  BY <1>1, <1>3, <1>5 DEF Covered, SInv
<1>8. Uncovered'
  <2>1. live' \ Answers' = live /\ cookie' = cookie /\ live' = live
    BY <1>1, <1>5
  <2>2. SUFFICES ASSUME cookie \notin live PROVE Cardinality(live) <= faults + 1
    BY <1>1, <2>1 DEF Uncovered
  <2>3. Cardinality(live \ Answers) <= faults
    BY <2>2 DEF Uncovered, SInv
  <2> QED BY <1>6, <2>3, CountsOK DEF SInv
<1> QED BY <1>1, <1>3, <1>4, <1>7, <1>8 DEF SInv

LEMMA ForgetKeeps == ASSUME SInv, ServerForgets PROVE SInv'
<1>1. SessionTypeOK' /\ Waiters' = Waiters
  BY DEF ServerForgets, SInv, SessionTypeOK, Waiters
<1>2. live' = {} /\ live' \ Answers' = {}
  BY DEF ServerForgets
<1> QED BY <1>1, <1>2, FS_EmptySet DEF ServerForgets, SInv, Covered, Uncovered

\* With the cookie dead, the one session that is not lost is still counted by a call that waits.
LEMMA Shared == SInv => SessionsBounded
<1> SUFFICES ASSUME SInv PROVE SessionsBounded
  OBVIOUS
<1> USE CountsOK
<1>1. logins = {} \/ \E l : logins = {l}
  <2> SUFFICES ASSUME NEW l \in logins PROVE logins = {l}
    OBVIOUS
  <2> QED BY DEF SInv
<1>2. Cardinality(logins) <= 1
  <2>1. CASE logins = {}
    BY <2>1, FS_EmptySet
  <2>2. ASSUME NEW l, logins = {l} PROVE Cardinality(logins) <= 1
    BY <2>2, FS_Singleton
  <2> QED BY <1>1, <2>1, <2>2
<1>3. CASE cookie \in live
  BY <1>2, <1>3 DEF SInv, Covered, SessionsBounded
<1>4. CASE cookie \notin live /\ logins = {}
  <2>1. live \ Answers = live
    BY <1>4 DEF Answers
  <2> QED BY <1>2, <1>4, <2>1 DEF SInv, Uncovered, SessionsBounded
<1>5. CASE cookie \notin live /\ logins # {}
  <2>1. PICK l : logins = {l}
    BY <1>1, <1>5
  <2>2. Answers = {l.answer}
    BY <2>1 DEF Answers
  <2>3. Cardinality(live) <= Cardinality(live \ Answers) + 1
    BY <2>2, LessOne DEF SInv
  <2>4. Calls # {}
    BY <1>5 DEF SInv, Waiters
  <2>5. Cardinality(Calls) >= 1
    BY <2>4, FS_EmptySet DEF SInv
  <2> QED BY <1>2, <1>5, <2>3, <2>5 DEF SInv, Uncovered, SessionsBounded
<1> QED BY <1>3, <1>4, <1>5

LEMMA SessionInitOK == SessionInit => SInv
<1> SUFFICES ASSUME SessionInit PROVE SInv
  OBVIOUS
<1>1. Idle("none") \in [at: {"idle"}, attempt: 0..1, sent: {0},
                        result: {"none", "ok", "401", "failed"}] /\ Idle("none").at = "idle"
  BY DEF Idle
<1>2. SessionTypeOK
  BY <1>1, SessionAssumption DEF SessionInit, SessionTypeOK, Waiters
<1> QED BY <1>1, <1>2, FS_EmptySet DEF SessionInit, SInv, Covered, Uncovered

(* Logins are shared, for any calls and any number of restarts and faults:   *)
(* one is under way at a time, and between restarts the server is left with  *)
(* no more sessions than the portal has calls and lost requests.             *)
THEOREM SessionsShared == SessionSpec => [](SessionTypeOK /\ SessionsBounded)
<1>1. SInv /\ [SessionNext]_sessionVars => SInv'
  <2> SUFFICES ASSUME SInv, [SessionNext]_sessionVars PROVE SInv'
    OBVIOUS
  <2>1. ASSUME UNCHANGED sessionVars PROVE SInv'
    BY <2>1 DEF sessionVars, SInv, SessionTypeOK, Covered, Uncovered, Waiters, Stale, Owed, Answers
  <2>2. ASSUME NEW c \in Calls, Begin(c) \/ Send(c) \/ ServeCall(c) \/ Answered(c) \/ CallFails(c)
        PROVE  SInv'
    BY <2>2, BeginKeeps, SendKeeps, ServeCallKeeps, AnsweredKeeps, CallFailsKeeps
  <2>3. ASSUME NEW l \in logins, ServeLogin(l) \/ LoggedIn(l) \/ LoginFails(l)
        PROVE  SInv'
    BY <2>3, ServeLoginKeeps, LoggedInKeeps, LoginFailsKeeps
  <2> QED BY <2>1, <2>2, <2>3, ForgetKeeps DEF SessionNext
<1>2. SInv => SessionTypeOK /\ SessionsBounded
  BY Shared DEF SInv
<1> QED BY <1>1, <1>2, SessionInitOK, PTL DEF SessionSpec

==============================================================================
