----------------------------- MODULE ControlProofs -----------------------------
(***************************************************************************)
(* Proofs about AgentControl, for any records, machines, commands and      *)
(* bounds: a record is paired through a token of its own and each token    *)
(* pairs once; a command is delivered at most once; a queued row leaves    *)
(* its slot only sent, superseded or by a restart; a command shown as done *)
(* was carried out.  And every row has a course CommandDelivery allows.    *)
(*                                                                         *)
(* Three facts carry them.  The token of every pairing is used, and a used *)
(* token stays used (Pairings).  The row in a slot is pending, and belongs *)
(* to the slot's record (Slots).  A row that a machine holds, or that was  *)
(* carried out, is not pending, and no row becomes pending again (Orders). *)
(***************************************************************************)
EXTENDS AgentControl, SequenceTheorems, FiniteSetTheorems, TLAPS

IssuedRow == [station: Stations, machine: Machines, token: Nat]

\* The records, their tokens and what was issued to them.
Pairings ==
  /\ stations \subseteq Stations
  /\ paired \in [Stations -> Pairing \cup {Nobody}]
  /\ tokens \in Seq(TokenRow)
  /\ \A t \in DOMAIN tokens : tokens[t].station \in stations
  /\ issued \in Seq(IssuedRow)
  /\ \A c \in Credentials :
       issued[c].token \in DOMAIN tokens /\ tokens[issued[c].token].state = "used"
  /\ PairedByToken

\* The command rows and the slots.
Slots ==
  /\ log \in Seq(CommandRow)
  /\ \A r \in Rows : log[r].station \in stations
  /\ DOMAIN pending \subseteq stations
  /\ pending \in [DOMAIN pending -> Rows]
  /\ \A s \in DOMAIN pending : log[pending[s]].status = "pending" /\ log[pending[s]].station = s

\* What the machines were told and what they did.
Orders ==
  /\ DOMAIN service = Machines
  /\ executed \subseteq Rows
  /\ \A r \in executed : log[r].status # "pending"
  /\ \A m \in Machines :
       service[m].at = "ordered" =>
         /\ service[m] = Ordered(service[m].row)
         /\ service[m].row \in Rows
         /\ log[service[m].row].status # "pending"
  /\ DeliveredOnce

\* The requests on their way and the processes that send them.
Wires ==
  /\ \A q \in net :
       /\ q.machine \in Machines
       /\ q.kind = "register" => q.token \in DOMAIN tokens
       /\ q.kind # "register" => q.credential \in Credentials
  /\ saved \in [Machines -> Credentials \cup {0}]
  /\ loaded \in [Machines -> Credentials \cup {0}]
  /\ DOMAIN setup = Machines /\ DOMAIN service = Machines
  /\ \A m \in Machines :
       /\ setup[m].at \in {"idle", "waits", "accepted"}
       /\ setup[m].at = "accepted" => setup[m].credential \in Credentials
       /\ service[m].at \in {"idle", "waits", "ordered"}
       /\ service[m].at # "idle" => loaded[m] # 0

CInv == Pairings /\ Slots /\ Orders /\ Wires

LEMMA CInvTyped == CInv => TypeOK /\ PairedByToken /\ DeliveredOnce
BY DEF CInv, Pairings, Slots, Orders, Wires, TypeOK

------------------------------------------------------------------------------
(* What leaves a part of the invariant alone.                              *)

\* Rows are only added, and none becomes pending again.
Advances ==
  /\ Rows \subseteq Rows'
  /\ \A r \in Rows : log[r].status # "pending" => log'[r].status # "pending"

\* Tokens and credentials are only added.
Grows == DOMAIN tokens \subseteq DOMAIN tokens' /\ Credentials \subseteq Credentials'

LEMMA PairingsKept ==
  ASSUME Pairings, UNCHANGED <<stations, paired, tokens, issued>>
  PROVE  Pairings' /\ Grows
BY DEF Pairings, PairedByToken, Credentials, Pairing, Grows

LEMMA SlotsKept ==
  ASSUME Slots, UNCHANGED <<stations, log, pending>>
  PROVE  Slots' /\ Advances
BY DEF Slots, Rows, Advances

LEMMA OrdersKept ==
  ASSUME Orders, Advances, UNCHANGED <<service, executed>>
  PROVE  Orders'
BY DEF Orders, DeliveredOnce, Holds, Ordered, Advances

LEMMA WiresKept ==
  ASSUME Wires, Grows, net' \subseteq net, UNCHANGED machines
  PROVE  Wires'
BY DEF Wires, Grows, machines

\* A machine that goes on to something else than an order.
LEMMA OrdersMoveOn ==
  ASSUME Orders, Advances, UNCHANGED executed, NEW m \in Machines, NEW state,
         service' = [service EXCEPT ![m] = state], state.at \in {"idle", "waits"}
  PROVE  Orders'
<1>1. /\ DOMAIN service' = Machines
      /\ service'[m] = state
      /\ \A n \in Machines : n # m => service'[n] = service[n]
  BY DEF Orders
<1>2. \A n \in Machines : \A r : Holds(n, r)' => Holds(n, r) /\ n # m
  BY <1>1 DEF Holds, Ordered
<1>3. \A n \in Machines : service'[n].at = "ordered" => n # m
  BY <1>1
<1>4. \A n \in Machines : \A r : Holds(n, r) => r \in Rows
  BY DEF Orders, Holds, Ordered
<1>5. DeliveredOnce'
  BY <1>2, <1>4 DEF Orders, DeliveredOnce
<1> QED BY <1>1, <1>3, <1>5 DEF Orders, Advances

------------------------------------------------------------------------------
(* The dashboard.                                                          *)

LEMMA InitCInv == Init => CInv
<1> SUFFICES ASSUME Init PROVE CInv
  OBVIOUS
<1>1. Pairings
  BY DEF Init, Pairings, PairedByToken, Credentials
<1>2. Slots
  BY DEF Init, Slots, Rows
<1>3. Orders
  BY DEF Init, Orders, DeliveredOnce, Holds, Rows, Idle
<1>4. Wires
  BY DEF Init, Wires, Credentials, Idle
<1> QED BY <1>1, <1>2, <1>3, <1>4 DEF CInv

LEMMA IssueTokenCInv ==
  ASSUME CInv, NEW s \in Stations, IssueToken(s)
  PROVE  CInv'
<1> DEFINE row == [station |-> s, state |-> "fresh"]
<1>1. /\ s \in stations /\ tokens' = Append(tokens, row)
      /\ UNCHANGED <<stations, paired, issued, log, pending, net, machines, executed>>
  BY DEF IssueToken
<1>2. tokens \in Seq(TokenRow) /\ row \in TokenRow
  BY <1>1 DEF CInv, Pairings, TokenRow
<1>3. /\ tokens' \in Seq(TokenRow)
      /\ DOMAIN tokens = 1..Len(tokens) /\ Len(tokens) \in Nat
      /\ DOMAIN tokens' = 1..(Len(tokens) + 1)
      /\ \A t \in DOMAIN tokens : tokens'[t] = tokens[t]
      /\ tokens'[Len(tokens) + 1] = row
  BY <1>1, <1>2, AppendProperties, LenProperties
<1>4. Pairings'
  BY <1>1, <1>3 DEF CInv, Pairings, PairedByToken, Credentials, Pairing
<1>5. Grows
  BY <1>1, <1>3 DEF Grows, Credentials
<1>6. Slots' /\ Advances
  BY <1>1, SlotsKept DEF CInv
<1>7. Orders'
  BY <1>1, <1>6, OrdersKept DEF CInv, machines
<1>8. Wires'
  BY <1>1, <1>5, WiresKept DEF CInv
<1> QED BY <1>4, <1>6, <1>7, <1>8 DEF CInv

LEMMA TokenExpiresCInv ==
  ASSUME CInv, NEW t \in DOMAIN tokens, TokenExpires(t)
  PROVE  CInv'
<1> DEFINE row == [tokens[t] EXCEPT !.state = "expired"]
<1>1. /\ tokens[t].state = "fresh" /\ tokens' = [tokens EXCEPT ![t] = row]
      /\ UNCHANGED <<stations, paired, issued, log, pending, net, machines, executed>>
  BY DEF TokenExpires
<1>2. tokens \in Seq(TokenRow) /\ t \in 1..Len(tokens) /\ tokens[t] \in TokenRow
  BY LenProperties, ElementOfSeq DEF CInv, Pairings
<1>3. row \in TokenRow /\ row.station = tokens[t].station
  BY <1>2 DEF TokenRow
<1> HIDE DEF row
<1>4. /\ tokens' \in Seq(TokenRow) /\ DOMAIN tokens' = DOMAIN tokens
      /\ \A u \in DOMAIN tokens : u # t => tokens'[u] = tokens[u]
      /\ tokens'[t] = row
  BY <1>1, <1>2, <1>3, ExceptSeq, LenProperties
<1>5. Pairings'
  <2>1. \A c \in Credentials : issued[c].token # t
    BY <1>1 DEF CInv, Pairings
  <2>2. \A u \in DOMAIN tokens' : tokens'[u].station \in stations
    BY <1>3, <1>4 DEF CInv, Pairings
  <2>3. \A c \in Credentials :
          issued[c].token \in DOMAIN tokens' /\ tokens'[issued[c].token].state = "used"
    BY <1>4, <2>1 DEF CInv, Pairings
  <2>4. PairedByToken'
    BY <1>1 DEF CInv, Pairings, PairedByToken, Credentials
  <2> QED BY <1>1, <1>4, <2>2, <2>3, <2>4 DEF CInv, Pairings, Credentials, Pairing
<1>6. Grows
  BY <1>1, <1>4 DEF Grows, Credentials
<1>7. Slots' /\ Advances
  BY <1>1, SlotsKept DEF CInv
<1>8. Orders'
  BY <1>1, <1>7, OrdersKept DEF CInv, machines
<1>9. Wires'
  BY <1>1, <1>6, WiresKept DEF CInv
<1> QED BY <1>5, <1>7, <1>8, <1>9 DEF CInv

\* The foreign keys: a record that goes has no token and no command.
LEMMA DeleteWorkstationCInv ==
  ASSUME CInv, NEW s \in Stations, DeleteWorkstation(s)
  PROVE  CInv'
<1>1. /\ stations' = stations \ {s} /\ paired' = [paired EXCEPT ![s] = Nobody]
      /\ ~ Referenced(s)
      /\ UNCHANGED <<tokens, issued, log, pending, net, machines, executed>>
  BY DEF DeleteWorkstation
<1>2. /\ \A t \in DOMAIN tokens : tokens[t].station # s
      /\ \A r \in Rows : log[r].station # s
  BY <1>1 DEF Referenced
<1>3. Pairings'
  <2>1. /\ paired' \in [Stations -> Pairing' \cup {Nobody}]
        /\ \A r \in stations' : paired'[r] = paired[r]
    BY <1>1 DEF CInv, Pairings, Pairing, Credentials
  <2>2. PairedByToken'
    BY <1>1, <2>1 DEF CInv, Pairings, PairedByToken, Credentials
  <2> QED BY <1>1, <1>2, <2>1, <2>2 DEF CInv, Pairings, Credentials
<1>4. s \notin DOMAIN pending
  BY <1>2 DEF CInv, Slots
<1>5. Slots' /\ Advances
  BY <1>1, <1>2, <1>4 DEF CInv, Slots, Rows, Advances
<1>6. Orders'
  BY <1>1, <1>5, OrdersKept DEF CInv, machines
<1>7. Wires'
  BY <1>1, WiresKept DEF CInv, Grows, Credentials
<1> QED BY <1>3, <1>5, <1>6, <1>7 DEF CInv

\* A row that waits is superseded; the new one takes its slot.
LEMMA QueueCommandCInv ==
  ASSUME CInv, NEW s \in Stations, NEW command \in Commands, QueueCommand(s, command)
  PROVE  CInv'
<1> DEFINE base == IF s \in DOMAIN pending THEN [log EXCEPT ![pending[s]].status = "superseded"]
                                           ELSE log
           row  == [station |-> s, command |-> command, status |-> "pending"]
<1>1. /\ s \in stations /\ log' = Append(base, row)
      /\ pending' = [r \in DOMAIN pending \cup {s} |-> IF r = s THEN Len(log) + 1 ELSE pending[r]]
      /\ UNCHANGED <<stations, paired, tokens, issued, net, machines, executed>>
  BY DEF QueueCommand, Queued
<1>2. /\ log \in Seq(CommandRow) /\ Len(log) \in Nat /\ DOMAIN log = 1..Len(log)
      /\ \A r \in Rows : log[r] \in CommandRow
  BY LenProperties, ElementOfSeq DEF CInv, Slots, Rows
<1>3. /\ base \in Seq(CommandRow) /\ Len(base) = Len(log)
      /\ \A r \in Rows : /\ base[r].station = log[r].station
                         /\ base[r].status = log[r].status \/ base[r].status = "superseded"
      /\ \A r \in Rows : (s \notin DOMAIN pending \/ r # pending[s]) => base[r] = log[r]
  <2>1. CASE s \in DOMAIN pending
    <3> DEFINE p == pending[s]
               old == [log[p] EXCEPT !.status = "superseded"]
    <3>1. p \in 1..Len(log)
      BY <2>1 DEF CInv, Slots, Rows
    <3>2. old \in CommandRow /\ old.station = log[p].station /\ old.status = "superseded"
      BY <1>2, <3>1 DEF CommandRow, Rows
    <3>3. base = [log EXCEPT ![p] = old]
      BY <2>1
    <3> HIDE DEF base, old, p
    <3>4. /\ base \in Seq(CommandRow) /\ Len(base) = Len(log)
          /\ \A r \in 1..Len(log) : base[r] = IF r = p THEN old ELSE log[r]
      BY <1>2, <3>1, <3>2, <3>3, ExceptSeq
    <3>5. \A r \in Rows : r # p => base[r] = log[r]
      BY <3>4 DEF Rows
    <3>6. base[p] = old
      BY <3>1, <3>4
    <3>7. \A r \in Rows : /\ base[r].station = log[r].station
                          /\ base[r].status = log[r].status \/ base[r].status = "superseded"
      BY <3>2, <3>5, <3>6
    <3> QED BY <2>1, <3>4, <3>5, <3>7 DEF p
  <2>2. CASE s \notin DOMAIN pending
    BY <1>2, <2>2
  <2> QED BY <2>1, <2>2
<1>4. row \in CommandRow /\ row.station = s /\ row.status = "pending"
  BY DEF CommandRow
<1> HIDE DEF base, row
<1>5. /\ log' \in Seq(CommandRow) /\ Len(log') = Len(log) + 1
      /\ \A r \in Rows : log'[r] = base[r]
      /\ log'[Len(log) + 1] = row
  BY <1>1, <1>3, <1>4, AppendProperties DEF Rows
<1>6. Rows' = 1..(Len(log) + 1)
  BY <1>5 DEF Rows
<1>7. Advances
  BY <1>2, <1>3, <1>5, <1>6 DEF Advances, Rows
<1>8. Slots'
  <2>1. \A r \in Rows' : r \in Rows \/ r = Len(log) + 1
    BY <1>2, <1>6 DEF Rows
  <2>2. \A r \in Rows' : log'[r].station \in stations'
    <3>1. \A r \in Rows : log'[r].station \in stations
      BY <1>3, <1>5 DEF CInv, Slots
    <3>2. log'[Len(log) + 1].station \in stations
      BY <1>1, <1>4, <1>5
    <3> QED BY <1>1, <2>1, <3>1, <3>2
  <2>3. DOMAIN pending' = DOMAIN pending \cup {s} /\ DOMAIN pending' \subseteq stations'
    BY <1>1 DEF CInv, Slots
  <2>4. \A r \in DOMAIN pending' :
          /\ pending'[r] \in Rows'
          /\ log'[pending'[r]].status = "pending" /\ log'[pending'[r]].station = r
    <3> SUFFICES ASSUME NEW r \in DOMAIN pending'
                 PROVE  /\ pending'[r] \in Rows'
                        /\ log'[pending'[r]].status = "pending"
                        /\ log'[pending'[r]].station = r
      OBVIOUS
    <3>1. CASE r = s
      BY <1>1, <1>2, <1>4, <1>5, <1>6, <3>1
    <3>2. CASE r # s
      <4>1. r \in DOMAIN pending /\ pending'[r] = pending[r]
        BY <1>1, <3>2
      <4>2. /\ pending[r] \in Rows /\ log[pending[r]].status = "pending"
            /\ log[pending[r]].station = r
        BY <4>1 DEF CInv, Slots
      <4>3. s \in DOMAIN pending => pending[r] # pending[s]
        BY <3>2, <4>2 DEF CInv, Slots
      <4> QED BY <1>2, <1>3, <1>5, <1>6, <4>1, <4>2, <4>3 DEF Rows
    <3> QED BY <3>1, <3>2
  <2>5. pending' \in [DOMAIN pending' -> Rows']
    BY <1>1, <2>3, <2>4
  <2> QED BY <1>5, <2>2, <2>3, <2>4, <2>5 DEF Slots
<1>9. Pairings' /\ Grows
  BY <1>1, PairingsKept DEF CInv
<1>10. Orders'
  BY <1>1, <1>7, OrdersKept DEF CInv, machines
<1>11. Wires'
  BY <1>1, <1>9, WiresKept DEF CInv
<1> QED BY <1>8, <1>9, <1>10, <1>11 DEF CInv

LEMMA ServerRestartCInv ==
  ASSUME CInv, ServerRestart
  PROVE  CInv'
<1>1. UNCHANGED <<stations, paired, tokens, issued, log, net, machines, executed>>
      /\ pending' = [s \in {} |-> 0]
  BY DEF ServerRestart, tables
<1>2. Slots' /\ Advances
  BY <1>1 DEF CInv, Slots, Rows, Advances
<1>3. Pairings' /\ Grows
  BY <1>1, PairingsKept DEF CInv
<1>4. Orders'
  BY <1>1, <1>2, OrdersKept DEF CInv, machines
<1>5. Wires'
  BY <1>1, <1>3, WiresKept DEF CInv
<1> QED BY <1>2, <1>3, <1>4, <1>5 DEF CInv

------------------------------------------------------------------------------
(* The server's Agent endpoints.                                           *)

\* A token that is used up leaves the pairings as they are, or makes the one
\* pairing that is its own.
LEMMA ServeRegisterCInv ==
  ASSUME CInv, NEW q \in net, ServeRegister(q)
  PROVE  CInv'
<1> DEFINE t == q.token
           s == tokens[t].station
           m == q.machine
           row == [tokens[t] EXCEPT !.state = "used"]
<1>1. /\ q.kind = "register" /\ net' = net \ {q}
      /\ UNCHANGED <<stations, log, pending, saved, loaded, service, executed>>
  BY DEF ServeRegister
<1>2. Slots' /\ Advances
  BY <1>1, SlotsKept DEF CInv
<1>3. Orders'
  BY <1>1, <1>2, OrdersKept DEF CInv
<1>4. m \in Machines /\ t \in DOMAIN tokens
  BY <1>1 DEF CInv, Wires
<1>5. CASE UNCHANGED <<tokens, issued, paired, setup>>
  <2>1. Pairings' /\ Grows
    BY <1>1, <1>5, PairingsKept DEF CInv
  <2>2. Wires'
    BY <1>1, <1>5, <2>1, WiresKept DEF CInv, machines
  <2> QED BY <1>2, <1>3, <2>1, <2>2 DEF CInv
<1>6. CASE Usable(t) /\ tokens' = Consumed(t) /\ (BurnToken(q) \/ pairAgent(q))
  <2>1. /\ tokens \in Seq(TokenRow) /\ t \in 1..Len(tokens) /\ tokens[t] \in TokenRow
        /\ DOMAIN tokens = 1..Len(tokens) /\ Len(tokens) \in Nat
    BY <1>4, LenProperties, ElementOfSeq DEF CInv, Pairings
  <2>2. row \in TokenRow /\ row.station = s /\ row.state = "used"
    BY <2>1 DEF TokenRow
  <2>3. tokens' = [tokens EXCEPT ![t] = row]
    BY <1>6 DEF Consumed
  <2> HIDE DEF row
  <2>4. /\ tokens' \in Seq(TokenRow) /\ DOMAIN tokens' = DOMAIN tokens
        /\ \A u \in DOMAIN tokens : u # t => tokens'[u] = tokens[u]
        /\ tokens'[t] = row
    BY <2>1, <2>2, <2>3, ExceptSeq, LenProperties
  <2>5. /\ s \in stations /\ s \in Stations
        /\ \A u \in DOMAIN tokens' : tokens'[u].station \in stations
    BY <1>4, <2>2, <2>4 DEF CInv, Pairings
  <2>6. \A c \in Credentials :
          /\ issued[c].token \in DOMAIN tokens' /\ tokens'[issued[c].token].state = "used"
          /\ issued[c].token # t
    BY <1>6, <2>2, <2>4 DEF CInv, Pairings, Usable
  <2>7. CASE BurnToken(q)
    <3>1. UNCHANGED <<stations, paired, issued, setup>>
      BY <1>1, <2>7 DEF BurnToken
    <3>2. PairedByToken'
      BY <3>1 DEF CInv, Pairings, PairedByToken, Credentials
    <3>3. Pairings'
      BY <2>4, <2>5, <2>6, <3>1, <3>2 DEF CInv, Pairings, Credentials, Pairing
    <3>4. Grows
      BY <2>4, <3>1 DEF Grows, Credentials
    <3>5. Wires'
      BY <1>1, <3>1, <3>4, WiresKept DEF CInv, machines
    <3> QED BY <1>2, <1>3, <3>3, <3>5 DEF CInv
  <2>8. CASE pairAgent(q)
    <3> DEFINE c == Len(issued) + 1
               new == [station |-> s, machine |-> m, token |-> t]
               pair == [agent |-> m, credential |-> c]
    <3>1. /\ ~ Conflicts(s, m)
          /\ issued' = Append(issued, new)
          /\ paired' = [paired EXCEPT ![s] = pair]
          /\ Answer(q, setup, Accepted(c))
      BY <2>8 DEF pairAgent
    <3>2. new \in IssuedRow /\ new.station = s /\ new.machine = m /\ new.token = t
      BY <1>4, <2>1, <2>5 DEF IssuedRow
    <3> HIDE DEF new
    <3>3. /\ issued' \in Seq(IssuedRow) /\ Len(issued) \in Nat /\ Len(issued') = c
          /\ \A d \in 1..Len(issued) : issued'[d] = issued[d]
          /\ issued'[c] = new
      BY <3>1, <3>2, AppendProperties, LenProperties DEF CInv, Pairings
    <3>4. Credentials' = 1..c /\ \A d \in Credentials' : d \in Credentials \/ d = c
      BY <3>3 DEF Credentials
    <3>5. /\ pair \in Pairing' /\ pair # Nobody /\ pair.agent = m /\ pair.credential = c
          /\ Pairing \subseteq Pairing'
      <4>1. pair \in [agent : Machines, credential : Nat]
        BY <1>4, <3>3
      <4> QED BY <1>4, <3>3, <3>4, <4>1, ControlAssumption DEF Pairing, Credentials
    <3> HIDE DEF pair
    <3>6. /\ paired' \in [Stations -> Pairing' \cup {Nobody}]
          /\ paired'[s] = pair
          /\ \A r \in Stations : r # s => paired'[r] = paired[r]
      BY <2>5, <3>1, <3>5 DEF CInv, Pairings
    <3>7. \A d \in Credentials' :
            issued'[d].token \in DOMAIN tokens' /\ tokens'[issued'[d].token].state = "used"
      BY <1>4, <2>2, <2>4, <2>6, <3>2, <3>3, <3>4 DEF Credentials
    <3>8. PairedByToken'
      <4>1. ASSUME NEW r \in stations, paired'[r] # Nobody
            PROVE  /\ issued'[paired'[r].credential].station = r
                   /\ issued'[paired'[r].credential].machine = paired'[r].agent
        <5>1. CASE r = s
          BY <3>2, <3>3, <3>5, <3>6, <5>1
        <5>2. CASE r # s
          <6>1. r \in Stations /\ paired'[r] = paired[r]
            BY <3>6, <5>2 DEF CInv, Pairings
          <6>2. paired[r] \in Pairing
            BY <4>1, <6>1 DEF CInv, Pairings
          <6>3. paired[r].credential \in 1..Len(issued)
            BY <6>2 DEF Pairing, Credentials
          <6> QED BY <3>3, <4>1, <6>1, <6>3 DEF CInv, Pairings, PairedByToken
        <5> QED BY <5>1, <5>2
      <4>2. ASSUME NEW r \in stations, NEW u \in stations, paired'[r] # Nobody,
                   paired'[u] # Nobody, paired'[r].agent = paired'[u].agent
            PROVE  r = u
        <5>1. \A v \in stations \ {s} : paired'[v] = paired[v]
          BY <3>6 DEF CInv, Pairings
        <5>2. \A v \in stations \ {s} : paired[v] # Nobody => paired[v].agent # m
          BY <3>1 DEF Conflicts
        <5> QED BY <3>5, <3>6, <4>2, <5>1, <5>2 DEF CInv, Pairings, PairedByToken
      <4>3. ASSUME NEW d \in Credentials', NEW e \in Credentials',
                   issued'[d].token = issued'[e].token
            PROVE  d = e
        <5>1. \A f \in Credentials : issued'[f].token = issued[f].token /\ issued[f].token # t
          BY <2>6, <3>3 DEF Credentials
        <5>2. issued'[c].token = t
          BY <3>2, <3>3
        <5> QED BY <3>4, <4>3, <5>1, <5>2 DEF CInv, Pairings, PairedByToken
      <4> QED BY <1>1, <4>1, <4>2, <4>3 DEF PairedByToken
    <3>9. Pairings'
      BY <1>1, <2>4, <2>5, <3>3, <3>6, <3>7, <3>8 DEF CInv, Pairings
    <3>10. Grows
      BY <2>4, <3>3, <3>4 DEF Grows, Credentials
    <3>11. Wires'
      <4>1. /\ DOMAIN setup' = Machines
            /\ \A n \in Machines : setup'[n] = setup[n] \/ setup'[n] = Accepted(c)
        BY <3>1 DEF Answer, CInv, Wires
      <4>2. \A n \in Machines :
              /\ setup'[n].at \in {"idle", "waits", "accepted"}
              /\ setup'[n].at = "accepted" => setup'[n].credential \in Credentials'
        BY <3>3, <3>4, <3>10, <4>1 DEF CInv, Wires, Accepted, Grows
      <4> QED BY <1>1, <3>10, <4>1, <4>2 DEF CInv, Wires, Grows
    <3> QED BY <1>2, <1>3, <3>9, <3>11 DEF CInv
  <2> QED BY <1>6, <2>7, <2>8
<1> QED BY <1>5, <1>6 DEF ServeRegister

\* An answer to the service ends its wait, or is lost.
LEMMA ServiceAnswered ==
  ASSUME Wires, NEW q \in net, NEW answered, Answer(q, service, answered)
  PROVE  \/ UNCHANGED service
         \/ /\ service' = [service EXCEPT ![q.machine] = answered]
            /\ q.machine \in Machines /\ loaded[q.machine] # 0
BY DEF Answer, Wires, Waits

\* The row that is delivered was pending: nobody holds it, and it was never
\* carried out.
LEMMA ServeHeartbeatCInv ==
  ASSUME CInv, NEW q \in net, ServeHeartbeat(q)
  PROVE  CInv'
<1>1. /\ net' = net \ {q}
      /\ UNCHANGED <<stations, paired, tokens, issued, saved, loaded, setup, executed>>
  BY DEF ServeHeartbeat
<1>2. Pairings' /\ Grows
  BY <1>1, PairingsKept DEF CInv
<1>3. Wires
  BY DEF CInv
<1>4. ASSUME UNCHANGED <<log, pending>>, UNCHANGED service \/ Answer(q, service, Idle)
      PROVE  CInv'
  <2>1. Slots' /\ Advances
    BY <1>1, <1>4, SlotsKept DEF CInv
  <2>2. CASE UNCHANGED service
    <3>1. Orders'
      BY <1>1, <2>1, <2>2, OrdersKept DEF CInv
    <3>2. Wires'
      BY <1>1, <1>2, <2>2, WiresKept DEF CInv, machines
    <3> QED BY <1>2, <2>1, <3>1, <3>2 DEF CInv
  <2>3. CASE /\ service' = [service EXCEPT ![q.machine] = Idle]
             /\ q.machine \in Machines /\ loaded[q.machine] # 0
    <3>1. Orders'
      BY <1>1, <2>1, <2>3, OrdersMoveOn DEF CInv, Idle
    <3>2. Wires'
      BY <1>1, <1>2, <2>3 DEF CInv, Wires, Grows, Idle
    <3> QED BY <1>2, <2>1, <3>1, <3>2 DEF CInv
  <2> QED BY <1>3, <1>4, <2>2, <2>3, ServiceAnswered
<1>5. ASSUME NEW s \in Station(q) \cap DOMAIN pending,
             log' = [log EXCEPT ![pending[s]].status = "sent"],
             pending' = Taken(s),
             Answer(q, service, Ordered(pending[s]))
      PROVE  CInv'
  <2> DEFINE p == pending[s]
             row == [log[p] EXCEPT !.status = "sent"]
  <2>1. /\ p \in Rows /\ log[p].status = "pending" /\ log[p].station = s
        /\ log \in Seq(CommandRow) /\ log[p] \in CommandRow /\ p \in 1..Len(log)
    BY <1>5, ElementOfSeq DEF CInv, Slots, Rows
  <2>2. row \in CommandRow /\ row.station = s /\ row.status = "sent"
    BY <2>1 DEF CommandRow
  <2>3. log' = [log EXCEPT ![p] = row]
    BY <1>5
  <2> HIDE DEF row
  <2>4. /\ log' \in Seq(CommandRow) /\ Len(log') = Len(log) /\ Rows' = Rows
        /\ \A r \in Rows : r # p => log'[r] = log[r]
        /\ log'[p] = row
    BY <2>1, <2>2, <2>3, ExceptSeq DEF Rows
  <2>5. Advances
    BY <2>2, <2>4 DEF Advances
  <2>6. Slots'
    <3>1. /\ DOMAIN pending' = DOMAIN pending \ {s}
          /\ \A r \in DOMAIN pending' : pending'[r] = pending[r]
          /\ pending' \in [DOMAIN pending' -> Rows']
      BY <1>5, <2>4 DEF Taken, CInv, Slots
    <3>2. \A r \in DOMAIN pending' : pending[r] # p
      BY <2>1, <3>1 DEF CInv, Slots
    <3>3. \A r \in Rows' : log'[r].station \in stations'
      BY <1>1, <2>1, <2>2, <2>4 DEF CInv, Slots
    <3>4. \A r \in DOMAIN pending' :
            log'[pending'[r]].status = "pending" /\ log'[pending'[r]].station = r
      BY <2>4, <3>1, <3>2 DEF CInv, Slots
    <3> QED BY <1>1, <2>4, <3>1, <3>3, <3>4 DEF CInv, Slots
  <2>7. CASE UNCHANGED service
    <3>1. Orders'
      BY <1>1, <2>5, <2>7, OrdersKept DEF CInv
    <3>2. Wires'
      BY <1>1, <1>2, <2>7, WiresKept DEF CInv, machines
    <3> QED BY <1>2, <2>6, <3>1, <3>2 DEF CInv
  <2>8. CASE /\ service' = [service EXCEPT ![q.machine] = Ordered(p)]
             /\ q.machine \in Machines /\ loaded[q.machine] # 0
    <3> DEFINE m == q.machine
    <3>1. /\ DOMAIN service' = Machines
          /\ service'[m] = Ordered(p)
          /\ \A n \in Machines : n # m => service'[n] = service[n]
      BY <2>8 DEF CInv, Wires
    <3>2. p \notin executed /\ \A n \in Machines : ~ Holds(n, p)
      BY <2>1 DEF CInv, Orders, Holds, Ordered
    <3>3. \A n \in Machines : \A r : Holds(n, r)' <=> (n = m /\ r = p) \/ (n # m /\ Holds(n, r))
      BY <3>1 DEF Holds, Ordered
    <3>4. DeliveredOnce'
      BY <1>1, <2>4, <3>2, <3>3 DEF CInv, Orders, DeliveredOnce
    <3>5. \A n \in Machines :
            service'[n].at = "ordered" =>
              /\ service'[n] = Ordered(service'[n].row)
              /\ service'[n].row \in Rows'
              /\ log'[service'[n].row].status # "pending"
      <4>1. CASE TRUE
        <5>1. /\ service'[m] = Ordered(service'[m].row) /\ service'[m].row = p
              /\ log'[p].status # "pending" /\ p \in Rows'
          BY <2>1, <2>2, <2>4, <3>1 DEF Ordered
        <5> QED BY <2>4, <2>5, <3>1, <5>1 DEF CInv, Orders, Advances
      <4> QED BY <4>1
    <3>6. Orders'
      BY <1>1, <2>4, <2>5, <3>1, <3>4, <3>5 DEF CInv, Orders, Advances
    <3>7. Wires'
      BY <1>1, <1>2, <2>8, <3>1 DEF CInv, Wires, Grows, Ordered
    <3> QED BY <1>2, <2>6, <3>6, <3>7 DEF CInv
  <2> QED BY <1>3, <1>5, <2>7, <2>8, ServiceAnswered
<1> QED BY <1>4, <1>5 DEF ServeHeartbeat

\* A result touches rows that were sent.
LEMMA ServeResultCInv ==
  ASSUME CInv, NEW q \in net, ServeResult(q)
  PROVE  CInv'
<1>1. /\ net' = net \ {q}
      /\ UNCHANGED service \/ Answer(q, service, Idle)
      /\ UNCHANGED <<stations, paired, tokens, issued, pending, saved, loaded, setup, executed>>
  BY DEF ServeResult
<1>2. PICK rows \in SUBSET Rows, end \in {"ok", "failed"} :
        /\ \A r \in rows : log[r].status = "sent"
        /\ log' = [r \in Rows |-> IF r \in rows THEN [log[r] EXCEPT !.status = end] ELSE log[r]]
  <2> DEFINE sent == {r \in Rows : /\ log[r].station \in Station(q)
                                   /\ log[r].command = q.command
                                   /\ log[r].status = "sent"}
             end == IF q.ok THEN "ok" ELSE "failed"
  <2>1. Latest(sent) \in SUBSET Rows /\ \A r \in Latest(sent) : log[r].status = "sent"
    BY DEF Latest
  <2>2. log' = [r \in Rows |-> IF r \in Latest(sent) THEN [log[r] EXCEPT !.status = end]
                                                     ELSE log[r]]
    BY DEF ServeResult
  <2>3. end \in {"ok", "failed"}
    OBVIOUS
  <2> HIDE DEF sent, end
  <2> QED BY <2>1, <2>2, <2>3
<1>3. \A r \in Rows : log[r] \in CommandRow
  BY ElementOfSeq DEF CInv, Slots, Rows
<1>4. \A r \in Rows : /\ log'[r] \in CommandRow
                      /\ log'[r].station = log[r].station
                      /\ r \in rows => log'[r].status = end
                      /\ r \notin rows => log'[r] = log[r]
  <2> SUFFICES ASSUME NEW r \in Rows
               PROVE  /\ log'[r] \in CommandRow
                      /\ log'[r].station = log[r].station
                      /\ r \in rows => log'[r].status = end
                      /\ r \notin rows => log'[r] = log[r]
    OBVIOUS
  <2>1. CASE r \in rows
    <3>1. log'[r] = [log[r] EXCEPT !.status = end]
      BY <1>2, <2>1
    <3> QED BY <1>3, <2>1, <3>1 DEF CommandRow
  <2>2. CASE r \notin rows
    BY <1>2, <1>3, <2>2
  <2> QED BY <2>1, <2>2
<1>5. log' \in Seq(CommandRow) /\ Rows' = Rows
  <2>1. Len(log) \in Nat
    BY LenProperties DEF CInv, Slots
  <2>2. DOMAIN log' = 1..Len(log) /\ log' \in [1..Len(log) -> CommandRow]
    BY <1>2, <1>4 DEF Rows
  <2>3. log' \in Seq(CommandRow)
    BY <2>1, <2>2
  <2>4. Len(log') \in Nat /\ DOMAIN log' = 1..Len(log')
    BY <2>3, LenProperties
  <2> QED BY <2>1, <2>2, <2>3, <2>4 DEF Rows
<1>6. Advances
  BY <1>4, <1>5 DEF Advances
<1>7. Slots'
  <2>1. \A s \in DOMAIN pending : pending[s] \in Rows /\ pending[s] \notin rows
    BY <1>2 DEF CInv, Slots
  <2>2. \A s \in DOMAIN pending : log'[pending[s]] = log[pending[s]]
    BY <1>4, <2>1
  <2> QED BY <1>1, <1>4, <1>5, <2>2 DEF CInv, Slots
<1>8. Pairings' /\ Grows
  BY <1>1, PairingsKept DEF CInv
<1>9. Orders' /\ Wires'
  <2>1. CASE UNCHANGED service
    <3>1. Orders'
      BY <1>1, <1>6, <2>1, OrdersKept DEF CInv
    <3>2. Wires'
      BY <1>1, <1>8, <2>1, WiresKept DEF CInv, machines
    <3> QED BY <3>1, <3>2
  <2>2. CASE /\ service' = [service EXCEPT ![q.machine] = Idle]
             /\ q.machine \in Machines /\ loaded[q.machine] # 0
    <3>1. Orders'
      BY <1>1, <1>6, <2>2, OrdersMoveOn DEF CInv, Idle
    <3>2. Wires'
      BY <1>1, <1>8, <2>2 DEF CInv, Wires, Grows, Idle
    <3> QED BY <3>1, <3>2
  <2> QED BY <1>1, <2>1, <2>2, ServiceAnswered DEF CInv
<1> QED BY <1>7, <1>8, <1>9 DEF CInv

------------------------------------------------------------------------------
(* The machines.                                                           *)

\* What a machine does by itself touches no table and no slot.
LEMMA TablesKept ==
  ASSUME CInv, UNCHANGED <<tables, pending>>
  PROVE  Pairings' /\ Grows /\ Slots' /\ Advances
BY PairingsKept, SlotsKept DEF CInv, tables

LEMMA SetupCInv ==
  ASSUME CInv, NEW m \in Machines,
         \/ \E t \in DOMAIN tokens : StartSetup(m, t)
         \/ SetupGivesUp(m) \/ SaveCredential(m)
  PROVE  CInv'
<1>1. UNCHANGED <<tables, pending, loaded, service, executed>>
  BY DEF StartSetup, SetupGivesUp, SaveCredential
<1>2. Pairings' /\ Grows /\ Slots' /\ Advances /\ Credentials' = Credentials
  BY <1>1, TablesKept DEF tables, Credentials
<1>3. Orders'
  BY <1>1, <1>2, OrdersKept DEF CInv
<1>4. Wires'
  <2>1. ASSUME NEW t \in DOMAIN tokens, StartSetup(m, t) PROVE Wires'
    <3>1. /\ net' = net \cup {Register(m, t)} /\ saved' = saved
          /\ setup' = [setup EXCEPT ![m] = Waits(Register(m, t))]
      BY <2>1 DEF StartSetup, Setup
    <3>2. /\ Register(m, t).machine = m /\ Register(m, t).kind = "register"
          /\ Register(m, t).token = t
      BY DEF Register
    <3> QED BY <1>1, <1>2, <3>1, <3>2 DEF CInv, Wires, Grows, Waits
  <2>2. CASE SetupGivesUp(m) \/ SaveCredential(m)
    <3>1. /\ net' = net /\ setup' = [setup EXCEPT ![m] = Idle]
          /\ saved' \in [Machines -> Credentials \cup {0}]
      BY <2>2 DEF SetupGivesUp, SaveCredential, Setup, CInv, Wires
    <3> QED BY <1>1, <1>2, <3>1 DEF CInv, Wires, Grows, Idle
  <2> QED BY <2>1, <2>2
<1> QED BY <1>2, <1>3, <1>4 DEF CInv

\* A request of the service: it was started with a credential.
LEMMA SendingWires ==
  ASSUME CInv, NEW m \in Machines, loaded[m] # 0, Grows, Credentials' = Credentials,
         NEW q, q.machine = m, q.kind # "register", q.credential = loaded[m],
         net' = net \cup {q}, service' = [service EXCEPT ![m] = Waits(q)],
         UNCHANGED <<saved, loaded, setup>>
  PROVE  Wires'
BY DEF CInv, Wires, Grows, Waits

LEMMA SendHeartbeatCInv ==
  ASSUME CInv, NEW m \in Machines, SendHeartbeat(m)
  PROVE  CInv'
<1>1. /\ UNCHANGED <<tables, pending, saved, loaded, setup, executed>>
      /\ loaded[m] # 0
      /\ service' = [service EXCEPT ![m] = Waits(Beat(m))]
      /\ net' = net \cup {Beat(m)}
  BY DEF SendHeartbeat, Service
<1>2. Pairings' /\ Grows /\ Slots' /\ Advances /\ Credentials' = Credentials
  BY <1>1, TablesKept DEF tables, Credentials
<1>3. Orders'
  BY <1>1, <1>2, OrdersMoveOn DEF CInv, Waits
<1>4. Wires'
  BY <1>1, <1>2, SendingWires DEF Beat
<1> QED BY <1>2, <1>3, <1>4 DEF CInv

\* The one machine that holds the row carries it out and lets go of it.
LEMMA ExecuteCInv ==
  ASSUME CInv, NEW m \in Machines, Execute(m)
  PROVE  CInv'
<1> DEFINE p == service[m].row
<1>1. PICK ok \in BOOLEAN :
        /\ SendResult(m, log[p].command, ok)
        /\ executed' = IF ok THEN executed \cup {p} ELSE executed
  BY DEF Execute
<1>2. UNCHANGED <<tables, pending, saved, loaded, setup>> /\ service[m].at = "ordered"
  BY DEF Execute
<1>3. Pairings' /\ Grows /\ Slots' /\ Advances /\ Credentials' = Credentials
  BY <1>2, TablesKept DEF tables, Credentials
<1> DEFINE q == Result(m, log[p].command, ok)
<1>4. net' = net \cup {q} /\ service' = [service EXCEPT ![m] = Waits(q)]
  BY <1>1 DEF SendResult, Service
<1>5. loaded[m] # 0
  BY <1>2 DEF CInv, Wires
<1>6. Wires'
  BY <1>2, <1>3, <1>4, <1>5, SendingWires DEF Result
<1>7. /\ Holds(m, p) /\ p \in Rows /\ log[p].status # "pending"
      /\ \A n \in Machines : Holds(n, p) => n = m
  BY <1>2 DEF CInv, Orders, DeliveredOnce, Holds
<1>8. /\ DOMAIN service' = Machines
      /\ service'[m].at = "waits"
      /\ \A n \in Machines : n # m => service'[n] = service[n]
  BY <1>4 DEF CInv, Wires, Waits
<1>9. log' = log /\ Rows' = Rows /\ executed' \subseteq executed \cup {p}
  BY <1>1, <1>2 DEF tables, Rows
<1>10. Orders'
  <2>1. \A n \in Machines : \A r : Holds(n, r)' => Holds(n, r) /\ n # m
    BY <1>8 DEF Holds, Ordered
  <2>2. DeliveredOnce'
    BY <1>7, <1>9, <2>1 DEF CInv, Orders, DeliveredOnce
  <2> QED BY <1>7, <1>8, <1>9, <2>2 DEF CInv, Orders
<1> QED BY <1>3, <1>6, <1>10 DEF CInv

LEMMA ServiceGivesUpCInv ==
  ASSUME CInv, NEW m \in Machines, ServiceGivesUp(m)
  PROVE  CInv'
<1>1. /\ UNCHANGED <<tables, pending, saved, loaded, setup, executed>>
      /\ service[m].at = "waits"
  BY DEF ServiceGivesUp
<1>2. Pairings' /\ Grows /\ Slots' /\ Advances /\ Credentials' = Credentials
  BY <1>1, TablesKept DEF tables, Credentials
<1>3. loaded[m] # 0
  BY <1>1 DEF CInv, Wires
<1>4. CASE SendResult(m, service[m].request.command, FALSE)
  <2> DEFINE q == Result(m, service[m].request.command, FALSE)
  <2>1. net' = net \cup {q} /\ service' = [service EXCEPT ![m] = Waits(q)]
    BY <1>4 DEF SendResult, Service
  <2>2. Wires'
    BY <1>1, <1>2, <1>3, <2>1, SendingWires DEF Result
  <2>3. Orders'
    BY <1>1, <1>2, <2>1, OrdersMoveOn DEF CInv, Waits
  <2> QED BY <1>2, <2>2, <2>3 DEF CInv
<1>5. CASE Service(m, Idle) /\ UNCHANGED net
  <2>1. service' = [service EXCEPT ![m] = Idle] /\ net' = net
    BY <1>5 DEF Service
  <2>2. Orders'
    BY <1>1, <1>2, <2>1, OrdersMoveOn DEF CInv, Idle
  <2>3. Wires'
    BY <1>1, <1>2, <2>1 DEF CInv, Wires, Grows, Idle
  <2> QED BY <1>2, <2>2, <2>3 DEF CInv
<1> QED BY <1>4, <1>5 DEF ServiceGivesUp

LEMMA RestartCInv ==
  ASSUME CInv, NEW m \in Machines, Restart(m)
  PROVE  CInv'
<1>1. /\ UNCHANGED <<tables, pending, net, saved, executed>>
      /\ service' = [service EXCEPT ![m] = Idle]
      /\ loaded' = [loaded EXCEPT ![m] = saved[m]]
      /\ setup' = setup \/ setup' = [setup EXCEPT ![m] = Idle]
  BY DEF Restart, Service
<1>2. Pairings' /\ Grows /\ Slots' /\ Advances /\ Credentials' = Credentials
  BY <1>1, TablesKept DEF tables, Credentials
<1>3. Orders'
  BY <1>1, <1>2, OrdersMoveOn DEF CInv, Idle
<1>4. Wires'
  BY <1>1, <1>2 DEF CInv, Wires, Grows, Idle
<1> QED BY <1>2, <1>3, <1>4 DEF CInv

LEMMA LoseCInv ==
  ASSUME CInv, NEW q \in net, Lose(q)
  PROVE  CInv'
<1>1. UNCHANGED <<tables, pending, machines, executed>> /\ net' = net \ {q}
  BY DEF Lose
<1>2. Pairings' /\ Grows /\ Slots' /\ Advances
  BY <1>1, TablesKept
<1>3. Orders' /\ Wires'
  BY <1>1, <1>2, OrdersKept, WiresKept DEF CInv, machines
<1> QED BY <1>2, <1>3 DEF CInv

LEMMA NextCInv == CInv /\ [Next]_vars => CInv'
<1> SUFFICES ASSUME CInv, [Next]_vars PROVE CInv'
  OBVIOUS
<1>1. CASE Dashboard
  BY <1>1, IssueTokenCInv, DeleteWorkstationCInv, TokenExpiresCInv, QueueCommandCInv
     DEF Dashboard
<1>2. CASE Server
  BY <1>2, ServeRegisterCInv, ServeHeartbeatCInv, ServeResultCInv DEF Server
<1>3. CASE ServerRestart
  BY <1>3, ServerRestartCInv
<1>4. ASSUME NEW m \in Machines, Machine(m) PROVE CInv'
  BY <1>4, SetupCInv, SendHeartbeatCInv, ExecuteCInv, ServiceGivesUpCInv, RestartCInv
     DEF Machine
<1>5. ASSUME NEW q \in net, Lose(q) PROVE CInv'
  BY <1>5, LoseCInv
<1>6. CASE UNCHANGED vars
  <2>1. UNCHANGED <<tables, pending, net, machines, executed>>
    BY <1>6 DEF vars
  <2>2. Pairings' /\ Grows /\ Slots' /\ Advances
    BY <2>1, TablesKept
  <2> QED BY <2>1, <2>2, OrdersKept, WiresKept DEF CInv, machines
<1> QED BY <1>1, <1>2, <1>3, <1>4, <1>5, <1>6 DEF Next

LEMMA ControlInductive == Spec => []CInv
BY InitCInv, NextCInv, PTL DEF Spec

------------------------------------------------------------------------------
(* The theorems.                                                           *)

\* Nothing in the tables, in the memory or on the wire ever names a record, a
\* row or a credential that is not there, deletions of records included.
THEOREM ControlTyped == Spec => []TypeOK
BY CInvTyped, ControlInductive, PTL

\* Each record is paired through a token of its own, each machine with one
\* record, and each token pairs once.
THEOREM PairingsAreOwn == Spec => []PairedByToken
BY CInvTyped, ControlInductive, PTL

\* A command reaches one machine, once, however records are paired anew.
THEOREM DeliveredAtMostOnce == Spec => []DeliveredOnce
BY CInvTyped, ControlInductive, PTL

\* A step that leaves a waiting row pending leaves it in its slot, unless the
\* server forgot all slots.
LEMMA SlotStep ==
  ASSUME CInv, [Next]_vars, NEW s \in DOMAIN pending, log'[pending[s]].status = "pending"
  PROVE  (s \in DOMAIN pending' /\ pending'[s] = pending[s]) \/ DOMAIN pending' = {}
<1>1. CASE UNCHANGED pending
  BY <1>1
<1>2. ASSUME NEW r \in Stations, NEW command \in Commands, QueueCommand(r, command)
      PROVE  s \in DOMAIN pending' /\ pending'[s] = pending[s]
  <2> DEFINE p == pending[r]
             old == [log[p] EXCEPT !.status = "superseded"]
             base == IF r \in DOMAIN pending THEN [log EXCEPT ![p].status = "superseded"] ELSE log
             row == [station |-> r, command |-> command, status |-> "pending"]
  <2>1. /\ pending' = [u \in DOMAIN pending \cup {r} |->
                         IF u = r THEN Len(log) + 1 ELSE pending[u]]
        /\ log' = Append(base, row)
        /\ r \in stations
    BY <1>2 DEF QueueCommand, Queued
  <2>2. CASE s = r
    <3>1. /\ log \in Seq(CommandRow) /\ p \in 1..Len(log) /\ log[p] \in CommandRow
      BY <2>2, ElementOfSeq DEF CInv, Slots, Rows
    <3>2. old \in CommandRow /\ old.status = "superseded"
      BY <3>1 DEF CommandRow
    <3>3. base = [log EXCEPT ![p] = old]
      BY <2>2
    <3>4. row \in CommandRow
      BY DEF CommandRow
    <3> HIDE DEF base, old, row, p
    <3>5. base \in Seq(CommandRow) /\ Len(base) = Len(log) /\ base[p] = old
      BY <3>1, <3>2, <3>3, ExceptSeq
    <3>6. log'[p] = old
      BY <2>1, <3>1, <3>4, <3>5, AppendProperties
    <3> QED BY <2>2, <3>2, <3>6 DEF p
  <2>3. CASE s # r
    BY <2>1, <2>3
  <2> QED BY <2>2, <2>3
<1>3. CASE ServerRestart
  BY <1>3 DEF ServerRestart
<1>4. ASSUME NEW q \in net, ServeHeartbeat(q), pending' # pending
      PROVE  s \in DOMAIN pending' /\ pending'[s] = pending[s]
  <2>1. PICK r \in Station(q) \cap DOMAIN pending :
          /\ log' = [log EXCEPT ![pending[r]].status = "sent"]
          /\ pending' = Taken(r)
    BY <1>4 DEF ServeHeartbeat
  <2>2. CASE s = r
    <3> DEFINE p == pending[r]
    <3>1. p \in DOMAIN log /\ log[p] \in CommandRow
      BY LenProperties, ElementOfSeq DEF CInv, Slots, Rows
    <3>2. log'[p] = [log[p] EXCEPT !.status = "sent"]
      BY <2>1, <3>1
    <3>3. log'[p].status = "sent"
      BY <3>1, <3>2 DEF CommandRow
    <3> QED BY <2>2, <3>3
  <2>3. CASE s # r
    BY <2>1, <2>3 DEF Taken
  <2> QED BY <2>2, <2>3
<1>5. \/ UNCHANGED pending
      \/ \E r \in Stations, command \in Commands : QueueCommand(r, command)
      \/ ServerRestart
      \/ \E q \in net : ServeHeartbeat(q)
  <2>1. Dashboard => \/ UNCHANGED pending
                     \/ \E r \in Stations, command \in Commands : QueueCommand(r, command)
    BY DEF Dashboard, IssueToken, DeleteWorkstation, TokenExpires
  <2>2. Server => UNCHANGED pending \/ \E q \in net : ServeHeartbeat(q)
    BY DEF Server, ServeRegister, ServeResult
  <2>3. \A m \in Machines : Machine(m) => UNCHANGED pending
    BY DEF Machine, StartSetup, SetupGivesUp, SaveCredential, SendHeartbeat, Execute,
           ServiceGivesUp, Restart
  <2>4. \A q \in net : Lose(q) => UNCHANGED pending
    BY DEF Lose
  <2>5. UNCHANGED vars => UNCHANGED pending
    BY DEF vars
  <2> QED BY <2>1, <2>2, <2>3, <2>4, <2>5 DEF Next
<1> QED BY <1>1, <1>2, <1>3, <1>4, <1>5

\* A queued command leaves its slot only sent, superseded or by a restart of
\* the server, so no row says "pending" of an order that was sent or replaced.
THEOREM SlotsAccounted == Spec => PendingAccounted
<1>1. CInv /\ [Next]_vars =>
        [\A s \in DOMAIN pending :
           log'[pending[s]].status = "pending" =>
             (s \in DOMAIN pending' /\ pending'[s] = pending[s]) \/ DOMAIN pending' = {}]_vars
  BY SlotStep
<1> QED BY <1>1, ControlInductive, PTL DEF Spec, PendingAccounted

------------------------------------------------------------------------------
(* A record shows no more commands carried out than were.  A result names  *)
(* no row; with the successes on their way counted, the shown never exceed *)
(* the carried out.  Only the machine of the credential executes (Home).   *)

RowsOf(s, c)  == {r \in Rows : log[r].station = s /\ log[r].command = c}
Shown(s, c)   == {r \in RowsOf(s, c) : log[r].status = "ok"}
Carried(s, c) == RowsOf(s, c) \cap executed
Successes     == {q \in net : q.kind = "result" /\ q.ok}
Reported(s, c) == {q \in Successes : q.command = c /\ issued[q.credential].station = s}

Backed ==
  \A s \in Stations, c \in Commands :
    Cardinality(Shown(s, c)) + Cardinality(Reported(s, c)) <= Cardinality(Carried(s, c))

\* A service waits with the credential it was started with, and an order is of the record that
\* this credential was issued for.
HomeOf(m) ==
  /\ service[m].at = "waits" =>
       service[m] = Waits(service[m].request) /\ service[m].request.credential = loaded[m]
  /\ service[m].at = "ordered" => log[service[m].row].station = issued[loaded[m]].station

BInv == CInv /\ IsFiniteSet(net) /\ (\A m \in Machines : HomeOf(m)) /\ Backed

\* What rows and credentials are about never changes.
Steady ==
  /\ Rows \subseteq Rows' /\ Credentials \subseteq Credentials'
  /\ \A r \in Rows : log'[r].station = log[r].station /\ log'[r].command = log[r].command
  /\ \A c \in Credentials : issued'[c] = issued[c]

NoNewOk == \A r \in Rows' : log'[r].status = "ok" => r \in Rows /\ log[r].status = "ok"

LEMMA BFinite ==
  ASSUME BInv, NEW s, NEW c
  PROVE  /\ IsFiniteSet(Shown(s, c)) /\ IsFiniteSet(Carried(s, c)) /\ IsFiniteSet(Reported(s, c))
         /\ Cardinality(Shown(s, c)) \in Nat /\ Cardinality(Carried(s, c)) \in Nat
         /\ Cardinality(Reported(s, c)) \in Nat
<1>1. IsFiniteSet(Rows)
  <2>1. Len(log) \in Nat
    BY LenProperties DEF BInv, CInv, Slots
  <2> QED BY <2>1, FS_Interval DEF Rows
<1>2. Shown(s, c) \in SUBSET Rows /\ Carried(s, c) \in SUBSET Rows
  BY DEF Shown, Carried, RowsOf
<1>3. Reported(s, c) \in SUBSET net
  BY DEF Reported, Successes
<1> QED BY <1>1, <1>2, <1>3, FS_Subset, FS_CardinalityType DEF BInv

\* A step that shows nothing new and reports nothing new.
LEMMA BackedKept ==
  ASSUME BInv, Steady, NoNewOk, executed \subseteq executed', IsFiniteSet(Rows'),
         \A q \in net' : q.kind = "result" /\ q.ok => q \in net
  PROVE  Backed'
<1> SUFFICES ASSUME NEW s \in Stations, NEW c \in Commands
             PROVE  (Cardinality(Shown(s, c)) + Cardinality(Reported(s, c))
                       <= Cardinality(Carried(s, c)))'
  BY DEF Backed
<1>1. Shown(s, c)' \in SUBSET Shown(s, c)
  BY DEF Shown, RowsOf, Steady, NoNewOk
<1>2. Reported(s, c)' \in SUBSET Reported(s, c)
  <2>1. \A q \in net : q.kind = "result" => q.credential \in Credentials
    BY DEF BInv, CInv, Wires
  <2> QED BY <2>1 DEF Reported, Successes, Steady
<1>3. Carried(s, c) \in SUBSET Carried(s, c)'
  BY DEF Carried, RowsOf, Steady, BInv, CInv, Orders
<1>4. IsFiniteSet(Carried(s, c)')
  <2>1. Carried(s, c)' \in SUBSET Rows'
    BY DEF Carried, RowsOf
  <2> QED BY <2>1, FS_Subset
<1> PICK sh, re, ca : sh = Cardinality(Shown(s, c)) /\ re = Cardinality(Reported(s, c))
                      /\ ca = Cardinality(Carried(s, c))
  OBVIOUS
<1>5. sh \in Nat /\ re \in Nat /\ ca \in Nat /\ sh + re <= ca
  BY BFinite DEF BInv, Backed
<1> PICK sh2, re2, ca2 : sh2 = Cardinality(Shown(s, c)') /\ re2 = Cardinality(Reported(s, c)')
                         /\ ca2 = Cardinality(Carried(s, c)')
  OBVIOUS
<1>6. /\ sh2 \in Nat /\ sh2 <= sh /\ re2 \in Nat /\ re2 <= re /\ ca2 \in Nat /\ ca <= ca2
  BY <1>1, <1>2, <1>3, <1>4, BFinite, FS_Subset, FS_CardinalityType
<1>7. sh2 + re2 <= ca2
  BY ONLY <1>5, <1>6
<1> QED BY <1>7

LEMMA StationHome ==
  ASSUME CInv, NEW q \in net, q.kind # "register", NEW s \in Station(q)
  PROVE  s \in stations /\ issued[q.credential].station = s
<1>1. s \in stations /\ paired[s] = [agent |-> q.machine, credential |-> q.credential]
  BY DEF Station
<1>2. q.machine \in Machines /\ q.credential \in Nat
  BY DEF CInv, Wires, Credentials
<1>3. paired[s] # Nobody
  BY <1>1, <1>2, ControlAssumption
<1>4. issued[paired[s].credential].station = s
  BY <1>1, <1>3 DEF CInv, Pairings, PairedByToken
<1> QED BY <1>1, <1>4

\* One row changes its status.
LEMMA StatusSet ==
  ASSUME CInv, NEW p \in Rows, NEW st, log' = [log EXCEPT ![p].status = st], st # "ok"
  PROVE  /\ Rows' = Rows /\ NoNewOk
         /\ \A r \in Rows : log'[r].station = log[r].station /\ log'[r].command = log[r].command
<1>1. log \in Seq(CommandRow) /\ DOMAIN log = 1..Len(log) /\ Len(log) \in Nat
      /\ \A r \in Rows : log[r] \in CommandRow
  BY LenProperties, ElementOfSeq DEF CInv, Slots, Rows
<1>2. /\ DOMAIN log' = 1..Len(log) /\ log'[p] = [log[p] EXCEPT !.status = st]
      /\ \A r \in Rows \ {p} : log'[r] = log[r]
  BY <1>1 DEF Rows
<1>3. /\ log'[p].station = log[p].station /\ log'[p].command = log[p].command
      /\ log'[p].status = st
  BY <1>1, <1>2 DEF CommandRow
<1>4. Len(log') = Len(log)
  BY <1>1, <1>2
<1> QED BY <1>2, <1>3, <1>4 DEF Rows, NoNewOk

LEMMA Unmoved ==
  ASSUME BInv, UNCHANGED <<log, issued>>
  PROVE  Steady /\ NoNewOk
BY DEF Steady, NoNewOk, Rows, Credentials

LEMMA HomeStays ==
  ASSUME BInv, Steady, NEW m \in Machines, service'[m] = service[m], loaded'[m] = loaded[m]
  PROVE  HomeOf(m)'
<1>1. HomeOf(m)
  BY DEF BInv
<1>2. service[m].at = "ordered" => service[m].row \in Rows /\ loaded[m] \in Credentials
  BY DEF BInv, CInv, Orders, Wires
<1> QED BY <1>1, <1>2 DEF HomeOf, Steady

LEMMA HomeIdle == ASSUME NEW m, service'[m] = Idle PROVE HomeOf(m)'
BY DEF HomeOf, Idle

LEMMA HomeWaits ==
  ASSUME NEW m, NEW q, service'[m] = Waits(q), q.credential = loaded'[m]
  PROVE  HomeOf(m)'
<1>1. Waits(q).at = "waits" /\ Waits(q).request = q
  BY DEF Waits
<1> QED BY <1>1 DEF HomeOf

LEMMA BKept ==
  ASSUME BInv, CInv', Steady, NoNewOk, executed' = executed, IsFiniteSet(net'),
         \A q \in net' : q.kind = "result" /\ q.ok => q \in net,
         \A m \in Machines : HomeOf(m)'
  PROVE  BInv'
<1>1. IsFiniteSet(Rows')
  <2>1. Len(log') \in Nat
    BY LenProperties DEF CInv, Slots
  <2> QED BY <2>1, FS_Interval DEF Rows
<1>2. Backed'
  BY <1>1, BackedKept
<1> QED BY <1>2 DEF BInv

\* Steps that leave the services, the executions and the rows alone.
LEMMA BAside ==
  ASSUME BInv, CInv', Steady, NoNewOk, UNCHANGED <<service, loaded, executed>>,
         IsFiniteSet(net'), \A q \in net' : q.kind = "result" /\ q.ok => q \in net
  PROVE  BInv'
<1>1. \A m \in Machines : HomeOf(m)'
  BY HomeStays
<1> QED BY <1>1, BKept

LEMMA DashboardB ==
  ASSUME BInv, CInv', Dashboard \/ ServerRestart
  PROVE  BInv'
<1>1. UNCHANGED <<net, machines, executed, issued>>
  BY DEF Dashboard, IssueToken, DeleteWorkstation, TokenExpires, QueueCommand, ServerRestart, tables
<1>2. UNCHANGED log => BInv'
  BY <1>1, Unmoved, BAside DEF machines, BInv
<1>3. ASSUME NEW s \in Stations, NEW command \in Commands, QueueCommand(s, command) PROVE BInv'
  <2> PICK base, row : /\ base = (IF s \in DOMAIN pending
                                  THEN [log EXCEPT ![pending[s]].status = "superseded"] ELSE log)
                       /\ row = [station |-> s, command |-> command, status |-> "pending"]
    OBVIOUS
  <2>1. log' = Append(base, row) /\ row \in CommandRow
    BY <1>3 DEF QueueCommand, Queued, CommandRow
  <2>2. /\ log \in Seq(CommandRow) /\ Len(log) \in Nat /\ DOMAIN log = 1..Len(log)
        /\ \A r \in Rows : log[r] \in CommandRow
    BY LenProperties, ElementOfSeq DEF BInv, CInv, Slots, Rows
  <2>3. /\ base \in Seq(CommandRow) /\ Len(base) = Len(log)
        /\ \A r \in Rows : /\ base[r].station = log[r].station /\ base[r].command = log[r].command
                           /\ base[r].status = "ok" => log[r].status = "ok"
    <3>1. CASE s \notin DOMAIN pending
      BY <2>2, <3>1
    <3>2. CASE s \in DOMAIN pending
      <4> PICK p, old : p = pending[s] /\ old = [log[p] EXCEPT !.status = "superseded"]
        OBVIOUS
      <4>1. p \in 1..Len(log) /\ p \in Rows
        BY <3>2 DEF BInv, CInv, Slots, Rows
      <4>2. /\ old \in CommandRow /\ old.station = log[p].station /\ old.command = log[p].command
            /\ old.status = "superseded"
        BY <2>2, <4>1 DEF CommandRow
      <4>3. base = [log EXCEPT ![p] = old]
        BY <3>2
      <4>4. /\ base \in Seq(CommandRow) /\ Len(base) = Len(log)
            /\ \A r \in 1..Len(log) : base[r] = IF r = p THEN old ELSE log[r]
        BY ONLY <2>2, <4>1, <4>2, <4>3, ExceptSeq
      <4> QED BY <4>2, <4>4 DEF Rows
    <3> QED BY <3>1, <3>2
  <2>4. /\ Len(log') = Len(log) + 1 /\ \A r \in Rows : log'[r] = base[r]
        /\ log'[Len(log) + 1] = row /\ row.status # "ok"
    BY <2>1, <2>3, AppendProperties DEF Rows
  <2>5. Rows \subseteq Rows' /\ \A r \in Rows' : r \in Rows \/ r = Len(log) + 1
    BY <2>2, <2>4 DEF Rows
  <2>6. Steady
    BY <1>1, <2>3, <2>4, <2>5 DEF Steady, Credentials
  <2>7. NoNewOk
    BY <2>3, <2>4, <2>5 DEF NoNewOk
  <2> QED BY <1>1, <2>6, <2>7, BAside DEF machines, BInv
<1> QED BY <1>2, <1>3 DEF Dashboard, IssueToken, DeleteWorkstation, TokenExpires, ServerRestart, tables

LEMMA RegisterB ==
  ASSUME BInv, CInv', NEW q \in net, ServeRegister(q)
  PROVE  BInv'
<1>1. net' = net \ {q} /\ UNCHANGED <<log, loaded, service, executed>>
  BY DEF ServeRegister
<1>2. IsFiniteSet(net')
  BY <1>1, FS_RemoveElement DEF BInv
<1>3. /\ Credentials \subseteq Credentials'
      /\ \A c \in Credentials : issued'[c] = issued[c]
  <2>1. CASE UNCHANGED issued
    BY <2>1 DEF Credentials
  <2>2. CASE pairAgent(q)
    <3> PICK new : new = [station |-> tokens[q.token].station, machine |-> q.machine,
                          token |-> q.token]
      OBVIOUS
    <3>1. issued' = Append(issued, new)
      BY <2>2 DEF pairAgent
    <3>2. issued \in Seq(IssuedRow) /\ Len(issued) \in Nat
      BY LenProperties DEF BInv, CInv, Pairings
    <3>3. Len(issued') = Len(issued) + 1 /\ \A c \in 1..Len(issued) : issued'[c] = issued[c]
      BY <3>1, <3>2
    <3> QED BY <3>2, <3>3 DEF Credentials
  <2> QED BY <2>1, <2>2 DEF ServeRegister, BurnToken
<1>4. Steady /\ NoNewOk
  BY <1>1, <1>3 DEF Steady, NoNewOk, Rows
<1> QED BY <1>1, <1>2, <1>4, BAside

\* The service that is answered, and the others.
LEMMA AnsweredHome ==
  ASSUME BInv, Steady, NEW q \in net, q.machine \in Machines, loaded' = loaded,
         NEW answered, UNCHANGED service \/ Answer(q, service, answered),
         Waits(q) = service[q.machine] /\ service'[q.machine] = answered => HomeOf(q.machine)'
  PROVE  \A m \in Machines : HomeOf(m)'
<1> SUFFICES ASSUME NEW m \in Machines PROVE HomeOf(m)'
  OBVIOUS
<1>1. CASE service'[m] = service[m]
  BY <1>1, HomeStays
<1>2. CASE service'[m] # service[m]
  <2>1. service[q.machine] = Waits(q) /\ service' = [service EXCEPT ![q.machine] = answered]
    BY <1>2 DEF Answer
  <2>2. m = q.machine /\ service'[q.machine] = answered
    BY <1>2, <2>1 DEF BInv, CInv, Wires
  <2> QED BY <2>1, <2>2
<1> QED BY <1>1, <1>2

LEMMA HeartbeatB ==
  ASSUME BInv, CInv', NEW q \in net, ServeHeartbeat(q)
  PROVE  BInv'
<1>1. /\ net' = net \ {q} /\ q.kind = "heartbeat"
      /\ UNCHANGED <<stations, paired, tokens, issued, saved, loaded, setup, executed>>
  BY DEF ServeHeartbeat
<1>2. IsFiniteSet(net') /\ q.machine \in Machines
  BY <1>1, FS_RemoveElement DEF BInv, CInv, Wires
<1>3. ASSUME UNCHANGED log, UNCHANGED service \/ Answer(q, service, Idle) PROVE BInv'
  <2>1. Steady /\ NoNewOk
    BY <1>1, <1>3, Unmoved
  <2>2. \A m \in Machines : HomeOf(m)'
    BY <1>1, <1>2, <1>3, <2>1, HomeIdle, AnsweredHome
  <2> QED BY <1>1, <1>2, <2>1, <2>2, BKept
<1>4. ASSUME NEW s \in Station(q) \cap DOMAIN pending,
             log' = [log EXCEPT ![pending[s]].status = "sent"],
             Answer(q, service, Ordered(pending[s]))
      PROVE  BInv'
  <2> PICK p : p = pending[s]
    OBVIOUS
  <2>1. p \in Rows /\ log[p].station = s
    BY DEF BInv, CInv, Slots
  <2>2. log' = [log EXCEPT ![p].status = "sent"] /\ Answer(q, service, Ordered(p))
    BY <1>4
  <2>3. /\ Rows' = Rows /\ NoNewOk
        /\ \A r \in Rows : log'[r].station = log[r].station /\ log'[r].command = log[r].command
    BY <2>1, <2>2, StatusSet DEF BInv
  <2>4. Steady
    BY <1>1, <2>3 DEF Steady, Credentials
  <2>5. ASSUME Waits(q) = service[q.machine], service'[q.machine] = Ordered(p)
        PROVE  HomeOf(q.machine)'
    <3>1. Waits(q).at = "waits" /\ Waits(q).request = q
      BY DEF Waits
    <3>2. q.credential = loaded[q.machine]
      BY <1>2, <2>5, <3>1 DEF BInv, HomeOf
    <3>3. issued[loaded[q.machine]].station = s
      BY <1>1, <3>2, StationHome DEF BInv
    <3>4. Ordered(p).at = "ordered" /\ Ordered(p).row = p
      BY DEF Ordered
    <3> QED BY <1>1, <2>1, <2>3, <2>5, <3>3, <3>4 DEF HomeOf
  <2>6. \A m \in Machines : HomeOf(m)'
    BY <1>1, <1>2, <2>2, <2>4, <2>5, AnsweredHome
  <2> QED BY <1>1, <1>2, <2>3, <2>4, <2>6, BKept
<1> QED BY <1>3, <1>4 DEF ServeHeartbeat

\* A success turns the row it is booked on from sent to ok, and is gone.
LEMMA ResultB ==
  ASSUME BInv, CInv', NEW q \in net, ServeResult(q)
  PROVE  BInv'
<1> PICK sent, end : /\ sent = {r \in Rows : /\ log[r].station \in Station(q)
                                             /\ log[r].command = q.command
                                             /\ log[r].status = "sent"}
                     /\ end = IF q.ok THEN "ok" ELSE "failed"
  OBVIOUS
<1>1. /\ q.kind = "result" /\ net' = net \ {q}
      /\ UNCHANGED service \/ Answer(q, service, Idle)
      /\ UNCHANGED <<stations, paired, tokens, issued, pending, saved, loaded, setup, executed>>
  BY DEF ServeResult
<1>2. log' = [r \in Rows |-> IF r \in Latest(sent) THEN [log[r] EXCEPT !.status = end] ELSE log[r]]
  BY DEF ServeResult
<1>3. Latest(sent) \subseteq sent /\ \A r, o \in Latest(sent) : r = o
  <2>1. \A r \in Latest(sent) : r \in sent /\ r \in Nat /\ \A o \in sent : o <= r
    BY DEF Latest, Rows
  <2>2. \A r, o \in Latest(sent) : r \in Nat /\ o \in Nat /\ r <= o /\ o <= r
    BY <2>1
  <2>3. \A a, b \in Nat : a <= b /\ b <= a => a = b
    OBVIOUS
  <2> QED BY <2>1, <2>2, <2>3
<1>4. /\ \A r \in Rows : log[r] \in CommandRow
      /\ Len(log) \in Nat
  BY LenProperties, ElementOfSeq DEF BInv, CInv, Slots, Rows
<1>5. Rows' = Rows
  <2>1. DOMAIN log' = 1..Len(log)
    BY <1>2 DEF Rows
  <2>2. DOMAIN log' = 1..Len(log') /\ Len(log') \in Nat
    BY LenProperties DEF CInv, Slots
  <2> QED BY <1>4, <2>1, <2>2 DEF Rows
<1>6. ASSUME NEW r \in Rows
      PROVE  /\ log'[r].station = log[r].station /\ log'[r].command = log[r].command
             /\ log'[r].status = IF r \in Latest(sent) THEN end ELSE log[r].status
  <2>1. log'[r] = IF r \in Latest(sent) THEN [log[r] EXCEPT !.status = end] ELSE log[r]
    BY <1>2
  <2> QED BY <1>4, <2>1 DEF CommandRow
<1>7. Steady
  BY <1>1, <1>5, <1>6 DEF Steady, Credentials
<1>8. IsFiniteSet(net') /\ q.machine \in Machines
  BY <1>1, FS_RemoveElement DEF BInv, CInv, Wires
<1>9. \A m \in Machines : HomeOf(m)'
  BY <1>1, <1>7, <1>8, HomeIdle, AnsweredHome
<1>10. CASE ~ q.ok
  <2>1. end # "ok"
    BY <1>10
  <2>2. NoNewOk
    BY <1>5, <1>6, <2>1 DEF NoNewOk
  <2> QED BY <1>1, <1>7, <1>8, <1>9, <2>2, BKept
<1>11. CASE q.ok
  <2>1. \A r \in Latest(sent) : /\ log[r].station = issued[q.credential].station
                                /\ log[r].command = q.command
    BY <1>1, <1>3, StationHome DEF BInv
  <2>2. q.credential \in Credentials /\ q \in Successes
    BY <1>1, <1>11 DEF BInv, CInv, Wires, Successes
  <2>3. ASSUME NEW s \in Stations, NEW c \in Commands
        PROVE  (Cardinality(Shown(s, c)) + Cardinality(Reported(s, c)) <= Cardinality(Carried(s, c)))'
    <3>1. Carried(s, c)' = Carried(s, c)
      BY <1>1, <1>5, <1>6 DEF Carried, RowsOf
    <3>2. Reported(s, c)' = Reported(s, c) \ {q}
      <4>1. Successes' = Successes \ {q}
        BY <1>1 DEF Successes
      <4>2. issued' = issued
        BY <1>1
      <4> QED BY <4>1, <4>2 DEF Reported
    <3>3. \A r \in Shown(s, c)' : r \in Shown(s, c) \/ (r \in Latest(sent) /\ r \in RowsOf(s, c))
      BY <1>5, <1>6 DEF Shown, RowsOf
    <3> PICK sh, re, ca : sh = Cardinality(Shown(s, c)) /\ re = Cardinality(Reported(s, c))
                          /\ ca = Cardinality(Carried(s, c))
      OBVIOUS
    <3>4. sh \in Nat /\ re \in Nat /\ ca \in Nat /\ sh + re <= ca
      BY BFinite DEF BInv, Backed
    <3> PICK sh2, re2 : sh2 = Cardinality(Shown(s, c)') /\ re2 = Cardinality(Reported(s, c)')
      OBVIOUS
    <3>5. CASE Latest(sent) \cap RowsOf(s, c) = {}
      <4>1. Shown(s, c)' \in SUBSET Shown(s, c) /\ Reported(s, c)' \in SUBSET Reported(s, c)
        BY <3>2, <3>3, <3>5
      <4>2. sh2 \in Nat /\ sh2 <= sh /\ re2 \in Nat /\ re2 <= re
        BY <4>1, BFinite, FS_Subset, FS_CardinalityType
      <4>3. sh2 + re2 <= ca
        BY ONLY <3>4, <4>2
      <4> QED BY <3>1, <4>3
    <3>6. ASSUME NEW r \in Latest(sent) \cap RowsOf(s, c)
          PROVE  Cardinality(Shown(s, c)') + Cardinality(Reported(s, c)') <= Cardinality(Carried(s, c)')
      <4>1. q \in Reported(s, c)
        BY <2>1, <2>2 DEF Reported, RowsOf
      <4>2. Shown(s, c)' \in SUBSET (Shown(s, c) \cup {r})
        BY <1>3, <3>3
      <4>3. /\ IsFiniteSet(Shown(s, c) \cup {r})
            /\ Cardinality(Shown(s, c) \cup {r}) = IF r \in Shown(s, c) THEN sh ELSE sh + 1
        BY BFinite, FS_AddElement
      <4> PICK both : both = Cardinality(Shown(s, c) \cup {r})
        OBVIOUS
      <4>4. both \in Nat /\ both <= sh + 1
        BY ONLY <4>3, <3>4, both = Cardinality(Shown(s, c) \cup {r})
      <4>5. sh2 \in Nat /\ sh2 <= both
        BY <4>2, <4>3, FS_Subset, FS_CardinalityType
      <4>6. re2 = re - 1
        <5>1. IsFiniteSet(Reported(s, c))
          BY BFinite
        <5>2. Cardinality(Reported(s, c) \ {q}) = re - 1
          BY <4>1, <5>1, FS_RemoveElement
        <5> QED BY <3>2, <5>2
      <4>7. sh2 + re2 <= ca
        BY ONLY <3>4, <4>4, <4>5, <4>6
      <4> QED BY <3>1, <4>7
    <3> QED BY <3>5, <3>6
  <2> QED BY <1>8, <1>9, <2>3 DEF BInv, Backed
<1> QED BY <1>10, <1>11

LEMMA MachineQuietB ==
  ASSUME BInv, CInv', NEW m \in Machines,
         \/ \E t \in DOMAIN tokens : StartSetup(m, t)
         \/ SetupGivesUp(m) \/ SaveCredential(m) \/ SendHeartbeat(m)
         \/ ServiceGivesUp(m) \/ Restart(m)
  PROVE  BInv'
<1>1. UNCHANGED <<tables, pending, executed>>
  BY DEF StartSetup, SetupGivesUp, SaveCredential, SendHeartbeat, ServiceGivesUp, Restart
<1>2. Steady /\ NoNewOk
  BY <1>1, Unmoved DEF tables
<1>3. ASSUME NEW q, net' = net \cup {q}, ~ (q.kind = "result" /\ q.ok), loaded' = loaded,
             \/ service' = service
             \/ service' = [service EXCEPT ![m] = Waits(q)] /\ q.credential = loaded[m]
      PROVE  BInv'
  <2>1. IsFiniteSet(net')
    BY <1>3, FS_AddElement DEF BInv
  <2>2. ASSUME NEW n \in Machines PROVE HomeOf(n)'
    <3>1. CASE service'[n] = service[n]
      BY <1>2, <1>3, <3>1, HomeStays
    <3>2. CASE service'[n] # service[n]
      <4>1. n = m /\ service'[m] = Waits(q) /\ q.credential = loaded'[m]
        BY <1>3, <3>2 DEF BInv, CInv, Wires
      <4> QED BY <4>1, HomeWaits
    <3> QED BY <3>1, <3>2
  <2> QED BY <1>1, <1>2, <1>3, <2>1, <2>2, BKept
<1>4. ASSUME net' = net, loaded' = loaded \/ loaded' = [loaded EXCEPT ![m] = saved[m]],
             \/ service' = service /\ loaded' = loaded
             \/ service' = [service EXCEPT ![m] = Idle]
      PROVE  BInv'
  <2>1. ASSUME NEW n \in Machines PROVE HomeOf(n)'
    <3>1. CASE service'[n] = service[n] /\ loaded'[n] = loaded[n]
      BY <1>2, <3>1, HomeStays
    <3>2. CASE ~ (service'[n] = service[n] /\ loaded'[n] = loaded[n])
      <4>1. service'[n] = Idle
        BY <1>4, <3>2 DEF BInv, CInv, Wires
      <4> QED BY <4>1, HomeIdle
    <3> QED BY <3>1, <3>2
  <2> QED BY <1>1, <1>2, <1>4, <2>1, BKept DEF BInv
<1>5. ASSUME NEW t \in DOMAIN tokens, StartSetup(m, t) PROVE BInv'
  <2>1. Register(m, t).kind = "register"
    BY DEF Register
  <2>2. net' = net \cup {Register(m, t)} /\ loaded' = loaded /\ service' = service
    BY <1>5 DEF StartSetup
  <2> QED BY <1>3, <2>1, <2>2
<1>6. CASE SetupGivesUp(m) \/ SaveCredential(m)
  BY <1>4, <1>6 DEF SetupGivesUp, SaveCredential
<1>7. CASE SendHeartbeat(m)
  <2>1. Beat(m).kind = "heartbeat" /\ Beat(m).credential = loaded[m]
    BY DEF Beat
  <2>2. net' = net \cup {Beat(m)} /\ loaded' = loaded
        /\ service' = [service EXCEPT ![m] = Waits(Beat(m))]
    BY <1>7 DEF SendHeartbeat, Service
  <2> QED BY <1>3, <2>1, <2>2
<1>8. CASE ServiceGivesUp(m)
  <2> PICK q : q = Result(m, service[m].request.command, FALSE)
    OBVIOUS
  <2>1. ~ q.ok /\ q.credential = loaded[m]
    BY DEF Result
  <2>2. loaded' = loaded /\ \/ service' = [service EXCEPT ![m] = Idle] /\ net' = net
                            \/ /\ net' = net \cup {q}
                               /\ service' = [service EXCEPT ![m] = Waits(q)]
    BY <1>8 DEF ServiceGivesUp, SendResult, Service
  <2> QED BY <1>3, <1>4, <2>1, <2>2
<1>9. CASE Restart(m)
  BY <1>4, <1>9 DEF Restart, Service
<1> QED BY <1>5, <1>6, <1>7, <1>8, <1>9

LEMMA LoseB ==
  ASSUME BInv, CInv', NEW q \in net, Lose(q)
  PROVE  BInv'
<1>1. net' = net \ {q} /\ UNCHANGED <<tables, machines, executed>>
  BY DEF Lose
<1>2. IsFiniteSet(net')
  BY <1>1, FS_RemoveElement DEF BInv
<1>3. Steady /\ NoNewOk
  BY <1>1, Unmoved DEF tables
<1> QED BY <1>1, <1>2, <1>3, BAside DEF machines

\* The machine that carries a row out reports it once; it is of the credential's record.
LEMMA ExecuteB ==
  ASSUME BInv, CInv', NEW m \in Machines, Execute(m)
  PROVE  BInv'
<1> PICK p : p = service[m].row
  OBVIOUS
<1>1. PICK ok \in BOOLEAN :
        /\ SendResult(m, log[p].command, ok)
        /\ executed' = IF ok THEN executed \cup {p} ELSE executed
  BY DEF Execute
<1> PICK q : q = Result(m, log[p].command, ok)
  OBVIOUS
<1>2. UNCHANGED <<tables, pending, saved, loaded, setup>> /\ service[m].at = "ordered"
  BY DEF Execute
<1>3. net' = net \cup {q} /\ service' = [service EXCEPT ![m] = Waits(q)]
  BY <1>1 DEF SendResult, Service
<1>4. q.kind = "result" /\ q.ok = ok /\ q.credential = loaded[m] /\ q.command = log[p].command
  BY DEF Result
<1>5. Steady /\ NoNewOk
  BY <1>2, Unmoved DEF tables
<1>6. IsFiniteSet(net')
  BY <1>3, FS_AddElement DEF BInv
<1>7. ASSUME NEW n \in Machines PROVE HomeOf(n)'
  <2>1. CASE n = m
    BY <1>2, <1>3, <1>4, <2>1, HomeWaits DEF BInv, CInv, Wires
  <2>2. CASE n # m
    BY <1>2, <1>3, <1>5, <2>2, HomeStays DEF BInv, CInv, Wires
  <2> QED BY <2>1, <2>2
<1>8. CASE ~ ok
  <2>1. executed' = executed /\ \A r \in net' : r.kind = "result" /\ r.ok => r \in net
    BY <1>1, <1>3, <1>4, <1>8
  <2> QED BY <1>5, <1>6, <1>7, <2>1, BKept
<1>9. CASE ok
  <2>1. p \in Rows /\ p \notin executed /\ log[p].station = issued[loaded[m]].station
    BY <1>2 DEF BInv, HomeOf, CInv, Orders, DeliveredOnce, Holds
  <2>2. log' = log /\ issued' = issued /\ executed' = executed \cup {p} /\ Rows' = Rows
    BY <1>1, <1>2, <1>9 DEF tables, Rows
  <2>3. ASSUME NEW s \in Stations, NEW c \in Commands
        PROVE  (Cardinality(Shown(s, c)) + Cardinality(Reported(s, c)) <= Cardinality(Carried(s, c)))'
    <3>1. Shown(s, c)' = Shown(s, c) /\ RowsOf(s, c)' = RowsOf(s, c)
      BY <2>2 DEF Shown, RowsOf
    <3> PICK sh, re, ca : sh = Cardinality(Shown(s, c)) /\ re = Cardinality(Reported(s, c))
                          /\ ca = Cardinality(Carried(s, c))
      OBVIOUS
    <3>2. sh \in Nat /\ re \in Nat /\ ca \in Nat /\ sh + re <= ca
      BY BFinite DEF BInv, Backed
    <3> PICK re2, ca2 : re2 = Cardinality(Reported(s, c)') /\ ca2 = Cardinality(Carried(s, c)')
      OBVIOUS
    <3>3. CASE p \in RowsOf(s, c)
      <4>1. Carried(s, c)' = Carried(s, c) \cup {p} /\ p \notin Carried(s, c)
        BY <2>1, <2>2, <3>1, <3>3 DEF Carried
      <4>2. ca2 = ca + 1
        BY <4>1, BFinite, FS_AddElement
      <4>3. Reported(s, c)' \in SUBSET (Reported(s, c) \cup {q})
        BY <1>3, <2>2 DEF Reported, Successes
      <4> PICK both : both = Cardinality(Reported(s, c) \cup {q})
        OBVIOUS
      <4>4. /\ IsFiniteSet(Reported(s, c) \cup {q})
            /\ both = IF q \in Reported(s, c) THEN re ELSE re + 1
        BY BFinite, FS_AddElement
      <4>5. both \in Nat /\ both <= re + 1
        BY ONLY <3>2, <4>4
      <4>6. re2 \in Nat /\ re2 <= both
        BY <4>3, <4>4, FS_Subset, FS_CardinalityType
      <4>7. sh + re2 <= ca2
        BY ONLY <3>2, <4>2, <4>5, <4>6
      <4> QED BY <3>1, <4>7
    <3>4. CASE p \notin RowsOf(s, c)
      <4>1. Carried(s, c)' = Carried(s, c)
        <5>1. Carried(s, c)' = RowsOf(s, c)' \cap executed'
          BY ONLY <3>1 DEF Carried
        <5>2. executed' = executed \cup {p}
          BY ONLY <2>2
        <5> QED BY ONLY <3>1, <3>4, <5>1, <5>2 DEF Carried
      <4>2. Reported(s, c)' = Reported(s, c)
        <5>1. q \notin Reported(s, c)'
          BY <1>4, <2>1, <2>2, <3>4 DEF Reported, RowsOf
        <5> QED BY <1>3, <2>2, <5>1 DEF Reported, Successes
      <4> QED BY <3>1, <3>2, <4>1, <4>2
    <3> QED BY <3>3, <3>4
  <2> QED BY <1>6, <1>7, <2>3 DEF BInv, Backed
<1> QED BY <1>8, <1>9

LEMMA NextB == BInv /\ [Next]_vars => BInv'
<1> SUFFICES ASSUME BInv, [Next]_vars PROVE BInv'
  OBVIOUS
<1>1. CInv'
  BY NextCInv DEF BInv
<1>2. CASE Dashboard \/ ServerRestart
  BY <1>1, <1>2, DashboardB
<1>3. CASE Server
  BY <1>1, <1>3, RegisterB, HeartbeatB, ResultB DEF Server
<1>4. ASSUME NEW m \in Machines, Machine(m) PROVE BInv'
  BY <1>1, <1>4, MachineQuietB, ExecuteB DEF Machine
<1>5. ASSUME NEW q \in net, Lose(q) PROVE BInv'
  BY <1>1, <1>5, LoseB
<1>6. CASE UNCHANGED vars
  <2>1. UNCHANGED <<log, issued, net, service, loaded, executed>>
    BY <1>6 DEF vars, tables, machines
  <2> QED BY <1>1, <2>1, Unmoved, BAside DEF BInv
<1> QED BY <1>2, <1>3, <1>4, <1>5, <1>6 DEF Next

LEMMA InitB == Init => BInv
<1> SUFFICES ASSUME Init PROVE BInv
  OBVIOUS
<1>1. /\ CInv /\ log = <<>> /\ net = {} /\ executed = {}
      /\ \A m \in Machines : service[m] = Idle
  BY InitCInv DEF Init
<1>2. IsFiniteSet(net)
  BY <1>1, FS_EmptySet
<1>3. \A m \in Machines : HomeOf(m)
  BY <1>1 DEF HomeOf, Idle
<1>4. \A s, c : Shown(s, c) = {} /\ Reported(s, c) = {} /\ Carried(s, c) = {}
  BY <1>1 DEF Shown, Reported, Successes, Carried, RowsOf, Rows
<1>5. Backed
  BY <1>4, FS_EmptySet DEF Backed
<1> QED BY <1>1, <1>2, <1>3, <1>5 DEF BInv

\* A result names no row, and a success that is not answered is reported again as a failure; for
\* any records, machines and bounds, what a record shows as carried out was.
THEOREM ResultsBacked == Spec => []OkBacked
<1>1. BInv => OkBacked
  <2> SUFFICES ASSUME BInv, NEW s \in stations, NEW c \in Commands
               PROVE  Cardinality(Shown(s, c)) <= Cardinality(Carried(s, c))
    BY DEF OkBacked, Shown, Carried, RowsOf
  <2>1. s \in Stations
    BY DEF BInv, CInv, Pairings
  <2> PICK sh, re, ca : sh = Cardinality(Shown(s, c)) /\ re = Cardinality(Reported(s, c))
                        /\ ca = Cardinality(Carried(s, c))
    OBVIOUS
  <2>2. sh \in Nat /\ re \in Nat /\ ca \in Nat /\ sh + re <= ca
    BY <2>1, BFinite DEF BInv, Backed
  <2>3. sh <= ca
    BY ONLY <2>2
  <2> QED BY <2>3
<1> QED BY <1>1, InitB, NextB, PTL DEF Spec

------------------------------------------------------------------------------
(* Proof that AgentControl implements CommandDelivery.                     *)

Held(r)    == \E m \in Machines : Holds(m, r)
Slotted(r) == \E s \in DOMAIN pending : pending[s] = r

\* An order that a machine holds was not replaced, and every row has an id.
DInv == CInv /\ Rows \subseteq RowIds /\ \A r \in Rows : Held(r) => log[r].status # "superseded"

\* The statuses of a row that has not left the server.
Early == {"pending", "superseded"}

LEMMA Places ==
  ASSUME DInv, NEW r \in Rows
  PROVE  /\ Slotted(r) => PlaceOf(r) = "waiting" /\ ShownOf(r) = "pending" /\ ~ Held(r)
         /\ PlaceOf(r) = "waiting" => Slotted(r)
         /\ Held(r) => PlaceOf(r) = "held" /\ r \notin executed
         /\ Held(r) => log[r].status \notin Early
         /\ PlaceOf(r) # "new" /\ r \in RowIds
<1>1. Slotted(r) => log[r].status = "pending"
  BY DEF DInv, CInv, Slots, Slotted
<1>2. Held(r) \/ r \in executed => log[r].status # "pending"
  BY DEF DInv, CInv, Orders, Held, Holds, Ordered
<1>3. Held(r) => r \notin executed
  BY DEF DInv, CInv, Orders, DeliveredOnce, Held
<1>4. Held(r) => log[r].status # "superseded"
  BY DEF DInv
<1>5. PlaceOf(r) = IF r \in executed THEN "carried" ELSE IF Held(r) THEN "held"
                   ELSE IF Slotted(r) THEN "waiting" ELSE IF log[r].status = "pending" THEN "forgotten"
                   ELSE IF log[r].status = "superseded" THEN "superseded" ELSE "gone"
  BY DEF PlaceOf, Held, Slotted
<1>6. r \in RowIds
  BY DEF DInv
<1> QED BY <1>1, <1>2, <1>3, <1>4, <1>5, <1>6 DEF Early, ShownOf

LEMMA PlaceStays ==
  ASSUME NEW r \in Rows, r \in Rows', r \in executed' <=> r \in executed, Held(r)' <=> Held(r),
         Slotted(r)' <=> Slotted(r),
         log'[r].status = log[r].status \/ (log[r].status \notin Early /\ log'[r].status \notin Early)
  PROVE  PlaceOf(r)' = PlaceOf(r)
BY DEF PlaceOf, Held, Slotted, Early

\* Nothing is seen of the step in the log or on the way.
Still == \A r \in RowIds : /\ PlaceOf(r)' = PlaceOf(r) /\ ShownOf(r)' = ShownOf(r)
                           /\ RecordOf(r)' = RecordOf(r)

LEMMA StillUnchanged == Still => UNCHANGED Delivery!deliveryVars
BY DEF Still, Delivery!deliveryVars

LEMMA NotRows ==
  ASSUME Rows' = Rows
  PROVE  \A r \in RowIds \ Rows : /\ PlaceOf(r)' = PlaceOf(r) /\ ShownOf(r)' = ShownOf(r)
                                  /\ RecordOf(r)' = RecordOf(r)
BY DEF PlaceOf, ShownOf, RecordOf

\* Most steps: no row, no slot and no order is touched.
LEMMA Aside ==
  ASSUME DInv, CInv', UNCHANGED <<log, pending, executed>>, \A r \in Rows : Held(r)' <=> Held(r)
  PROVE  DInv' /\ Still
<1>1. Rows' = Rows
  BY DEF Rows
<1>2. DInv'
  BY <1>1 DEF DInv, RowIds
<1>3. ASSUME NEW r \in Rows
      PROVE  PlaceOf(r)' = PlaceOf(r) /\ ShownOf(r)' = ShownOf(r) /\ RecordOf(r)' = RecordOf(r)
  <2>1. PlaceOf(r)' = PlaceOf(r)
    BY <1>1, PlaceStays DEF Slotted
  <2> QED BY <1>1, <2>1 DEF ShownOf, RecordOf
<1> QED BY <1>1, <1>2, <1>3, NotRows DEF Still

LEMMA AnsweredIdle ==
  ASSUME DInv, NEW q \in net, UNCHANGED service \/ Answer(q, service, Idle)
  PROVE  \A r \in Rows : Held(r)' <=> Held(r)
<1>1. CASE UNCHANGED service
  BY <1>1 DEF Held, Holds
<1>2. CASE service[q.machine] = Waits(q) /\ service' = [service EXCEPT ![q.machine] = Idle]
  <2>1. DOMAIN service = Machines /\ q.machine \in Machines
    BY DEF DInv, CInv, Wires
  <2>2. service[q.machine].at = "waits" /\ service'[q.machine].at = "idle"
    BY <1>2, <2>1 DEF Waits, Idle
  <2>3. \A m \in Machines : m # q.machine => service'[m] = service[m]
    BY <1>2, <2>1
  <2>4. \A m \in Machines, r \in Rows : Holds(m, r)' <=> Holds(m, r)
    BY <2>2, <2>3 DEF Holds, Ordered
  <2> QED BY <2>4 DEF Held
<1> QED BY <1>1, <1>2 DEF Answer

LEMMA QueueDelivery ==
  ASSUME DInv, CInv', NEW s \in Stations, NEW command \in Commands, QueueCommand(s, command)
  PROVE  DInv' /\ Delivery!Queue(s)
<1> PICK n : n = Len(log) + 1
  OBVIOUS
<1> DEFINE base == IF s \in DOMAIN pending THEN [log EXCEPT ![pending[s]].status = "superseded"]
                                           ELSE log
           row  == [station |-> s, command |-> command, status |-> "pending"]
<1>1. /\ log' = Append(base, row) /\ Len(tokens) + Len(log) < MaxIssues
      /\ pending' = [r \in DOMAIN pending \cup {s} |-> IF r = s THEN n ELSE pending[r]]
      /\ UNCHANGED <<service, executed>>
  BY DEF QueueCommand, Queued, machines
<1>2. /\ Len(log) \in Nat /\ DOMAIN log = 1..Len(log) /\ n \in Nat
      /\ Len(tokens) \in Nat /\ MaxIssues \in Nat /\ log \in Seq(CommandRow)
      /\ \A r \in Rows : log[r] \in CommandRow
  BY LenProperties, ElementOfSeq, ControlAssumption DEF DInv, CInv, Slots, Pairings, Rows
<1>3. \A t \in DOMAIN pending : /\ pending[t] \in Rows /\ log[pending[t]].status = "pending"
                                /\ log[pending[t]].station = t
  BY DEF DInv, CInv, Slots
<1>4. /\ base \in Seq(CommandRow) /\ Len(base) = Len(log)
      /\ \A r \in Rows : ~ (s \in DOMAIN pending /\ r = pending[s]) => base[r] = log[r]
      /\ s \in DOMAIN pending => /\ base[pending[s]].status = "superseded"
                                 /\ base[pending[s]].station = s
  <2>1. CASE s \in DOMAIN pending
    <3> DEFINE p   == pending[s]
               old == [log[p] EXCEPT !.status = "superseded"]
    <3>1. p \in 1..Len(log) /\ p \in Rows /\ log[p].station = s
      BY <1>3, <2>1 DEF Rows
    <3>2. old \in CommandRow /\ old.station = log[p].station /\ old.status = "superseded"
      BY <1>2, <3>1 DEF CommandRow
    <3>3. base = [log EXCEPT ![p] = old]
      BY <2>1
    <3> HIDE DEF base, old, p
    <3>4. /\ base \in Seq(CommandRow) /\ Len(base) = Len(log)
          /\ \A r \in 1..Len(log) : base[r] = IF r = p THEN old ELSE log[r]
      BY <1>2, <3>1, <3>2, <3>3, ExceptSeq
    <3>5. \A r \in Rows : r # p => base[r] = log[r]
      BY <3>4 DEF Rows
    <3>6. base[p] = old
      BY <3>1, <3>4
    <3> QED BY <2>1, <3>1, <3>2, <3>4, <3>5, <3>6 DEF p
  <2>2. CASE s \notin DOMAIN pending
    BY <1>2, <2>2
  <2> QED BY <2>1, <2>2
<1>5. row \in CommandRow /\ row.station = s /\ row.status = "pending"
  <2>1. row.station = s /\ row.status = "pending"
    OBVIOUS
  <2> QED BY <2>1 DEF CommandRow
<1> HIDE DEF base, row
<1>6. /\ Rows' = 1..n /\ log'[n] = row /\ \A r \in Rows : log'[r] = base[r]
  <2>1. /\ Len(log') = Len(base) + 1 /\ log'[Len(base) + 1] = row
        /\ \A r \in 1..Len(base) : log'[r] = base[r]
    BY <1>1, <1>4, <1>5, AppendProperties
  <2> QED BY <1>4, <2>1 DEF Rows
<1>7. /\ Rows = 1..n - 1 /\ \A r \in Rows' : r \in Rows \/ r = n
      /\ Rows \subseteq Rows' /\ n \in Rows' /\ n \notin Rows
  BY <1>2, <1>6 DEF Rows
<1>8. n \in RowIds /\ Rows' \subseteq RowIds
  BY <1>1, <1>2, <1>6, <1>7 DEF RowIds
<1>9. \A r \in Rows' : (Held(r)' <=> Held(r)) /\ (Held(r) => r \in Rows)
  BY <1>1 DEF Held, Holds, DInv, CInv, Orders, Ordered
<1>10. \A r \in Rows' : Slotted(r)' <=> r = n \/ (r \in Rows /\ Slotted(r) /\ log[r].station # s)
  <2> TAKE r \in Rows'
  <2>1. Slotted(r)' <=> \E t \in DOMAIN pending \cup {s} : (IF t = s THEN n ELSE pending[t]) = r
    BY <1>1 DEF Slotted
  <2>2. ASSUME NEW t \in DOMAIN pending, t # s, pending[t] = r
        PROVE  r \in Rows /\ Slotted(r) /\ log[r].station # s
    BY <1>3, <2>2 DEF Slotted
  <2>3. ASSUME r \in Rows, Slotted(r), log[r].station # s
        PROVE  \E t \in DOMAIN pending : t # s /\ pending[t] = r
    BY <1>3, <2>3 DEF Slotted
  <2> QED BY <2>1, <2>2, <2>3
<1>11. \A r \in Rows : Slotted(r) /\ log[r].station = s <=> s \in DOMAIN pending /\ r = pending[s]
  BY <1>3 DEF Slotted
<1>12. /\ PlaceOf(n)' = "waiting" /\ ShownOf(n)' = "pending" /\ RecordOf(n)' = s
       /\ PlaceOf(n) = "new"
  <2>1. n \notin executed /\ ~ Held(n)
    BY <1>7, <1>9 DEF DInv, CInv, Orders
  <2>2. Slotted(n)' /\ ~ Held(n)' /\ n \notin executed'
    BY <1>1, <1>7, <1>9, <1>10, <2>1
  <2> QED BY <1>5, <1>6, <1>7, <2>2 DEF PlaceOf, ShownOf, RecordOf, Held, Slotted
<1>13. ASSUME NEW r \in Rows, Slotted(r), log[r].station = s
       PROVE  /\ PlaceOf(r)' = "superseded" /\ ShownOf(r)' = "superseded" /\ RecordOf(r)' = s
              /\ PlaceOf(r) = "waiting" /\ RecordOf(r) = s
  <2>1. log'[r].status = "superseded" /\ log'[r].station = s
    BY <1>4, <1>6, <1>11, <1>13
  <2>2. r \in Rows' /\ ~ Slotted(r)'
    BY <1>7, <1>10, <1>13
  <2>3. ~ Held(r)' /\ r \notin executed'
    <3>1. log[r].status = "pending"
      BY <1>3, <1>11, <1>13
    <3> QED BY <1>1, <1>9, <1>13, <2>2, <3>1, Places DEF DInv, CInv, Orders
  <2>4. PlaceOf(r) = "waiting" /\ RecordOf(r) = s
    BY <1>13, Places DEF RecordOf
  <2> QED BY <2>1, <2>2, <2>3, <2>4 DEF PlaceOf, ShownOf, RecordOf, Held, Slotted
<1>14. ASSUME NEW r \in Rows, ~ (Slotted(r) /\ log[r].station = s)
       PROVE  /\ PlaceOf(r)' = PlaceOf(r) /\ ShownOf(r)' = ShownOf(r) /\ RecordOf(r)' = RecordOf(r)
              /\ ~ (PlaceOf(r) = "waiting" /\ RecordOf(r) = s)
  <2>1. log'[r] = log[r] /\ r \in Rows'
    BY <1>4, <1>6, <1>7, <1>11, <1>14
  <2>2. Slotted(r)' <=> Slotted(r)
    BY <1>7, <1>10, <1>14, <2>1
  <2>3. PlaceOf(r)' = PlaceOf(r)
    BY <1>1, <1>9, <2>1, <2>2, PlaceStays
  <2>4. ~ (PlaceOf(r) = "waiting" /\ RecordOf(r) = s)
    BY <1>14, Places DEF RecordOf
  <2> QED BY <2>1, <2>3, <2>4 DEF ShownOf, RecordOf
<1>15. ASSUME NEW r \in RowIds, r \notin Rows, r # n
       PROVE  /\ PlaceOf(r)' = PlaceOf(r) /\ ShownOf(r)' = ShownOf(r) /\ RecordOf(r)' = RecordOf(r)
              /\ PlaceOf(r) = "new"
  <2>1. r \notin Rows'
    BY <1>7, <1>15
  <2> QED BY <1>15, <2>1 DEF PlaceOf, ShownOf, RecordOf
<1>16. Delivery!WaitingFor(s) = {r \in RowIds : PlaceOf(r) = "waiting" /\ RecordOf(r) = s}
  BY DEF Delivery!WaitingFor
<1>17. \A q \in RowIds : q < n => PlaceOf(q) # "new"
  <2> SUFFICES ASSUME NEW q \in RowIds, q < n PROVE PlaceOf(q) # "new"
    OBVIOUS
  <2>1. q \in Rows
    BY <1>2, <1>7 DEF RowIds
  <2> QED BY <2>1, Places
<1>18. \A q \in RowIds :
         /\ PlaceOf(q)' = IF q = n THEN "waiting" ELSE IF q \in Delivery!WaitingFor(s) THEN "superseded"
                          ELSE PlaceOf(q)
         /\ ShownOf(q)' = IF q = n THEN "pending" ELSE IF q \in Delivery!WaitingFor(s) THEN "superseded"
                          ELSE ShownOf(q)
         /\ RecordOf(q)' = IF q = n THEN s ELSE RecordOf(q)
  <2> TAKE q \in RowIds
  <2>1. CASE q = n
    BY <1>12, <2>1
  <2>2. CASE q # n /\ q \in Rows
    BY <1>13, <1>14, <1>16, <2>2
  <2>3. CASE q # n /\ q \notin Rows
    BY <1>15, <1>16, <2>3
  <2> QED BY <2>1, <2>2, <2>3
<1>19. Delivery!Queue(s)
  <2> HIDE DEF Delivery!WaitingFor
  <2> QED BY <1>8, <1>12, <1>17, <1>18 DEF Delivery!Queue
<1>20. \A r \in Rows' : Held(r)' => log'[r].status # "superseded"
  <2> SUFFICES ASSUME NEW r \in Rows', Held(r)' PROVE log'[r].status # "superseded"
    OBVIOUS
  <2>1. r \in Rows /\ Held(r)
    BY <1>9
  <2>2. ~ (s \in DOMAIN pending /\ r = pending[s])
    BY <1>11, <2>1, Places
  <2>3. log'[r] = log[r]
    BY <1>4, <1>6, <2>1, <2>2
  <2> QED BY <2>1, <2>3 DEF DInv
<1> QED BY <1>8, <1>19, <1>20 DEF DInv, RowIds

LEMMA RestartDelivery ==
  ASSUME DInv, CInv', ServerRestart
  PROVE  DInv' /\ Delivery!Forget
<1>1. UNCHANGED <<log, executed, service>> /\ DOMAIN pending' = {} /\ Rows' = Rows
  BY DEF ServerRestart, tables, machines, Rows
<1>2. \A r \in Rows : (Held(r)' <=> Held(r)) /\ ~ Slotted(r)'
  BY <1>1 DEF Held, Holds, Slotted
<1>3. DInv'
  BY <1>1, <1>2 DEF DInv, RowIds
<1>4. ASSUME NEW r \in RowIds
      PROVE  /\ PlaceOf(r)' = IF PlaceOf(r) = "waiting" THEN "forgotten" ELSE PlaceOf(r)
             /\ ShownOf(r)' = ShownOf(r) /\ RecordOf(r)' = RecordOf(r)
  <2>1. CASE r \in Rows /\ Slotted(r)
    <3>1. log[r].status = "pending" /\ PlaceOf(r) = "waiting" /\ ~ Held(r) /\ r \notin executed
      BY <2>1, Places DEF ShownOf, DInv, CInv, Orders
    <3> QED BY <1>1, <1>2, <2>1, <3>1 DEF PlaceOf, ShownOf, RecordOf, Held, Slotted
  <2>2. CASE r \in Rows /\ ~ Slotted(r)
    <3>1. PlaceOf(r)' = PlaceOf(r) /\ PlaceOf(r) # "waiting"
      BY <1>1, <1>2, <2>2, Places, PlaceStays
    <3> QED BY <1>1, <3>1 DEF ShownOf, RecordOf
  <2>3. CASE r \notin Rows
    BY <1>1, <2>3 DEF PlaceOf, ShownOf, RecordOf
  <2> QED BY <2>1, <2>2, <2>3
<1> QED BY <1>3, <1>4 DEF Delivery!Forget

LEMMA HeartbeatDelivery ==
  ASSUME DInv, CInv', NEW q \in net, ServeHeartbeat(q)
  PROVE  DInv' /\ (Still \/ Delivery!Deliver)
<1>1. UNCHANGED executed /\ DOMAIN service = Machines /\ q.machine \in Machines
  BY DEF ServeHeartbeat, DInv, CInv, Wires
<1>2. CASE UNCHANGED <<log, pending>> /\ (UNCHANGED service \/ Answer(q, service, Idle))
  BY <1>1, <1>2, Aside, AnsweredIdle
<1>3. ASSUME NEW s \in Station(q) \cap DOMAIN pending,
             log' = [log EXCEPT ![pending[s]].status = "sent"], pending' = Taken(s),
             Answer(q, service, Ordered(pending[s]))
      PROVE  DInv' /\ Delivery!Deliver
  <2> DEFINE m == q.machine
  <2> PICK p : p = pending[s]
    OBVIOUS
  <2>1. /\ p \in Rows /\ log[p].status = "pending" /\ log[p].station = s /\ log[p] \in CommandRow
        /\ DOMAIN log = Rows /\ p \in RowIds
    BY ElementOfSeq, LenProperties DEF DInv, CInv, Slots, Rows
  <2>2. log' = [log EXCEPT ![p] = [log[p] EXCEPT !.status = "sent"]]
    BY <1>3
  <2>3. /\ Rows' = Rows /\ \A r \in Rows : r # p => log'[r] = log[r]
        /\ log'[p].status = "sent" /\ log'[p].station = s
    <3> PICK row : row = [log[p] EXCEPT !.status = "sent"]
      OBVIOUS
    <3>1. row \in CommandRow /\ row.status = "sent" /\ row.station = s
      BY <2>1 DEF CommandRow
    <3>2. log \in Seq(CommandRow) /\ p \in 1..Len(log)
      BY <2>1 DEF DInv, CInv, Slots, Rows
    <3>3. Len(log') = Len(log) /\ \A r \in 1..Len(log) : log'[r] = IF r = p THEN row ELSE log[r]
      BY <2>2, <3>1, <3>2, ExceptSeq
    <3> QED BY <3>1, <3>2, <3>3 DEF Rows
  <2>4. \A r \in Rows : Slotted(r)' <=> Slotted(r) /\ r # p
    <3>1. /\ DOMAIN pending' = DOMAIN pending \ {s}
          /\ \A t \in DOMAIN pending' : pending'[t] = pending[t]
      BY <1>3 DEF Taken
    <3>2. \A t \in DOMAIN pending : pending[t] = p => t = s
      BY <2>1 DEF DInv, CInv, Slots
    <3> QED BY <3>1, <3>2 DEF Slotted
  <2>5. Slotted(p) /\ PlaceOf(p) = "waiting" /\ ~ Held(p) /\ p \notin executed
    BY <2>1, Places DEF Slotted, DInv, CInv, Orders
  <2>6. \A r \in Rows : r # p => (Held(r)' <=> Held(r))
    <3>1. CASE UNCHANGED service
      BY <3>1 DEF Held, Holds
    <3>2. CASE service[m] = Waits(q) /\ service' = [service EXCEPT ![m] = Ordered(p)]
      <4>1. service[m].at = "waits" /\ service'[m] = Ordered(p)
            /\ \A k \in Machines : k # m => service'[k] = service[k]
        BY <1>1, <3>2 DEF Waits
      <4>2. \A k \in Machines, r \in Rows : r # p => (Holds(k, r)' <=> Holds(k, r))
        BY <4>1 DEF Holds, Ordered
      <4> QED BY <4>2 DEF Held
    <3> QED BY <1>3, <3>1, <3>2 DEF Answer
  <2>7. PlaceOf(p)' = IF Held(p)' THEN "held" ELSE "gone"
    BY <1>1, <2>1, <2>3, <2>4, <2>5 DEF PlaceOf, Held, Slotted
  <2>8. ASSUME NEW r \in RowIds, r # p
        PROVE  PlaceOf(r)' = PlaceOf(r) /\ ShownOf(r)' = ShownOf(r) /\ RecordOf(r)' = RecordOf(r)
    <3>1. CASE r \in Rows
      <4>1. PlaceOf(r)' = PlaceOf(r)
        BY <1>1, <2>3, <2>4, <2>6, <2>8, <3>1, PlaceStays
      <4> QED BY <2>3, <2>8, <3>1, <4>1 DEF ShownOf, RecordOf
    <3>2. CASE r \notin Rows
      BY <2>3, <3>2, NotRows
    <3> QED BY <3>1, <3>2
  <2>9. ShownOf(p)' = "sent" /\ RecordOf(p)' = RecordOf(p)
    BY <2>1, <2>3 DEF ShownOf, RecordOf
  <2>10. Delivery!Deliver
    <3>1. PICK x \in {"held", "gone"} : PlaceOf(p)' = x
      BY <2>7
    <3>2. [r \in RowIds |-> PlaceOf(r)]' = [[r \in RowIds |-> PlaceOf(r)] EXCEPT ![p] = x]
      BY <2>1, <2>8, <3>1
    <3>3. [r \in RowIds |-> ShownOf(r)]' = [[r \in RowIds |-> ShownOf(r)] EXCEPT ![p] = "sent"]
      BY <2>1, <2>8, <2>9
    <3>4. UNCHANGED [r \in RowIds |-> RecordOf(r)]
      BY <2>1, <2>8, <2>9
    <3> QED BY <2>1, <2>5, <3>2, <3>3, <3>4 DEF Delivery!Deliver
  <2>11. \A r \in Rows' : Held(r)' => log'[r].status # "superseded"
    BY <2>3, <2>6 DEF DInv
  <2> QED BY <2>3, <2>10, <2>11 DEF DInv, RowIds
<1> QED BY <1>2, <1>3 DEF ServeHeartbeat

LEMMA ResultDelivery ==
  ASSUME DInv, CInv', NEW q \in net, ServeResult(q)
  PROVE  DInv' /\ (Still \/ Delivery!Report)
<1>1. UNCHANGED <<pending, executed>> /\ (UNCHANGED service \/ Answer(q, service, Idle))
  BY DEF ServeResult
<1>2. PICK sent \in SUBSET Rows, end \in {"ok", "failed"} :
        /\ \A r \in sent : log[r].status = "sent"
        /\ log' = [r \in Rows |-> IF r \in Latest(sent) THEN [log[r] EXCEPT !.status = end] ELSE log[r]]
  <2> DEFINE some == {r \in Rows : /\ log[r].station \in Station(q)
                                   /\ log[r].command = q.command
                                   /\ log[r].status = "sent"}
             with == IF q.ok THEN "ok" ELSE "failed"
  <2>1. some \in SUBSET Rows /\ with \in {"ok", "failed"} /\ \A r \in some : log[r].status = "sent"
    OBVIOUS
  <2>2. log' = [r \in Rows |-> IF r \in Latest(some) THEN [log[r] EXCEPT !.status = with] ELSE log[r]]
    BY DEF ServeResult
  <2> HIDE DEF some, with
  <2> QED BY <2>1, <2>2
<1>3. /\ \A r \in Rows : log[r] \in CommandRow /\ r \in RowIds
      /\ log \in Seq(CommandRow) /\ DOMAIN log = Rows /\ Rows \subseteq Int
  BY ElementOfSeq, LenProperties DEF DInv, CInv, Slots, Rows
<1>4. Rows' = Rows
  <2>1. log' \in Seq(CommandRow) /\ DOMAIN log' = Rows
    BY <1>2 DEF CInv, Slots
  <2> QED BY <2>1, LenProperties DEF Rows
<1>5. \A r \in Rows : Held(r)' <=> Held(r)
  BY <1>1, AnsweredIdle
<1>6. \A r \in Rows : Slotted(r)' <=> Slotted(r)
  BY <1>1 DEF Slotted
<1>7. CASE Latest(sent) = {}
  <2>1. log' = log
    BY <1>2, <1>3, <1>7 DEF CInv, Slots
  <2> QED BY <1>1, <1>5, <2>1, Aside
<1>8. CASE Latest(sent) # {}
  <2>1. PICK p \in sent : Latest(sent) = {p}
    <3>1. PICK p \in sent : \A o \in sent : o <= p
      BY <1>8 DEF Latest
    <3>2. \A r \in Latest(sent) : r <= p /\ p <= r /\ r \in Int
      BY <1>3, <3>1 DEF Latest
    <3>3. \A r \in Latest(sent) : r = p
      BY <1>3, <3>1, <3>2
    <3> QED BY <1>8, <3>3
  <2>2. p \in Rows /\ p \in RowIds /\ log[p].status = "sent"
    BY <1>2, <1>3, <2>1
  <2>3. /\ log'[p].status = end /\ log'[p].station = log[p].station
        /\ \A r \in Rows : r # p => log'[r] = log[r]
    <3>1. log'[p] = [log[p] EXCEPT !.status = end]
      BY <1>2, <2>1, <2>2
    <3> QED BY <1>2, <1>3, <2>1, <2>2, <3>1 DEF CommandRow
  <2>4. \A r \in Rows : PlaceOf(r)' = PlaceOf(r)
    <3> TAKE r \in Rows
    <3>1. log'[r].status = log[r].status \/ (log[r].status \notin Early /\ log'[r].status \notin Early)
      BY <2>2, <2>3 DEF Early
    <3> QED BY <1>1, <1>4, <1>5, <1>6, <3>1, PlaceStays
  <2>5. \A r \in RowIds : /\ PlaceOf(r)' = PlaceOf(r) /\ RecordOf(r)' = RecordOf(r)
                          /\ ShownOf(r)' = IF r = p THEN end ELSE ShownOf(r)
    <3> TAKE r \in RowIds
    <3>1. CASE r \in Rows
      BY <1>4, <2>3, <2>4, <3>1 DEF ShownOf, RecordOf
    <3>2. CASE r \notin Rows
      BY <1>4, <2>2, <3>2, NotRows
    <3> QED BY <3>1, <3>2
  <2>6. ShownOf(p) = "sent"
    BY <2>2 DEF ShownOf
  <2>7. Delivery!Report
    <3>1. [r \in RowIds |-> ShownOf(r)]' = [[r \in RowIds |-> ShownOf(r)] EXCEPT ![p] = end]
      BY <2>2, <2>5
    <3>2. UNCHANGED <<[r \in RowIds |-> PlaceOf(r)], [r \in RowIds |-> RecordOf(r)]>>
      BY <2>5
    <3> QED BY <2>2, <2>6, <3>1, <3>2 DEF Delivery!Report
  <2>8. \A r \in Rows' : Held(r)' => log'[r].status # "superseded"
    <3> TAKE r \in Rows'
    <3>1. r = p => log'[r].status # "superseded"
      BY <2>3
    <3>2. r # p => log'[r] = log[r]
      BY <1>4, <2>3
    <3> QED BY <1>4, <1>5, <3>1, <3>2 DEF DInv
  <2> QED BY <1>4, <2>7, <2>8 DEF DInv, RowIds
<1> QED BY <1>7, <1>8

\* The order of a machine is carried out or dropped; other machines keep theirs.
LEMMA OrderEnds ==
  ASSUME DInv, CInv', NEW m \in Machines, NEW state, state.at # "ordered",
         service' = [service EXCEPT ![m] = state], UNCHANGED <<log, pending>>,
         \/ UNCHANGED executed
         \/ service[m].at = "ordered" /\ executed' = executed \cup {service[m].row}
  PROVE  DInv' /\ (Still \/ Delivery!Act)
<1>1. /\ DOMAIN service = Machines /\ service'[m] = state
      /\ \A k \in Machines : k # m => service'[k] = service[k]
      /\ service[m].at = "ordered" =>
           service[m] = Ordered(service[m].row) /\ service[m].row \in Rows
  BY DEF DInv, CInv, Orders
<1>2. Rows' = Rows
  BY DEF Rows
<1>3. \A k \in Machines, r \in Rows : Holds(k, r)' <=> k # m /\ Holds(k, r)
  BY <1>1 DEF Holds, Ordered
<1>4. CASE service[m].at # "ordered"
  <2>1. \A r \in Rows : ~ Holds(m, r)
    BY <1>4 DEF Holds, Ordered
  <2> QED BY <1>3, <1>4, <2>1, Aside DEF Held
<1>5. CASE service[m].at = "ordered"
  <2> PICK p : p = service[m].row
    OBVIOUS
  <2>1. p \in Rows /\ Holds(m, p) /\ Held(p) /\ p \in RowIds
    BY <1>1, <1>5 DEF Holds, Held, DInv
  <2>2. \A r \in Rows : Held(r)' <=> Held(r) /\ r # p
    <3>1. \A k \in Machines : Holds(k, p) => k = m
      BY <2>1 DEF DInv, CInv, Orders, DeliveredOnce
    <3>2. \A r \in Rows : Holds(m, r) => r = p
      BY DEF Holds, Ordered
    <3> QED BY <1>3, <3>1, <3>2 DEF Held
  <2>3. PlaceOf(p) = "held" /\ log[p].status \notin Early /\ ~ Slotted(p) /\ p \notin executed
    BY <2>1, Places
  <2>4. PlaceOf(p)' = IF p \in executed' THEN "carried" ELSE "gone"
    <3>1. ~ Held(p)' /\ ~ Slotted(p)'
      BY <2>1, <2>2, <2>3 DEF Slotted
    <3> QED BY <1>2, <2>1, <2>3, <3>1 DEF PlaceOf, Held, Slotted, Early
  <2>5. \A r \in RowIds : /\ r # p => PlaceOf(r)' = PlaceOf(r)
                          /\ ShownOf(r)' = ShownOf(r) /\ RecordOf(r)' = RecordOf(r)
    <3> TAKE r \in RowIds
    <3>1. ASSUME r \in Rows, r # p PROVE PlaceOf(r)' = PlaceOf(r)
      <4>1. r \in executed' <=> r \in executed
        BY <3>1
      <4> QED BY <1>2, <2>2, <3>1, <4>1, PlaceStays DEF Slotted
    <3>2. r \in Rows => ShownOf(r)' = ShownOf(r) /\ RecordOf(r)' = RecordOf(r)
      BY <1>2 DEF ShownOf, RecordOf
    <3> QED BY <1>2, <3>1, <3>2, NotRows
  <2>6. Delivery!Act
    <3>1. PICK x \in {"carried", "gone"} : PlaceOf(p)' = x
      BY <2>4
    <3>2. [r \in RowIds |-> PlaceOf(r)]' = [[r \in RowIds |-> PlaceOf(r)] EXCEPT ![p] = x]
      BY <2>1, <2>5, <3>1
    <3>3. UNCHANGED <<[r \in RowIds |-> ShownOf(r)], [r \in RowIds |-> RecordOf(r)]>>
      BY <2>5
    <3> QED BY <2>1, <2>3, <3>2, <3>3 DEF Delivery!Act
  <2>7. \A r \in Rows' : Held(r)' => log'[r].status # "superseded"
    BY <1>2, <2>2 DEF DInv
  <2> QED BY <1>2, <2>6, <2>7 DEF DInv, RowIds
<1> QED BY <1>4, <1>5

LEMMA MachineDelivery ==
  ASSUME DInv, CInv', NEW m \in Machines, Machine(m)
  PROVE  DInv' /\ (Still \/ Delivery!Act)
<1>1. UNCHANGED <<log, pending>>
  BY DEF Machine, StartSetup, SetupGivesUp, SaveCredential, SendHeartbeat, Execute, ServiceGivesUp,
         Restart, tables
<1>2. CASE (\E t \in DOMAIN tokens : StartSetup(m, t)) \/ SetupGivesUp(m) \/ SaveCredential(m)
  <2>1. UNCHANGED <<service, executed>>
    BY <1>2 DEF StartSetup, SetupGivesUp, SaveCredential
  <2>2. \A r \in Rows : Held(r)' <=> Held(r)
    BY <2>1 DEF Held, Holds
  <2> QED BY <1>1, <2>1, <2>2, Aside
<1>3. CASE SendHeartbeat(m)
  <2>1. service' = [service EXCEPT ![m] = Waits(Beat(m))] /\ UNCHANGED executed
    BY <1>3 DEF SendHeartbeat, Service
  <2>2. Waits(Beat(m)).at # "ordered"
    BY DEF Waits
  <2> QED BY <1>1, <2>1, <2>2, OrderEnds
<1>4. CASE Execute(m)
  <2>1. PICK ok \in BOOLEAN :
          /\ service' = [service EXCEPT ![m] = Waits(Result(m, log[service[m].row].command, ok))]
          /\ executed' = IF ok THEN executed \cup {service[m].row} ELSE executed
          /\ service[m].at = "ordered"
    BY <1>4 DEF Execute, SendResult, Service
  <2>2. Waits(Result(m, log[service[m].row].command, ok)).at # "ordered"
    BY DEF Waits
  <2> QED BY <1>1, <2>1, <2>2, OrderEnds
<1>5. CASE ServiceGivesUp(m)
  <2>1. PICK state \in {Idle, Waits(Result(m, service[m].request.command, FALSE))} :
          service' = [service EXCEPT ![m] = state]
    BY <1>5 DEF ServiceGivesUp, SendResult, Service
  <2>2. UNCHANGED executed
    BY <1>5 DEF ServiceGivesUp
  <2>3. Idle.at # "ordered" /\ \A q : Waits(q).at # "ordered"
    BY DEF Waits, Idle
  <2> QED BY <1>1, <2>1, <2>2, <2>3, OrderEnds
<1>6. CASE Restart(m)
  <2>1. service' = [service EXCEPT ![m] = Idle] /\ UNCHANGED executed /\ Idle.at # "ordered"
    BY <1>6 DEF Restart, Service, Idle
  <2> QED BY <1>1, <2>1, OrderEnds
<1> QED BY <1>2, <1>3, <1>4, <1>5, <1>6 DEF Machine

LEMMA NextDelivery ==
  ASSUME DInv, [Next]_vars
  PROVE  DInv' /\ [Delivery!Next]_(Delivery!deliveryVars)
<1>1. CInv'
  BY NextCInv DEF DInv
<1>2. SUFFICES DInv' /\ (Still \/ Delivery!Next)
  BY StillUnchanged
<1>3. ASSUME UNCHANGED <<log, pending, executed, service>> PROVE DInv' /\ Still
  <2>1. \A r \in Rows : Held(r)' <=> Held(r)
    BY <1>3 DEF Held, Holds
  <2> QED BY <1>1, <1>3, <2>1, Aside
<1>4. CASE Dashboard
  <2>1. \/ UNCHANGED <<log, pending, executed, service>>
        \/ \E s \in Stations, command \in Commands : QueueCommand(s, command)
    BY <1>4 DEF Dashboard, IssueToken, DeleteWorkstation, TokenExpires, machines
  <2> QED BY <1>1, <1>3, <2>1, QueueDelivery DEF Delivery!Next
<1>5. CASE Server
  <2>1. \A q \in net : ServeRegister(q) => UNCHANGED <<log, pending, executed, service>>
    BY DEF ServeRegister
  <2> QED BY <1>1, <1>3, <1>5, <2>1, HeartbeatDelivery, ResultDelivery DEF Server, Delivery!Next
<1>6. CASE ServerRestart
  BY <1>1, <1>6, RestartDelivery DEF Delivery!Next
<1>7. CASE \E m \in Machines : Machine(m)
  BY <1>1, <1>7, MachineDelivery DEF Delivery!Next
<1>8. CASE \E q \in net : Lose(q)
  BY <1>3, <1>8 DEF Lose, tables, machines
<1>9. CASE UNCHANGED vars
  BY <1>3, <1>9 DEF vars, tables, machines
<1> QED BY <1>4, <1>5, <1>6, <1>7, <1>8, <1>9 DEF Next

LEMMA InitDelivery == Init => DInv /\ Delivery!Init
<1> SUFFICES ASSUME Init PROVE DInv /\ Delivery!Init
  OBVIOUS
<1>1. CInv /\ Rows = {}
  BY InitCInv DEF Init, Rows
<1>2. DInv
  BY <1>1 DEF DInv
<1>3. Delivery!Init
  BY <1>1 DEF Delivery!Init, PlaceOf, ShownOf, RecordOf
<1> QED BY <1>2, <1>3

\* commands.ts and the Agent's executor together: for any records, machines and
\* bounds, a command row is replaced or sent or forgotten with the server's
\* memory, is carried out at most once and only by who was given it, and is told
\* of at most once.
THEOREM CommandsDelivered == Spec => DeliverySpec
<1>1. DInv /\ [Next]_vars => DInv' /\ [Delivery!Next]_(Delivery!deliveryVars)
  BY NextDelivery
<1> QED BY <1>1, InitDelivery, PTL DEF Spec, DeliverySpec, Delivery!Spec
==============================================================================
