---------------------------- MODULE Outbox_proofs ----------------------------
(***************************************************************************)
(* Proofs about the durable outbox: whatever is lost, late or repeated,    *)
(* an acknowledged message is stored at the edge with the content it has   *)
(* in the outbox, and the content of a message is written once.            *)
(*                                                                         *)
(* AckedIsStored needs to know that every acknowledgement, about to be     *)
(* sent or delayed, is one of a stored message, and that an identifier has *)
(* one row; AppliedOnce that a message counts as written exactly when it   *)
(* is in the inbox.                                                        *)
(***************************************************************************)
EXTENDS Outbox, SequenceTheorems, FiniteSetTheorems, WellFoundedInduction, TLAPS

Row == [id : Ids, body : Body, acked : BOOLEAN]

\* A local state of the bridge over rows of the outbox.
WorkerOver(rows) ==
    [pc : {"idle", "prepare", "ingest", "ack"}, turn : SUBSET rows,
     rest : SUBSET rows, single : BOOLEAN, failed : BOOLEAN]

Typed ==
    /\ outbox \in Seq(Row)
    /\ inbox \in [Ids -> Body \cup {None}]
    /\ applied \in [Ids -> Nat]
    /\ worker \in WorkerOver(DOMAIN outbox)
    /\ net \subseteq Ids \X Body

\* An identifier has one row.
Distinct == \A i, j \in DOMAIN outbox : outbox[i].id = outbox[j].id => i = j

Stored(i) == inbox[outbox[i].id] = outbox[i].body

\* The bridge acknowledges only what is stored, now or late.
AcksAreStored ==
    /\ worker.pc = "ack" => \A i \in worker.turn : Stored(i)
    /\ \A ack \in net : inbox[ack[1]] = ack[2]

\* A message was written exactly when the inbox knows it.
Counted == \A id \in Ids : applied[id] = IF inbox[id] = None THEN 0 ELSE 1

OInv == Typed /\ Distinct /\ AcksAreStored /\ Counted /\ AckedIsStored

-----------------------------------------------------------------------------
\* The first of a set of rows is one of them.
LEMMA FirstIsElement ==
    ASSUME NEW S \in SUBSET Nat, S # {}
    PROVE  First(S) \in S
<1>1. PICK x \in S : \A y \in S : ~ (<<y, x>> \in OpToRel(<, Nat))
  BY NatLessThanWellFounded, WFMin
<1>2. ASSUME NEW y \in S PROVE ~ (y < x)
  <2>1. x \in Nat /\ y \in Nat
    OBVIOUS
  <2>2. <<y, x>> \in OpToRel(<, Nat) <=> y < x
    BY <2>1, Zenon DEF OpToRel
  <2> QED
    BY <1>1, <2>2
<1>3. \A y \in S : x <= y
  BY <1>2
<1> QED
  BY <1>3 DEF First

\* The bridge goes on with rows of the outbox and has nothing to acknowledge.
LEMMA AfterOver ==
    ASSUME NEW rows \in SUBSET Nat, worker \in WorkerOver(rows),
           NEW batch \in SUBSET rows, NEW ok \in BOOLEAN
    PROVE  After(batch, ok) \in WorkerOver(rows) /\ After(batch, ok).pc # "ack"
<1>1. Idle \in WorkerOver(rows) /\ Idle.pc # "ack"
  BY DEF Idle, WorkerOver
<1>2. ASSUME NEW m \in SUBSET rows
      PROVE  NextSingle(m) \in WorkerOver(rows) /\ NextSingle(m).pc # "ack"
  <2>1. CASE m = {}
    BY <1>1, <2>1 DEF NextSingle
  <2>2. CASE m # {}
    <3>1. First(m) \in m
      BY <2>2, FirstIsElement
    <3>2. NextSingle(m) = [pc |-> "prepare", turn |-> {First(m)}, rest |-> m \ {First(m)},
                           single |-> TRUE, failed |-> FALSE]
      BY <2>2 DEF NextSingle, Idle
    <3>3. {First(m)} \in SUBSET rows /\ m \ {First(m)} \in SUBSET rows
      BY <3>1
    <3> QED
      BY <3>2, <3>3 DEF WorkerOver
  <2> QED
    BY <2>1, <2>2
<1>3. worker.rest \in SUBSET rows
  BY DEF WorkerOver
<1> QED
  BY <1>1, <1>2, <1>3 DEF After

\* Acknowledging a stored content changes the flag of rows whose content is
\* stored, and nothing else.
LEMMA AcknowledgeRows ==
    ASSUME OInv, NEW ack \in Ids \X Body, inbox[ack[1]] = ack[2], Acknowledge(ack)
    PROVE  /\ outbox' \in Seq(Row) /\ DOMAIN outbox' = DOMAIN outbox
           /\ \A i \in DOMAIN outbox : /\ outbox'[i].id = outbox[i].id
                                       /\ outbox'[i].body = outbox[i].body
                                       /\ outbox'[i].acked => Stored(i)
<1> DEFINE n == Len(outbox)
<1>1. n \in Nat /\ DOMAIN outbox = 1 .. n /\ \A i \in 1 .. n : outbox[i] \in Row
  BY ElementOfSeq DEF OInv, Typed
<1>2. ASSUME NEW i \in DOMAIN outbox
      PROVE  /\ outbox'[i] \in Row
             /\ outbox'[i].id = outbox[i].id
             /\ outbox'[i].body = outbox[i].body
             /\ outbox'[i].acked => Stored(i)
  <2>1. CASE outbox[i].id = ack[1] /\ outbox[i].body = ack[2]
    <3>1. outbox'[i] = [outbox[i] EXCEPT !.acked = TRUE]
      BY <2>1 DEF Acknowledge
    <3> QED
      BY <1>1, <2>1, <3>1 DEF Row, Stored
  <2>2. CASE ~(outbox[i].id = ack[1] /\ outbox[i].body = ack[2])
    <3>1. outbox'[i] = outbox[i]
      BY <2>2 DEF Acknowledge
    <3> QED
      BY <1>1, <3>1 DEF OInv, AckedIsStored, Stored
  <2> QED
    BY <2>1, <2>2
<1>3. outbox' \in [1 .. n -> Row]
  BY <1>1, <1>2 DEF Acknowledge
<1>4. outbox' \in Seq(Row)
  BY <1>1, <1>3, SeqDef
<1> QED
  BY <1>1, <1>2, <1>3, <1>4

\* The transaction stores the contents of the turn, writes only new ones, and
\* touches no message that was stored before.
LEMMA WriteStores ==
    ASSUME OInv, Write, \A i \in worker.turn : ~Conflicts(i)
    PROVE  /\ inbox' \in [Ids -> Body \cup {None}] /\ applied' \in [Ids -> Nat]
           /\ \A i \in worker.turn : inbox'[outbox[i].id] = outbox[i].body
           /\ \A id \in Ids : inbox[id] # None => inbox'[id] = inbox[id]
           /\ \A id \in Ids : applied'[id] = IF inbox'[id] = None THEN 0 ELSE 1
<1>1. /\ worker.turn \subseteq DOMAIN outbox
      /\ \A i \in worker.turn : outbox[i].id \in Ids /\ outbox[i].body \in Body
  <2>1. worker.turn \subseteq DOMAIN outbox
    BY DEF OInv, Typed, WorkerOver
  <2>2. \A i \in DOMAIN outbox : outbox[i] \in Row
    BY ElementOfSeq DEF OInv, Typed
  <2> QED
    BY <2>1, <2>2 DEF Row
<1>2. ASSUME NEW i \in worker.turn, NEW id \in Ids, outbox[i].id = id
      PROVE  /\ inbox'[id] = outbox[i].body
             /\ inbox[id] # None => inbox'[id] = inbox[id]
             /\ applied'[id] = 1
  <2>1. \A j \in worker.turn : outbox[j].id = id <=> j = i
    BY <1>1, <1>2 DEF OInv, Distinct
  <2>2. (CHOOSE j \in worker.turn : outbox[j].id = id) = i
    BY <2>1
  <2>3. inbox'[id] = outbox[i].body
    BY <2>2, <1>2 DEF Write
  <2>4. inbox[id] # None => inbox'[id] = inbox[id]
    BY <2>3, <1>2 DEF Conflicts
  <2>5. CASE inbox[id] = None
    <3>1. \E j \in worker.turn : outbox[j].id = id /\ New(j)
      BY <2>5, <1>2 DEF New
    <3>2. applied'[id] = applied[id] + 1
      BY <3>1 DEF Write
    <3> QED
      BY <2>3, <2>4, <2>5, <3>2 DEF OInv, Counted
  <2>6. CASE inbox[id] # None
    <3>1. ~ \E j \in worker.turn : outbox[j].id = id /\ New(j)
      BY <2>6 DEF New
    <3>2. applied'[id] = applied[id]
      BY <3>1 DEF Write
    <3> QED
      BY <2>3, <2>4, <2>6, <3>2 DEF OInv, Counted
  <2> QED
    BY <2>5, <2>6
<1>3. ASSUME NEW id \in Ids, ~ \E i \in worker.turn : outbox[i].id = id
      PROVE  inbox'[id] = inbox[id] /\ applied'[id] = applied[id]
  BY <1>3 DEF Write
<1>4. \A id \in Ids : inbox'[id] \in Body \cup {None}
  BY <1>1, <1>2, <1>3 DEF OInv, Typed
<1>5. \A id \in Ids : applied'[id] = IF inbox'[id] = None THEN 0 ELSE 1
  BY <1>1, <1>2, <1>3, OutboxAssumption DEF OInv, Counted
<1>6. inbox' \in [Ids -> Body \cup {None}] /\ applied' \in [Ids -> Nat]
  <2>1. inbox' = [id \in Ids |-> inbox'[id]] /\ applied' = [id \in Ids |-> applied'[id]]
    BY DEF Write
  <2> QED
    BY <1>4, <1>5, <2>1
<1> QED
  BY <1>1, <1>2, <1>3, <1>5, <1>6

-----------------------------------------------------------------------------
\* The initial states.
LEMMA InitOInv == Init => OInv
BY OutboxAssumption, EmptySeq
   DEF Init, OInv, Typed, Distinct, AcksAreStored, Counted, AckedIsStored, Stored,
       Idle, WorkerOver

\* A step of the bridge that touches neither table and acknowledges nothing.
LEMMA WorkerMoves ==
    ASSUME OInv, worker' \in WorkerOver(DOMAIN outbox), worker'.pc # "ack",
           UNCHANGED <<outbox, inbox, applied, net>>
    PROVE  OInv'
BY DEF OInv, Typed, Distinct, AcksAreStored, Counted, AckedIsStored, Stored

\* A new row has an identifier of its own and is not acknowledged.
LEMMA EnqueueKeeps ==
    ASSUME OInv, NEW id \in Ids, NEW body \in Body, Enqueue(id, body)
    PROVE  OInv'
<1> DEFINE row == [id |-> id, body |-> body, acked |-> FALSE]
           n == Len(outbox)
<1>1. row \in Row /\ outbox' = Append(outbox, row)
  BY DEF Row, Enqueue
<1>2. /\ outbox' \in Seq(Row) /\ n \in Nat
      /\ DOMAIN outbox = 1 .. n /\ DOMAIN outbox' = 1 .. n + 1
      /\ \A i \in 1 .. n : outbox'[i] = outbox[i]
      /\ outbox'[n + 1] = row
  BY <1>1, AppendProperties DEF OInv, Typed
<1>3. UNCHANGED <<inbox, applied, worker, net>>
  BY DEF Enqueue
<1>4. Typed'
  <2>1. worker' \in WorkerOver(DOMAIN outbox')
    BY <1>2, <1>3 DEF OInv, Typed, WorkerOver
  <2> QED
    BY <1>2, <1>3, <2>1 DEF OInv, Typed
<1>5. Distinct'
  <2>1. \A i \in 1 .. n : outbox'[i].id # outbox'[n + 1].id
    BY <1>2 DEF Enqueue
  <2>2. \A i, j \in 1 .. n : outbox'[i].id = outbox'[j].id => i = j
    BY <1>2 DEF OInv, Distinct
  <2>3. \A i \in 1 .. n + 1 : i \in 1 .. n \/ i = n + 1
    BY <1>2
  <2> QED
    BY <1>2, <2>1, <2>2, <2>3 DEF Distinct
<1>6. AcksAreStored'
  <2>1. worker.turn \subseteq 1 .. n
    BY <1>2 DEF OInv, Typed, WorkerOver
  <2> QED
    BY <1>2, <1>3, <2>1 DEF OInv, AcksAreStored, Stored
<1>7. AckedIsStored'
  <2>1. \A i \in 1 .. n + 1 : i \in 1 .. n \/ i = n + 1
    BY <1>2
  <2> QED
    BY <1>2, <1>3, <2>1 DEF OInv, AckedIsStored
<1> QED
  BY <1>3, <1>4, <1>5, <1>6, <1>7 DEF OInv, Counted

\* A transaction that takes effect; the bridge may learn of it or not.
LEMMA IngestKeeps == OInv /\ Ingest => OInv'
<1> SUFFICES ASSUME OInv, Ingest PROVE OInv'
  OBVIOUS
<1> DEFINE rows == DOMAIN outbox
<1>1. rows \in SUBSET Nat /\ worker \in WorkerOver(rows) /\ worker.turn \in SUBSET rows
  BY DEF OInv, Typed, WorkerOver
<1>2. After(worker.turn, FALSE) \in WorkerOver(rows) /\ After(worker.turn, FALSE).pc # "ack"
  BY <1>1, AfterOver
<1>3. UNCHANGED <<outbox, net>>
  BY DEF Ingest
<1>4. CASE /\ \A i \in worker.turn : ~Conflicts(i)
           /\ Write
           /\ \/ worker' = [worker EXCEPT !.pc = "ack"]
              \/ worker' = After(worker.turn, FALSE)
  <2>1. /\ inbox' \in [Ids -> Body \cup {None}] /\ applied' \in [Ids -> Nat]
        /\ \A i \in worker.turn : inbox'[outbox[i].id] = outbox[i].body
        /\ \A id \in Ids : inbox[id] # None => inbox'[id] = inbox[id]
        /\ \A id \in Ids : applied'[id] = IF inbox'[id] = None THEN 0 ELSE 1
    BY <1>4, WriteStores
  <2>2. worker' \in WorkerOver(rows) /\ (worker'.pc = "ack" => worker'.turn = worker.turn)
    BY <1>1, <1>2, <1>4 DEF WorkerOver
  <2>3. Typed'
    BY <1>3, <2>1, <2>2 DEF OInv, Typed
  <2>4. AcksAreStored'
    <3>1. \A ack \in net : inbox'[ack[1]] = ack[2]
      BY <2>1, OutboxAssumption DEF OInv, Typed, AcksAreStored
    <3> QED
      BY <1>3, <2>1, <2>2, <3>1 DEF AcksAreStored, Stored
  <2>5. AckedIsStored'
    <3>1. \A i \in rows : outbox[i].id \in Ids /\ outbox[i].body \in Body
      <4>1. \A i \in rows : outbox[i] \in Row
        BY ElementOfSeq DEF OInv, Typed
      <4> QED
        BY <4>1 DEF Row
    <3> QED
      BY <1>3, <2>1, <3>1, OutboxAssumption DEF OInv, AckedIsStored
  <2> QED
    BY <1>3, <2>1, <2>3, <2>4, <2>5 DEF OInv, Distinct, Counted
<1>5. CASE worker' = After(worker.turn, FALSE) /\ UNCHANGED <<inbox, applied>>
  BY <1>2, <1>3, <1>5, WorkerMoves
<1> QED
  BY <1>4, <1>5 DEF Ingest

\* Acknowledging a stored content keeps the invariant.
LEMMA AcknowledgeKeeps ==
    ASSUME OInv, NEW ack \in Ids \X Body, inbox[ack[1]] = ack[2], Acknowledge(ack),
           UNCHANGED <<inbox, applied>>, net' \subseteq net,
           worker' \in WorkerOver(DOMAIN outbox),
           worker'.pc = "ack" => worker.pc = "ack" /\ worker'.turn \subseteq worker.turn
    PROVE  OInv'
<1>1. /\ outbox' \in Seq(Row) /\ DOMAIN outbox' = DOMAIN outbox
      /\ \A i \in DOMAIN outbox : /\ outbox'[i].id = outbox[i].id
                                  /\ outbox'[i].body = outbox[i].body
                                  /\ outbox'[i].acked => Stored(i)
  BY AcknowledgeRows
<1>2. Typed'
  BY <1>1 DEF OInv, Typed
<1>3. Distinct'
  BY <1>1 DEF OInv, Distinct
<1>4. AcksAreStored'
  <2>1. worker'.turn \subseteq DOMAIN outbox
    BY DEF WorkerOver
  <2> QED
    BY <1>1, <2>1 DEF OInv, AcksAreStored, Stored
<1>5. AckedIsStored'
  BY <1>1 DEF AckedIsStored, Stored
<1> QED
  BY <1>2, <1>3, <1>4, <1>5 DEF OInv, Counted

\* The bridge sends an acknowledgement, which arrives or is delayed.
LEMMA SendAckKeeps == OInv /\ SendAck => OInv'
<1> SUFFICES ASSUME OInv, SendAck PROVE OInv'
  OBVIOUS
<1> DEFINE i == First(worker.turn)
           ack == <<outbox[i].id, outbox[i].body>>
<1>1. worker \in WorkerOver(DOMAIN outbox) /\ worker.turn \in SUBSET Nat
  BY DEF OInv, Typed, WorkerOver
<1>2. i \in worker.turn /\ i \in DOMAIN outbox
  BY <1>1, FirstIsElement DEF SendAck, WorkerOver
<1>3. ack \in Ids \X Body /\ inbox[ack[1]] = ack[2]
  <2>1. outbox[i] \in Row
    BY <1>2, ElementOfSeq DEF OInv, Typed
  <2> QED
    BY <1>2, <2>1 DEF Row, OInv, AcksAreStored, Stored, SendAck
<1>4. UNCHANGED <<inbox, applied>> /\ worker.pc = "ack"
  BY DEF SendAck
<1>5. CASE /\ Acknowledge(ack) /\ UNCHANGED net
           /\ worker' = [worker EXCEPT !.turn = @ \ {i}]
  <2>1. worker' \in WorkerOver(DOMAIN outbox) /\ worker'.turn \subseteq worker.turn
    BY <1>1, <1>5 DEF WorkerOver
  <2> QED
    BY <1>3, <1>4, <1>5, <2>1, AcknowledgeKeeps
<1>6. CASE /\ net' = net \cup {ack} /\ UNCHANGED outbox
           /\ worker' = [worker EXCEPT !.turn = @ \ {i}, !.failed = TRUE]
  <2>1. worker' \in WorkerOver(DOMAIN outbox) /\ worker'.turn \subseteq worker.turn
    BY <1>1, <1>6 DEF WorkerOver
  <2>2. Typed'
    BY <1>3, <1>4, <1>6, <2>1 DEF OInv, Typed
  <2>3. AcksAreStored'
    BY <1>3, <1>4, <1>6, <2>1 DEF OInv, AcksAreStored, Stored
  <2> QED
    BY <1>4, <1>6, <2>2, <2>3 DEF OInv, Distinct, Counted, AckedIsStored
<1> QED
  BY <1>5, <1>6 DEF SendAck

-----------------------------------------------------------------------------
\* Every step keeps the invariant.
LEMMA NextOInv == OInv /\ [Next]_vars => OInv'
<1> SUFFICES ASSUME OInv, [Next]_vars PROVE OInv'
  OBVIOUS
<1> DEFINE rows == DOMAIN outbox
<1>0. rows \in SUBSET Nat /\ worker \in WorkerOver(rows)
  BY DEF OInv, Typed
<1>1. ASSUME NEW id \in Ids, NEW body \in Body, Enqueue(id, body) PROVE OInv'
  BY <1>1, EnqueueKeeps
<1>2. ASSUME NEW d \in Devices, ChangeDevice(d) PROVE OInv'
  BY <1>2 DEF ChangeDevice, OInv, Typed, Distinct, AcksAreStored, Counted,
              AckedIsStored, Stored
<1>3. CASE Poll
  <2>1. Pending \in SUBSET rows
    BY DEF Pending, Unacknowledged
  <2>2. worker' \in WorkerOver(rows) /\ worker'.pc # "ack"
    BY <1>3, <2>1 DEF Poll, Idle, WorkerOver
  <2> QED
    BY <1>3, <2>2, WorkerMoves DEF Poll
<1>4. CASE Prepare
  <2>1. worker.turn \in SUBSET rows
    BY <1>0 DEF WorkerOver
  <2>2. After(worker.turn, FALSE) \in WorkerOver(rows) /\ After(worker.turn, FALSE).pc # "ack"
    BY <1>0, <2>1, AfterOver
  <2>3. worker' \in WorkerOver(rows) /\ worker'.pc # "ack"
    BY <1>0, <1>4, <2>2 DEF Prepare, WorkerOver
  <2> QED
    BY <1>4, <2>3, WorkerMoves DEF Prepare
<1>5. CASE Ingest
  BY <1>5, IngestKeeps
<1>6. CASE SendAck
  BY <1>6, SendAckKeeps
<1>7. CASE EndOfTurn
  <2>1. worker.rest \in SUBSET rows /\ (~worker.failed) \in BOOLEAN
    BY <1>0 DEF WorkerOver
  <2>2. worker' \in WorkerOver(rows) /\ worker'.pc # "ack"
    BY <1>0, <1>7, <2>1, AfterOver DEF EndOfTurn
  <2> QED
    BY <1>7, <2>2, WorkerMoves DEF EndOfTurn
<1>8. CASE LateAck
  <2>1. PICK ack \in net : Acknowledge(ack) /\ net' = net \ {ack}
    BY <1>8 DEF LateAck
  <2>2. ack \in Ids \X Body /\ inbox[ack[1]] = ack[2]
    BY DEF OInv, Typed, AcksAreStored
  <2>3. UNCHANGED <<inbox, applied, worker>>
    BY <1>8 DEF LateAck
  <2> QED
    BY <1>0, <2>1, <2>2, <2>3, AcknowledgeKeeps
<1>9. CASE Abandon
  <2>1. worker' \in WorkerOver(rows) /\ worker'.pc # "ack"
    BY <1>9 DEF Abandon, Idle, WorkerOver
  <2> QED
    BY <1>9, <2>1, WorkerMoves DEF Abandon
<1>10. CASE UNCHANGED vars
  BY <1>10 DEF vars, OInv, Typed, Distinct, AcksAreStored, Counted, AckedIsStored, Stored
<1> QED
  BY <1>1, <1>2, <1>3, <1>4, <1>5, <1>6, <1>7, <1>8, <1>9, <1>10 DEF Next, Work

\* The invariant holds in every reachable state.
THEOREM OutboxInvariance == Spec => []OInv
<1> QED
  BY InitOInv, NextOInv, PTL DEF Spec

(* The gateway forgets the payload of a message (Acknowledge) only when the *)
(* edge has committed exactly this content.                                 *)
THEOREM ForgottenWhenStored == Spec => []AckedIsStored
<1>1. OInv => AckedIsStored
  BY DEF OInv
<1> QED
  BY <1>1, OutboxInvariance, PTL

(* The content of a message is written to the database of the edge at most  *)
(* once (IngestMessages with the inbox), however often it is delivered.     *)
THEOREM WrittenOnce == Spec => []AppliedOnce
<1>1. OInv => AppliedOnce
  BY DEF OInv, Counted, AppliedOnce
<1> QED
  BY <1>1, OutboxInvariance, PTL

-----------------------------------------------------------------------------
(***************************************************************************)
(* The page a poll returns bounds what the bridge has in hand, also when a *)
(* batch that failed is taken one by one.                                  *)
(***************************************************************************)
Page == worker.turn \cup worker.rest

Small(S) == IsFiniteSet(S) /\ Cardinality(S) <= Limit

Bounded ==
    /\ approved \subseteq Devices /\ changes \in 0 .. MaxChanges
    /\ faults \in 0 .. MaxFaults
    /\ Small(Page)

LEMMA SmallSubset ==
    ASSUME NEW S, Small(S), NEW T \in SUBSET S
    PROVE  Small(T)
<1>1. IsFiniteSet(T) /\ Cardinality(T) <= Cardinality(S)
  BY FS_Subset DEF Small
<1>2. Cardinality(T) \in Nat /\ Cardinality(S) \in Nat /\ Limit \in Nat
  BY <1>1, FS_CardinalityType, OutboxAssumption DEF Small
<1> QED
  BY <1>1, <1>2 DEF Small

\* A set of rows that is not empty has a last one.
LEMMA LastRow ==
    ASSUME NEW n \in Nat, NEW S \in SUBSET (1 .. n), S # {}
    PROVE  \E m \in S : \A i \in S : i <= m
<1> DEFINE T == {k \in Nat : \A i \in S : i <= k}
<1>1. T \in SUBSET Nat /\ n \in T
  OBVIOUS
<1>2. PICK m \in T : \A k \in T : ~ (<<k, m>> \in OpToRel(<, Nat))
  <2> HIDE DEF T
  <2> QED
    BY <1>1, NatLessThanWellFounded, WFMin
<1>3. ASSUME NEW k \in T PROVE ~ (k < m)
  <2>1. k \in Nat /\ m \in Nat
    OBVIOUS
  <2>2. <<k, m>> \in OpToRel(<, Nat) <=> k < m
    BY <2>1, Zenon DEF OpToRel
  <2> QED
    BY <1>2, <2>2
<1>4. m \in S
  <2> SUFFICES ASSUME m \notin S PROVE FALSE
    OBVIOUS
  <2>1. m \in Nat /\ \A i \in S : i \in Nat /\ i > 0 /\ i < m
    OBVIOUS
  <2>2. m > 0
    <3>1. PICK i \in S : TRUE
      OBVIOUS
    <3> QED
      BY <2>1, <3>1
  <2>3. m - 1 \in T
    BY <2>1, <2>2
  <2> QED
    BY <1>3, <2>2, <2>3
<1> QED
  BY <1>4

\* A poll returns no more rows than the limit.
LEMMA PendingIsSmall ==
    ASSUME outbox \in Seq(Row)
    PROVE  Small(Pending)
<1>1. PICK n \in Nat : DOMAIN outbox = 1 .. n
  OBVIOUS
<1>2. Limit \in Nat \ {0}
  BY OutboxAssumption
<1>3. IsFiniteSet(1 .. n)
  BY FS_Interval
<1>4. CASE Pending = {}
  BY <1>2, <1>4, FS_EmptySet DEF Small
<1>5. CASE Pending # {}
  <2>1. Pending \in SUBSET (1 .. n) /\ Pending \subseteq Unacknowledged
    BY <1>1 DEF Pending, Unacknowledged
  <2>2. PICK m \in Pending : \A i \in Pending : i <= m
    BY <1>5, <2>1, LastRow
  <2> DEFINE S == {j \in Unacknowledged : j < m}
  <2>3. Cardinality(S) < Limit
    BY DEF Pending
  <2>4. S \in SUBSET (1 .. n)
    BY <1>1 DEF Unacknowledged
  <2>5. IsFiniteSet(S) /\ Cardinality(S) \in Nat
    <3> HIDE DEF S
    <3> QED
      BY <1>3, <2>4, FS_Subset, FS_CardinalityType
  <2>6. Pending \in SUBSET (S \cup {m})
    BY <2>1, <2>2
  <2>7. IsFiniteSet(S \cup {m}) /\ Cardinality(S \cup {m}) <= Limit
    <3>1. m \notin S
      BY <1>1 DEF Unacknowledged
    <3> HIDE DEF S
    <3>2. IsFiniteSet(S \cup {m}) /\ Cardinality(S \cup {m}) = Cardinality(S) + 1
      BY <2>5, <3>1, FS_AddElement
    <3> QED
      BY <1>2, <2>3, <2>5, <3>2
  <2> HIDE DEF S
  <2> QED
    BY <2>6, <2>7, SmallSubset DEF Small
<1> QED
  BY <1>4, <1>5

\* What follows a batch is part of the page.
LEMMA AfterInPage ==
    ASSUME OInv, NEW batch \in SUBSET Page, NEW ok
    PROVE  After(batch, ok).turn \cup After(batch, ok).rest \subseteq Page
<1>1. Page \in SUBSET Nat /\ worker.rest \in SUBSET Page
  BY DEF OInv, Typed, WorkerOver, Page
<1>2. Idle.turn \cup Idle.rest \subseteq Page
  BY DEF Idle
<1>3. ASSUME NEW m \in SUBSET Page
      PROVE  NextSingle(m).turn \cup NextSingle(m).rest \subseteq Page
  <2>1. CASE m = {}
    BY <1>2, <2>1 DEF NextSingle
  <2>2. CASE m # {}
    <3>1. First(m) \in m
      BY <1>1, <2>2, FirstIsElement
    <3>2. NextSingle(m).turn = {First(m)} /\ NextSingle(m).rest = m \ {First(m)}
      BY <2>2 DEF NextSingle, Idle
    <3> QED
      BY <3>1, <3>2
  <2> QED
    BY <2>1, <2>2
<1> QED
  BY <1>1, <1>2, <1>3 DEF After

LEMMA BoundedKept == OInv /\ Bounded /\ [Next]_vars => Bounded'
<1> SUFFICES ASSUME OInv, Bounded, [Next]_vars PROVE Bounded'
  OBVIOUS
<1>1. /\ approved' \subseteq Devices /\ changes' \in 0 .. MaxChanges
      /\ faults' \in 0 .. MaxFaults
  <2>1. \/ UNCHANGED <<approved, changes>> /\ (faults' = faults \/ Fault)
        \/ \E d \in Devices : ChangeDevice(d)
    BY DEF Next, Work, Enqueue, Poll, Prepare, Ingest, SendAck, EndOfTurn, LateAck, Abandon, vars
  <2>2. \A n, max \in Nat : n \in 0 .. max /\ n < max => n + 1 \in 0 .. max
    OBVIOUS
  <2> QED
    BY <2>1, <2>2, OutboxAssumption DEF Bounded, ChangeDevice, Fault
<1>2. worker \in WorkerOver(DOMAIN outbox)
  BY DEF OInv, Typed
<1>3. ASSUME worker'.turn \cup worker'.rest \subseteq Page PROVE Small(Page')
  BY <1>3, SmallSubset DEF Bounded, Page
<1>4. ASSUME NEW batch \in {worker.turn, worker.rest}, NEW ok, worker' = After(batch, ok)
      PROVE  Small(Page')
  <2>1. batch \in SUBSET Page
    BY DEF Page
  <2> QED
    BY <1>3, <1>4, <2>1, AfterInPage
<1>5. CASE Poll
  <2>1. worker'.turn = Pending /\ worker'.rest = {}
    BY <1>5 DEF Poll, Idle
  <2>2. Small(Pending)
    BY PendingIsSmall DEF OInv, Typed
  <2> QED
    BY <1>1, <2>1, <2>2 DEF Bounded, Page
<1>6. CASE Prepare
  <2>1. CASE worker' = [worker EXCEPT !.pc = "ingest",
                                      !.rest = IF worker.single THEN @ ELSE worker.turn]
    BY <1>1, <1>2, <1>3, <2>1 DEF Bounded, WorkerOver, Page
  <2>2. CASE worker' = After(worker.turn, FALSE)
    BY <1>1, <1>4, <2>2 DEF Bounded
  <2> QED
    BY <1>6, <2>1, <2>2 DEF Prepare
<1>7. CASE Ingest
  <2>1. CASE worker' = [worker EXCEPT !.pc = "ack"]
    BY <1>1, <1>2, <1>3, <2>1 DEF Bounded, WorkerOver, Page
  <2>2. CASE worker' = After(worker.turn, FALSE)
    BY <1>1, <1>4, <2>2 DEF Bounded
  <2> QED
    BY <1>7, <2>1, <2>2 DEF Ingest
<1>8. CASE SendAck
  <2> DEFINE i == First(worker.turn)
  <2>1. \/ worker' = [worker EXCEPT !.turn = @ \ {i}]
        \/ worker' = [worker EXCEPT !.turn = @ \ {i}, !.failed = TRUE]
    BY <1>8 DEF SendAck
  <2>2. worker'.turn \subseteq worker.turn /\ worker'.rest = worker.rest
    BY <1>2, <2>1 DEF WorkerOver
  <2> QED
    BY <1>1, <1>3, <2>2 DEF Bounded, Page
<1>9. CASE EndOfTurn
  BY <1>1, <1>4, <1>9 DEF EndOfTurn, Bounded
<1>10. CASE Abandon
  BY <1>1, <1>3, <1>10 DEF Abandon, Idle, Bounded
<1>11. CASE UNCHANGED worker
  BY <1>1, <1>3, <1>11 DEF Bounded, Page
<1> QED
  BY <1>5, <1>6, <1>7, <1>8, <1>9, <1>10, <1>11
     DEF Next, Work, Enqueue, ChangeDevice, LateAck, vars

(* Type correctness; in particular the bridge never has more messages in    *)
(* hand than one poll returns (PollPending and its batches), also when it   *)
(* takes the messages of a failed batch one by one.                         *)
THEOREM TypeCorrect == Spec => []TypeOK
<1>1. Init => Bounded
  <2> SUFFICES ASSUME Init PROVE Bounded
    OBVIOUS
  <2>1. Page = {}
    BY DEF Init, Idle, Page
  <2> QED
    BY <2>1, FS_EmptySet, OutboxAssumption DEF Init, Bounded, Small
<1>2. OInv /\ Bounded => TypeOK
  BY DEF OInv, Typed, Bounded, Small, Page, TypeOK, Row, WorkerOver
<1> QED
  BY <1>1, <1>2, BoundedKept, OutboxInvariance, PTL DEF Spec
=============================================================================
