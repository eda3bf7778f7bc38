--------------------------- MODULE Component_proofs ---------------------------
(***************************************************************************)
(* Proofs about components that run beside others in                       *)
(* MCSystem.  Each is an instance with constants and variables of its own, *)
(* and the theorems about one do not depend on another:                    *)
(*   Archives  a point is in one place and does not disappear, and a       *)
(*             query misses none;                                          *)
(*   Agent     the programs of a node run one after the other;             *)
(*   Release   a batch enters on releases that have run;                   *)
(*   History   no accepted reading is forgotten by a recomputation;        *)
(*   Tasks     a task and its document end alike, and operators change     *)
(*             what they have read.                                        *)
(*   Buffer    an accepted reading is buffered, delivered or reported;     *)
(*   Native    ThingsBoard ends with the newest version of an entity;      *)
(*   Mqtt      a device hears no acknowledgement of an event that is not   *)
(*             stored, and an answer to a command is that of its device.   *)
(***************************************************************************)
EXTENDS Naturals, FiniteSets, Sequences, FiniteSetTheorems,
        WellFoundedInduction, TLAPS

CONSTANTS
    Times, Revisions, BlockPoints, Limit, MaxPoints,
    Releases, MaxGeneration, AgentFaults, NotedOnly,
    Workloads, Deployments, Batch, ReleaseFaults, MaxOrders,
    Readings, ReplayAttempts, ReplayFaults, ReplayOrders,
    Deliveries, Recomputes, Operators, MaxAttempts, TaskChanges, TaskCrashes,
    BufferReadings, BufferCapacity, BufferBatch, BufferFaults,
    MaxVersion, MaxWorkers, NativeFaults,
    Commands, Target, Idempotent, Devices, Events, Source, MqttCapacity, AckCapacity, Ordered,
    Neighbour, MaxConfigs, MaxSends, MqttFaults,
    None

VARIABLES
    hot, blocks, cut, raw, candidate, expiry, query,
    desired, told, halted, procs, next, pc, child, active, pending, status, failure, fetched,
    agentFaults,
    deployment, target, assignment, identity, agent, ran, late, releaseFaults, orders,
    stored, queue, evaluated, count, job, draft, rolled, swept, replayTask, worker,
    lateReadings, replayFaults, replayOrders,
    up, outbox, doc, task, work, held, right, made, misled, taskChanges, taskCrashes,
    bufferRow, bufferGaps, reported, received, offered, promised, bufferCall, bufferReplay,
    sweep, linked, bufferFaults,
    locked, current, nativeRow, nativeWorker, holder, mapping, object, detail, best, acting,
    nativeFaults,
    mqttCall, mqttPending, wire, did, event, routed, upstream, handled, eventOutbox, acks,
    config, neighbour, mqttFaults

Archives == INSTANCE Archive
Agent == INSTANCE ReleaseAgent WITH MaxFaults <- AgentFaults, faults <- agentFaults
Release == INSTANCE ReleaseDeployment WITH MaxFaults <- ReleaseFaults, faults <- releaseFaults
History == INSTANCE HistoryReplay WITH
    MaxAttempts <- ReplayAttempts, MaxFaults <- ReplayFaults, MaxOrders <- ReplayOrders,
    task <- replayTask, late <- lateReadings, faults <- replayFaults, orders <- replayOrders
Tasks == INSTANCE TaskLedger WITH
    MaxChanges <- TaskChanges, MaxCrashes <- TaskCrashes,
    changes <- taskChanges, crashes <- taskCrashes
Buffer == INSTANCE ReplayBuffer WITH
    Readings <- BufferReadings, Capacity <- BufferCapacity, Batch <- BufferBatch,
    MaxFaults <- BufferFaults, row <- bufferRow, gaps <- bufferGaps, call <- bufferCall,
    replay <- bufferReplay, faults <- bufferFaults
Native == INSTANCE NativeProjection WITH
    MaxFaults <- NativeFaults, row <- nativeRow, worker <- nativeWorker, ready <- acting,
    faults <- nativeFaults
Mqtt == INSTANCE MqttConnector WITH
    Capacity <- MqttCapacity, MaxFaults <- MqttFaults, call <- mqttCall, pending <- mqttPending,
    current <- handled, outbox <- eventOutbox, faults <- mqttFaults

-----------------------------------------------------------------------------
(* The archive.  That a point is in one place, and that none disappears,    *)
(* does not follow from the transactions alone.  That a new row is not in a *)
(* block already rests on the revisions of a time being numbered without a  *)
(* gap, in the hot rows and the blocks together, as long as the time is     *)
(* within its retention (Numbered); that a block may be replaced rests on   *)
(* its remainder having been computed from the same contents and from a     *)
(* cut that is not ahead of the present one (Retention).                    *)
Rows == Times \X Revisions

Stored == hot \subseteq Rows /\ (\A b \in blocks : b \subseteq Rows) /\ raw \in Nat

Retention ==
    /\ expiry = [pc |-> expiry.pc, raw |-> expiry.raw, block |-> expiry.block, keep |-> expiry.keep]
    /\ expiry.raw \in Nat /\ expiry.raw <= raw
    /\ expiry.pc = "replace" => expiry.keep = {p \in expiry.block : Archives!Time(p) > expiry.raw}

\* The revisions of a time are 1, 2, ... in S.
OfTime(S, t) == {p \in S : Archives!Time(p) = t}
Gapless(K, t) ==
    /\ IsFiniteSet(K)
    /\ K = {<<t, i>> : i \in 1 .. Cardinality(K)}
Numbered == \A t \in Times : t > raw => Gapless(OfTime(Archives!Points, t), t)

RInv == Stored /\ Retention /\ Numbered /\ Archives!OnePlace

\* An instance has its own name for the same operator.
LEMMA SameCardinality ==
    /\ \A S : Archives!Cardinality(S) = Cardinality(S)
    /\ \A S : Agent!Cardinality(S) = Cardinality(S)
<1>1. \A S : Archives!Cardinality(S) = Cardinality(S)
  BY DEF Archives!Cardinality, Cardinality
<1>2. \A S : Agent!Cardinality(S) = Cardinality(S)
  BY DEF Agent!Cardinality, Cardinality
<1> QED
  BY <1>1, <1>2

(* A row with the next revision is new, and leaves no gap.                  *)
LEMMA NextRevision ==
    ASSUME NEW t, NEW K, Gapless(K, t)
    PROVE  LET p == <<t, Cardinality(K) + 1>> IN
           p \notin K /\ Gapless(K \cup {p}, t)
<1> DEFINE n == Cardinality(K)
           p == <<t, n + 1>>
<1>1. n \in Nat /\ K = {<<t, i>> : i \in 1 .. n} /\ IsFiniteSet(K)
  BY FS_CardinalityType DEF Gapless
<1> HIDE DEF n
<1>2. p \notin K
  BY <1>1
<1>3. IsFiniteSet(K \cup {p}) /\ Cardinality(K \cup {p}) = n + 1
  BY <1>1, <1>2, FS_AddElement DEF n
<1>4. 1 .. n + 1 = (1 .. n) \cup {n + 1}
  BY <1>1
<1>5. K \cup {p} = {<<t, i>> : i \in 1 .. n + 1}
  BY <1>1, <1>4
<1> QED
  BY <1>2, <1>3, <1>5 DEF Gapless, n

LEMMA Pairs ==
    ASSUME NEW A, NEW B, NEW p \in A \X B
    PROVE  p[1] \in A /\ p[2] \in B /\ p = <<p[1], p[2]>>
  OBVIOUS

LEMMA RowTimes ==
    ASSUME Times \subseteq Nat, Stored, NEW p \in Archives!Points
    PROVE  /\ p \in Rows /\ Archives!Time(p) \in Times /\ Archives!Time(p) \in Nat
           /\ p = <<Archives!Time(p), p[2]>>
<1>1. p \in Rows
  BY DEF Archives!Points, Archives!Archived, Stored
<1>2. Archives!Time(p) = p[1] /\ p[1] \in Times /\ p = <<p[1], p[2]>>
  BY <1>1, Pairs DEF Rows, Archives!Time
<1> QED
  BY <1>1, <1>2

-----------------------------------------------------------------------------
(* What a step does to the points.                                          *)
\* All of a step but an insertion: it adds nothing, and takes nothing that
\* is within its retention.
Moves ==
    /\ Archives!Points' \subseteq Archives!Points
    /\ \A p \in Archives!Points : Archives!Time(p) > raw' => p \in Archives!Points'

\* What every step leaves of the rows and blocks.
Sound == Stored' /\ Retention' /\ Archives!OnePlace'

LEMMA InsertSteps ==
    ASSUME Archives!ArchiveConstants, RInv, NEW t \in Times, Archives!Insert(t)
    PROVE  Sound /\ Numbered' /\ Archives!Points \subseteq Archives!Points'
<1> USE DEF RInv, Archives!ArchiveConstants
<1> DEFINE K == OfTime(Archives!Points, t)
           p == <<t, Cardinality(K) + 1>>
<1>1. /\ t > raw /\ hot' = hot \cup {p} /\ p \in Rows
      /\ UNCHANGED <<blocks, raw, expiry>>
  BY SameCardinality DEF Archives!Insert, Archives!Known, OfTime, Rows
<1>2. p \notin Archives!Points /\ Gapless(K \cup {p}, t)
  <2>1. Gapless(K, t)
    BY <1>1 DEF Numbered
  <2>2. p \notin K /\ Gapless(K \cup {p}, t)
    BY <2>1, NextRevision
  <2>3. Archives!Time(p) = t
    BY DEF Archives!Time
  <2> QED
    BY <2>2, <2>3 DEF OfTime
<1>3. Archives!Points' = Archives!Points \cup {p}
  BY <1>1 DEF Archives!Points, Archives!Archived
<1>4. Stored' /\ Retention'
  BY <1>1 DEF Stored, Retention
<1>5. Archives!Time(p) = t
  BY DEF Archives!Time
<1> HIDE DEF p
<1>6. Archives!OnePlace'
  <2>1. Archives!Archived' = Archives!Archived /\ p \notin Archives!Archived
    BY <1>1, <1>2 DEF Archives!Points, Archives!Archived
  <2>2. hot' \cap Archives!Archived' = {}
    BY <1>1, <2>1 DEF Archives!OnePlace
  <2> QED
    BY <2>2, <1>1 DEF Archives!OnePlace
<1>7. Numbered'
  <2> SUFFICES ASSUME NEW u \in Times, u > raw PROVE Gapless(OfTime(Archives!Points', u), u)
    BY <1>1 DEF Numbered
  <2>1. CASE u = t
    <3>1. OfTime(Archives!Points', u) = K \cup {p}
      BY <2>1, <1>3, <1>5 DEF OfTime
    <3> QED
      BY <3>1, <2>1, <1>2
  <2>2. CASE u # t
    <3>1. OfTime(Archives!Points', u) = OfTime(Archives!Points, u)
      BY <2>2, <1>3, <1>5 DEF OfTime
    <3> QED
      BY <3>1 DEF Numbered
  <2> QED
    BY <2>1, <2>2
<1> QED
  BY <1>3, <1>4, <1>6, <1>7 DEF Sound

LEMMA CommitSteps ==
    ASSUME RInv, Archives!Commit
    PROVE  Sound /\ Moves
<1> USE DEF RInv
<1> DEFINE rows == candidate.rows
<1>1. CASE UNCHANGED <<hot, blocks>>
  BY <1>1 DEF Archives!Commit, Sound, Moves, Stored, Retention, Archives!OnePlace,
              Archives!Points, Archives!Archived
<1>2. CASE rows \subseteq hot /\ hot' = hot \ rows /\ blocks' = blocks \cup {rows}
  <2>1. Archives!Points' = Archives!Points
    BY <1>2 DEF Archives!Points, Archives!Archived
  <2>2. Archives!OnePlace'
    BY <1>2 DEF Archives!OnePlace, Archives!Archived
  <2>3. Stored' /\ Retention'
    BY <1>2 DEF Archives!Commit, Stored, Retention
  <2> QED
    BY <2>1, <2>2, <2>3 DEF Sound, Moves
<1> QED
  BY <1>1, <1>2 DEF Archives!Commit, Archives!Unchanged, Archives!Retired

LEMMA ReplaceSteps ==
    ASSUME Archives!ArchiveConstants, RInv, Archives!ReplaceBlock
    PROVE  Sound /\ Moves
<1> USE DEF RInv, Archives!ArchiveConstants
<1> DEFINE b == expiry.block
           k == expiry.keep
<1>1. CASE UNCHANGED blocks /\ expiry' = Archives!NoExpiry
  BY <1>1 DEF Archives!ReplaceBlock, Sound, Moves, Stored, Retention, Archives!OnePlace,
              Archives!Points, Archives!Archived, Archives!NoExpiry
<1>2. CASE /\ b \in blocks /\ blocks' = Archives!Replaced(expiry)
           /\ expiry' = [expiry EXCEPT !.pc = "blocks"]
  <2>1. /\ k = {p \in b : Archives!Time(p) > expiry.raw}
        /\ expiry.raw \in Nat /\ raw \in Nat /\ expiry.raw <= raw
        /\ UNCHANGED <<hot, raw>>
    BY DEF Archives!ReplaceBlock, Retention, Stored
  <2>2. \A c \in blocks' : (c \in blocks /\ c # b) \/ c = k
    BY <1>2 DEF Archives!Replaced
  <2>3. Archives!OnePlace'
    <3>1. k \subseteq b
      BY <2>1
    <3> HIDE DEF k, b
    <3>2. \A c \in blocks' : \E d \in blocks : c \subseteq d /\ (c = d \/ (c = k /\ d = b))
      BY <1>2, <2>2, <3>1
    <3>3. hot' \cap Archives!Archived' = {}
      BY <2>1, <3>2 DEF Archives!OnePlace, Archives!Archived
    <3>4. ASSUME NEW c \in blocks', NEW d \in blocks', c # d
          PROVE  c \cap d = {}
      BY <3>4, <3>1, <1>2, <2>2 DEF Archives!OnePlace
    <3> QED
      BY <3>3, <3>4 DEF Archives!OnePlace
  <2>4. Archives!Points' \subseteq Archives!Points
    BY <1>2, <2>1, <2>2 DEF Archives!Points, Archives!Archived
  <2>5. ASSUME NEW p \in Archives!Points, Archives!Time(p) > raw
        PROVE  p \in Archives!Points'
    <3>1. Archives!Time(p) > expiry.raw
      BY <2>1, <2>5, RowTimes
    <3>2. CASE p \in hot
      BY <3>2, <2>1 DEF Archives!Points
    <3>3. ASSUME NEW c \in blocks, p \in c
          PROVE  p \in Archives!Points'
      <4>1. CASE c # b
        BY <4>1, <3>3, <1>2 DEF Archives!Points, Archives!Archived, Archives!Replaced
      <4>2. CASE c = b
        <5>1. p \in k /\ k \in blocks'
          BY <4>2, <3>1, <3>3, <2>1, <1>2 DEF Archives!Replaced
        <5> QED
          BY <5>1 DEF Archives!Points, Archives!Archived
      <4> QED
        BY <4>1, <4>2
    <3> QED
      BY <3>2, <3>3 DEF Archives!Points, Archives!Archived
  <2>6. Stored'
    BY <1>2, <2>1, <2>2 DEF Stored
  <2>8. Retention'
    <3>1. expiry' =
            [pc |-> "blocks", raw |-> expiry.raw, block |-> expiry.block, keep |-> expiry.keep]
      BY <1>2 DEF Retention
    <3> QED
      BY <3>1, <2>1 DEF Retention
  <2> QED
    BY <2>1, <2>3, <2>4, <2>5, <2>6, <2>8 DEF Sound, Moves
<1> QED
  BY <1>1, <1>2 DEF Archives!ReplaceBlock

LEMMA ExpireRowsSteps ==
    ASSUME Archives!ArchiveConstants, RInv, Archives!ExpireRows
    PROVE  Sound /\ Moves
<1> USE DEF RInv, Archives!ArchiveConstants
<1>1. /\ hot' = {p \in hot : Archives!Time(p) > expiry.raw} /\ expiry' = Archives!NoExpiry
      /\ UNCHANGED <<blocks, raw>>
      /\ expiry.raw \in Nat /\ raw \in Nat /\ expiry.raw <= raw
  BY DEF Archives!ExpireRows, Retention, Stored
<1>2. Sound
  BY <1>1 DEF Sound, Stored, Retention, Archives!OnePlace, Archives!Archived, Archives!NoExpiry
<1>3. Archives!Points' \subseteq Archives!Points
  BY <1>1 DEF Archives!Points, Archives!Archived
<1>4. ASSUME NEW p \in Archives!Points, Archives!Time(p) > raw
      PROVE  p \in Archives!Points'
  <2>1. Archives!Time(p) > expiry.raw
    BY <1>1, <1>4, RowTimes
  <2> QED
    BY <2>1, <1>1 DEF Archives!Points, Archives!Archived
<1> QED
  BY <1>1, <1>2, <1>3, <1>4 DEF Moves

\* The steps that leave the rows and blocks alone.
LEMMA OtherSteps ==
    ASSUME Archives!ArchiveConstants, RInv, UNCHANGED <<hot, blocks>>,
           \/ Archives!Expire \/ UNCHANGED <<raw, expiry>>
           \/ Archives!BeginRetention \/ Archives!PrepareExpiry \/ Archives!Interrupt
    PROVE  Sound /\ Moves
<1> USE DEF RInv, Archives!ArchiveConstants
<1>1. Archives!Points' = Archives!Points /\ Archives!OnePlace'
  BY DEF Archives!Points, Archives!Archived, Archives!OnePlace
<1>2. raw \in Nat /\ (raw' = raw \/ raw' = raw + 1)
  BY DEF Stored, Archives!Expire, Archives!BeginRetention, Archives!PrepareExpiry,
         Archives!Interrupt
<1>3. Stored'
  BY <1>2 DEF Stored
<1>4. ASSUME Archives!Expire PROVE Retention'
  <2>1. expiry' = expiry /\ raw' = raw + 1
    BY <1>4 DEF Archives!Expire
  <2> QED
    BY <2>1, <1>2 DEF Retention
<1>5. ASSUME UNCHANGED <<raw, expiry>> PROVE Retention'
  BY <1>5 DEF Retention
<1>6. ASSUME Archives!BeginRetention PROVE Retention'
  <2>1. expiry' = [pc |-> "blocks", raw |-> raw, block |-> {}, keep |-> {}] /\ UNCHANGED raw
    BY <1>6 DEF Archives!BeginRetention, Archives!NoExpiry
  <2> QED
    BY <2>1, <1>2 DEF Retention
<1>7. ASSUME Archives!PrepareExpiry PROVE Retention'
  <2>1. UNCHANGED raw
    BY <1>7 DEF Archives!PrepareExpiry
  <2>2. ASSUME expiry' = [expiry EXCEPT !.pc = "rows"]
        PROVE  Retention'
    <3>1. expiry' =
            [pc |-> "rows", raw |-> expiry.raw, block |-> expiry.block, keep |-> expiry.keep]
      BY <2>2 DEF Retention
    <3> QED
      BY <3>1, <2>1 DEF Retention
  <2>3. ASSUME NEW b, expiry' = [expiry EXCEPT !.pc = "replace", !.block = b,
                                               !.keep = {p \in b : Archives!Time(p) > expiry.raw}]
        PROVE  Retention'
    <3>1. expiry' = [pc |-> "replace", raw |-> expiry.raw, block |-> b,
                     keep |-> {p \in b : Archives!Time(p) > expiry.raw}]
      BY <2>3 DEF Retention
    <3> QED
      BY <3>1, <2>1 DEF Retention
  <2> QED
    BY <1>7, <2>2, <2>3 DEF Archives!PrepareExpiry
<1>8. ASSUME Archives!Interrupt PROVE Retention'
  <2>1. expiry' = [pc |-> "idle", raw |-> 0, block |-> {}, keep |-> {}] /\ UNCHANGED raw
    BY <1>8 DEF Archives!Interrupt, Archives!NoExpiry
  <2> QED
    BY <2>1, <1>2 DEF Retention
<1>9. Retention'
  BY <1>4, <1>5, <1>6, <1>7, <1>8
<1> QED
  BY <1>1, <1>3, <1>9 DEF Sound, Moves

\* Moves leaves the revisions that are within their retention as they are.
LEMMA MovesNumbered ==
    ASSUME Archives!ArchiveConstants, RInv, Moves, raw' \in Nat, raw <= raw'
    PROVE  Numbered'
<1> USE DEF RInv, Archives!ArchiveConstants
<1> SUFFICES ASSUME NEW t \in Times, t > raw' PROVE Gapless(OfTime(Archives!Points', t), t)
  BY DEF Numbered
<1>1. t > raw
  BY DEF Stored
<1>2. OfTime(Archives!Points', t) = OfTime(Archives!Points, t)
  BY DEF OfTime, Moves
<1> QED
  BY <1>1, <1>2 DEF Numbered

LEMMA ArchiveSteps ==
    ASSUME Archives!ArchiveConstants, RInv, [Archives!Next]_(Archives!vars)
    PROVE  Sound /\ raw <= raw' /\ (Moves \/ \E t \in Times : Archives!Insert(t))
<1>1. ASSUME NEW t \in Times, Archives!Insert(t)
      PROVE  Sound
  BY <1>1, InsertSteps
<1>2. ASSUME Archives!Commit PROVE Sound /\ Moves
  BY <1>2, CommitSteps
<1>3. ASSUME Archives!ReplaceBlock PROVE Sound /\ Moves
  BY <1>3, ReplaceSteps
<1>4. ASSUME Archives!ExpireRows PROVE Sound /\ Moves
  BY <1>4, ExpireRowsSteps
<1>5. ASSUME Archives!Expire \/ Archives!BeginRetention \/ Archives!PrepareExpiry \/ Archives!Interrupt
      PROVE  Sound /\ Moves
  <2>1. UNCHANGED <<hot, blocks>>
    BY <1>5 DEF Archives!Expire, Archives!BeginRetention, Archives!PrepareExpiry,
                Archives!Interrupt
  <2> QED
    BY <1>5, <2>1, OtherSteps
<1>6. ASSUME Archives!Prepare \/ Archives!QueryStep \/ Archives!Cool \/ UNCHANGED Archives!vars
      PROVE  Sound /\ Moves
  <2>1. UNCHANGED <<hot, blocks, raw, expiry>>
    BY <1>6 DEF Archives!Prepare, Archives!QueryStep, Archives!QueryHot, Archives!QueryArchive,
                Archives!QueryDone, Archives!Cool, Archives!vars
  <2> QED
    BY <2>1, OtherSteps
<1>7. raw <= raw'
  <2>1. raw' = raw \/ raw' = raw + 1
    BY DEF Archives!Next, Archives!ArchiverStep, Archives!RetentionStep, Archives!QueryStep,
           Archives!Insert, Archives!Prepare, Archives!Commit, Archives!BeginRetention,
           Archives!PrepareExpiry, Archives!ReplaceBlock, Archives!ExpireRows,
           Archives!QueryHot, Archives!QueryArchive, Archives!QueryDone, Archives!Cool,
           Archives!Expire, Archives!Interrupt, Archives!vars
  <2>2. raw \in Nat
    BY DEF RInv, Stored
  <2> QED
    BY <2>1, <2>2
<1> QED
  BY <1>1, <1>2, <1>3, <1>4, <1>5, <1>6, <1>7 DEF Archives!Next, Archives!ArchiverStep,
                                                  Archives!RetentionStep

-----------------------------------------------------------------------------
(* The invariant.                                                           *)
LEMMA ArchiveInit ==
    ASSUME Archives!Init
    PROVE  RInv
<1>1. Archives!Points = {}
  BY DEF Archives!Init, Archives!Points, Archives!Archived
<1>2. ASSUME NEW t
      PROVE  Gapless({}, t)
  BY FS_EmptySet DEF Gapless
<1>3. \A t \in Times : OfTime(Archives!Points, t) = {}
  BY <1>1 DEF OfTime
<1>4. Numbered
  BY <1>2, <1>3 DEF Numbered
<1> QED
  BY <1>4 DEF Archives!Init, RInv, Stored, Retention, Archives!OnePlace, Archives!Archived,
              Archives!NoExpiry

LEMMA ArchiveKeeps ==
    ASSUME Archives!ArchiveConstants, RInv, [Archives!Next]_(Archives!vars)
    PROVE  RInv'
<1>1. Sound /\ raw <= raw' /\ (Moves \/ \E t \in Times : Archives!Insert(t))
  BY ArchiveSteps
<1>2. raw' \in Nat
  BY <1>1 DEF Sound, Stored
<1>3. Numbered'
  BY <1>1, <1>2, MovesNumbered, InsertSteps
<1> QED
  BY <1>1, <1>3 DEF Sound, RInv

LEMMA NothingDropped ==
    ASSUME Archives!ArchiveConstants, RInv, [Archives!Next]_(Archives!vars)
    PROVE  Archives!Keeps
<1>1. Moves \/ Archives!Points \subseteq Archives!Points'
  BY ArchiveSteps, InsertSteps
<1> QED
  BY <1>1 DEF Moves, Archives!Keeps

\* Every point is in one place, a hot row or one block (commitArchive,
\* expireArchives), and what the invariant says besides.
THEOREM ArchiveInvariance == Archives!ArchiveConstants => (Archives!Spec => []RInv)
<1> SUFFICES ASSUME Archives!ArchiveConstants PROVE Archives!Spec => []RInv
  OBVIOUS
<1>1. Archives!Init => RInv
  BY ArchiveInit
<1>2. RInv /\ [Archives!Next]_(Archives!vars) => RInv'
  BY ArchiveKeeps
<1> QED
  BY <1>1, <1>2, PTL DEF Archives!Spec

\* Of it, that every point is in one place (commitArchive, expireArchives).
THEOREM InOnePlace == Archives!ArchiveConstants => (Archives!Spec => []Archives!OnePlace)
<1>1. RInv => Archives!OnePlace
  BY DEF RInv
<1> QED
  BY <1>1, ArchiveInvariance, PTL

\* No point within its retention disappears, whatever is inserted while a
\* block is prepared or replaced (ArchiveObservations, ApplyRetention).
THEOREM NoneDisappears == Archives!ArchiveConstants => (Archives!Spec => Archives!KeptWhileRetained)
<1> SUFFICES ASSUME Archives!ArchiveConstants PROVE Archives!Spec => Archives!KeptWhileRetained
  OBVIOUS
<1>1. RInv /\ [Archives!Next]_(Archives!vars) => [Archives!Keeps]_(Archives!vars)
  BY NothingDropped
<1> QED
  BY <1>1, ArchiveInvariance, PTL DEF Archives!Spec, Archives!KeptWhileRetained

-----------------------------------------------------------------------------
(* A query.  A point that it owes is covered by what it has read: by the    *)
(* same or a later revision, or by newer points that fill the page.  Until  *)
(* the blocks have been read it may also lie in one that is still to come;  *)
(* a point that was a hot row cannot leave by being archived in between,    *)
(* for it has been read already (QueryRight).                               *)
Constant ==
    /\ IsFiniteSet(Rows) /\ Limit \in Nat
    /\ \E n \in Nat : \A t \in Times : t \in Nat /\ t <= n
    /\ \E n \in Nat : \A r \in Revisions : r \in Nat /\ r <= n

Above(S, t) == {q \in S : Archives!Time(q) > t}
Covered(S, p) ==
    \/ \E q \in S : Archives!Time(q) = Archives!Time(p) /\ q[2] >= p[2]
    \/ Cardinality(Above(S, Archives!Time(p))) > Limit
OneOfTime(S) == \A p, q \in S : Archives!Time(p) = Archives!Time(q) => p = q

\* What is read of S: nothing is owed any more but what is in the blocks left.
Reads(S, left) ==
    \A p \in query.before :
        Covered(S, p) \/ Archives!Time(p) <= raw \/ \E b \in left : p \in b

QueryRight ==
    /\ query = [f \in {"pc", "points", "blocks", "before"} |-> query[f]]
    /\ query.before \subseteq Rows /\ query.points \subseteq Rows /\ OneOfTime(query.points)
    /\ \A b \in query.blocks \cup blocks : b # {} /\ b \subseteq Rows
    /\ candidate.pc # "idle" => candidate.rows # {}
    /\ query.pc = "archive" => Reads(query.points, blocks)
    /\ query.pc = "blocks" => Reads(query.points, query.blocks)
    /\ query.pc = "done" => Reads(query.points, {})

\* Every set of numbers has a least one, every finite set a bound.
LEMMA LeastNumber ==
    ASSUME NEW S \in SUBSET Nat, S # {}
    PROVE  \E x \in S : \A y \in S : x <= y
<1>1. PICK x \in S : \A y \in S : ~ (<<y, x>> \in OpToRel(<, Nat))
  BY NatLessThanWellFounded, WFMin
<1>2. ASSUME NEW y \in S PROVE x <= y
  <2>1. x \in Nat /\ y \in Nat
    OBVIOUS
  <2>2. <<y, x>> \in OpToRel(<, Nat) <=> y < x
    BY <2>1, Zenon DEF OpToRel
  <2>3. ~ (y < x)
    BY <1>1, <2>2
  <2> QED
    BY <2>1, <2>3
<1> QED
  BY <1>2

LEMMA FiniteIsBounded ==
    ASSUME NEW S \in SUBSET Nat, IsFiniteSet(S)
    PROVE  \E n \in Nat : \A x \in S : x <= n
<1> DEFINE Bound(T) == \E n \in Nat : \A x \in T : x <= n
           Sizes == {m \in Nat : \E T \in SUBSET S : ~Bound(T) /\ Cardinality(T) = m}
<1> SUFFICES ASSUME ~Bound(S) PROVE FALSE
  OBVIOUS
<1>1. \A T \in SUBSET S : IsFiniteSet(T) /\ Cardinality(T) \in Nat
  BY FS_Subset, FS_CardinalityType
<1>2. Sizes \in SUBSET Nat /\ Cardinality(S) \in Sizes
  BY <1>1
<1>3. PICK m \in Sizes : \A l \in Sizes : m <= l
  BY <1>2, LeastNumber
<1>4. PICK T \in SUBSET S : ~Bound(T) /\ Cardinality(T) = m
  OBVIOUS
<1>5. PICK x \in T : TRUE
  BY <1>4
<1>6. Cardinality(T \ {x}) = m - 1 /\ T \ {x} \in SUBSET S /\ Cardinality(T \ {x}) \in Nat
  BY <1>1, <1>4, FS_RemoveElement
<1>7. Bound(T \ {x})
  <2>1. m - 1 \notin Sizes
    BY <1>3
  <2> QED
    BY <1>6, <2>1
<1>8. PICK n \in Nat : \A y \in T \ {x} : y <= n
  BY <1>7
<1>9. x \in Nat /\ \A y \in T : y \in Nat
  OBVIOUS
<1>10. \A y \in T : y <= x \/ y <= n
  BY <1>8, <1>9
<1>11. n + x \in Nat /\ \A y \in T : y <= n + x
  BY <1>9, <1>10
<1> QED
  BY <1>4, <1>11

LEMMA ArchiveNumbers ==
    ASSUME Archives!ArchiveConstants
    PROVE  Constant
<1>1. /\ Times \in SUBSET Nat /\ IsFiniteSet(Times)
      /\ Revisions \in SUBSET Nat /\ IsFiniteSet(Revisions) /\ Limit \in Nat
  <2>1. \A S : Archives!IsFiniteSet(S) <=> IsFiniteSet(S)
    BY DEF Archives!IsFiniteSet, IsFiniteSet
  <2> QED
    BY <2>1 DEF Archives!ArchiveConstants
<1>2. IsFiniteSet(Rows)
  BY <1>1, FS_Product DEF Rows
<1>3. /\ \E n \in Nat : \A t \in Times : t <= n
      /\ \E n \in Nat : \A r \in Revisions : r <= n
  BY <1>1, FiniteIsBounded
<1> QED
  BY <1>1, <1>2, <1>3 DEF Constant

LEMMA RowParts ==
    ASSUME Constant, NEW p \in Rows
    PROVE  Archives!Time(p) = p[1] /\ p[1] \in Nat /\ p[2] \in Revisions /\ p[2] \in Nat
           /\ p = <<p[1], p[2]>>
<1>1. p[1] \in Times /\ p[2] \in Revisions /\ p = <<p[1], p[2]>>
  BY Pairs DEF Rows
<1> QED
  BY <1>1 DEF Constant, Archives!Time

LEMMA AboveFinite ==
    ASSUME Constant, NEW S, S \subseteq Rows, NEW t
    PROVE  IsFiniteSet(Above(S, t)) /\ Cardinality(Above(S, t)) \in Nat
<1>1. Above(S, t) \in SUBSET Rows
  BY DEF Above
<1> QED
  BY <1>1, FS_Subset, FS_CardinalityType DEF Constant

\* Every set of revisions has a last one.
LEMMA GreatestNumber ==
    ASSUME NEW S \in SUBSET Nat, S # {}, NEW n \in Nat, \A x \in S : x <= n
    PROVE  \E x \in S : \A y \in S : y <= x
<1> DEFINE D == {n - x : x \in S}
<1>1. \A x \in S : x \in Nat /\ n - x \in Nat
  OBVIOUS
<1>2. D \in SUBSET Nat /\ D # {}
  BY <1>1
<1> HIDE DEF D
<1>3. PICK d \in D : \A e \in D : d <= e
  BY <1>2, LeastNumber
<1>4. PICK x \in S : d = n - x
  BY DEF D
<1>5. ASSUME NEW y \in S PROVE y <= x
  <2>1. n - y \in D
    BY DEF D
  <2> QED
    BY <1>1, <1>3, <1>4, <2>1
<1> QED
  BY <1>5

\* Merging keeps one point of a time, the newest.
LEMMA Merges ==
    ASSUME Constant, NEW S, S \subseteq Rows
    PROVE  /\ Archives!Merged(S) \subseteq S /\ OneOfTime(Archives!Merged(S))
           /\ \A p \in S : \E q \in Archives!Merged(S) :
                  Archives!Time(q) = Archives!Time(p) /\ q[2] >= p[2]
<1>1. ASSUME NEW p \in S
      PROVE  \E q \in Archives!Merged(S) : Archives!Time(q) = Archives!Time(p) /\ q[2] >= p[2]
  <2> DEFINE R == {r \in Revisions : <<p[1], r>> \in S}
  <2>1. p[2] \in R /\ R \in SUBSET Nat
    BY RowParts DEF Constant
  <2>2. PICK n \in Nat : \A r \in R : r <= n
    BY DEF Constant
  <2>3. PICK m \in R : \A r \in R : r <= m
    BY <2>1, <2>2, GreatestNumber
  <2> DEFINE q == <<p[1], m>>
  <2>4. q \in S /\ Archives!Time(q) = Archives!Time(p) /\ q[2] = m /\ m >= p[2]
    BY <2>1, <2>3 DEF Archives!Time
  <2>5. ASSUME NEW r \in S, Archives!Time(r) = p[1] PROVE ~ (r[2] > m)
    <3>1. r[2] \in R /\ r[2] \in Nat /\ m \in Nat
      BY <2>1, <2>5, RowParts
    <3> QED
      BY <2>3, <3>1
  <2>6. Archives!Time(p) = p[1]
    BY DEF Archives!Time
  <2> QED
    BY <2>4, <2>5, <2>6 DEF Archives!Merged
<1>2. ASSUME NEW p \in Archives!Merged(S), NEW q \in Archives!Merged(S),
             Archives!Time(p) = Archives!Time(q)
      PROVE  p = q
  <2>1. p \in Rows /\ q \in Rows /\ ~ (q[2] > p[2]) /\ ~ (p[2] > q[2])
    BY <1>2 DEF Archives!Merged
  <2> QED
    BY <1>2, <2>1, RowParts
<1> QED
  BY <1>1, <1>2 DEF Archives!Merged, OneOfTime

\* A page that does not hold all above a time holds more than the limit there.
LEMMA NewestFill ==
    ASSUME Constant, NEW M, M \subseteq Rows, NEW t \in Nat,
           Cardinality(Above(M, t)) > Limit
    PROVE  Cardinality(Above(Archives!Newest(M, Limit + 1), t)) > Limit
<1> DEFINE N == Archives!Newest(M, Limit + 1)
           U == Above(M, t)
           V == Above(N, t)
<1>1. N = {p \in M : Cardinality(Above(M, Archives!Time(p))) < Limit + 1}
  BY SameCardinality DEF Archives!Newest, Above
<1>2. N \subseteq M /\ V \in SUBSET U /\ V \subseteq Rows
  BY <1>1 DEF Above
<1> HIDE DEF N
<1>3. /\ IsFiniteSet(U) /\ Cardinality(U) \in Nat
      /\ IsFiniteSet(V) /\ Cardinality(V) \in Nat /\ Limit \in Nat
  BY <1>2, AboveFinite DEF Constant
<1> SUFFICES ASSUME Cardinality(V) <= Limit PROVE FALSE
  BY <1>3 DEF N
<1>4. U \ V # {}
  BY <1>2, <1>3
<1> DEFINE T == {Archives!Time(p) : p \in U \ V}
<1>5. T \in SUBSET Nat /\ T # {}
  BY <1>4, RowParts DEF Above
<1>6. \E n \in Nat : \A x \in T : x <= n
  <2>1. \A p \in U \ V : Archives!Time(p) \in Times
    BY Pairs DEF Above, Rows, Archives!Time
  <2>2. PICK n \in Nat : \A x \in Times : x <= n
    BY DEF Constant
  <2> QED
    BY <2>1, <2>2
<1>7. PICK x \in U \ V : \A y \in U \ V : Archives!Time(y) <= Archives!Time(x)
  BY <1>5, <1>6, GreatestNumber
<1>8. Above(M, Archives!Time(x)) \in SUBSET V
  BY <1>7, RowParts DEF Above
<1>9. Cardinality(Above(M, Archives!Time(x))) <= Limit
  BY <1>3, <1>8, AboveFinite, FS_Subset
<1>10. x \in N
  <2>1. x \in M /\ Cardinality(Above(M, Archives!Time(x))) \in Nat
    BY <1>7, AboveFinite DEF Above
  <2> QED
    BY <1>1, <1>3, <1>9, <2>1
<1>11. x \in V
  BY <1>7, <1>10 DEF Above
<1> QED
  BY <1>7, <1>11

LEMMA PageCovers ==
    ASSUME Constant, NEW S, S \subseteq Rows
    PROVE  /\ Archives!Page(S) \subseteq S /\ OneOfTime(Archives!Page(S))
           /\ \A p \in Rows :
                  (\E q \in S : Archives!Time(q) = Archives!Time(p) /\ q[2] >= p[2])
                  => Covered(Archives!Page(S), p)
<1> DEFINE M == Archives!Merged(S)
           N == Archives!Newest(M, Limit + 1)
<1>1. N = {p \in M : Cardinality(Above(M, Archives!Time(p))) < Limit + 1}
  BY SameCardinality DEF Archives!Newest, Above
<1>2. M \subseteq S /\ M \subseteq Rows /\ OneOfTime(M) /\ N \subseteq M
  BY <1>1, Merges
<1> HIDE DEF M, N
<1>3. ASSUME NEW p \in Rows, NEW q \in S, Archives!Time(q) = Archives!Time(p), q[2] >= p[2]
      PROVE  Covered(N, p)
  <2>1. PICK r \in M : Archives!Time(r) = Archives!Time(q) /\ r[2] >= q[2]
    BY Merges DEF M
  <2>2. r[2] >= p[2]
    BY <1>2, <1>3, <2>1, RowParts
  <2>3. CASE r \in N
    BY <1>3, <2>1, <2>2, <2>3 DEF Covered
  <2>4. CASE r \notin N
    <3>1. ~ (Cardinality(Above(M, Archives!Time(p))) < Limit + 1)
      BY <1>1, <1>3, <2>1, <2>4
    <3>2. Cardinality(Above(M, Archives!Time(p))) > Limit
      BY <1>2, <3>1, AboveFinite DEF Constant
    <3>3. Archives!Time(p) \in Nat
      BY RowParts
    <3> QED
      BY <1>2, <3>2, <3>3, NewestFill DEF Covered, N
  <2> QED
    BY <2>3, <2>4
<1> QED
  BY <1>2, <1>3 DEF Archives!Page, M, N, OneOfTime

\* A full page stays full when more is merged into it.
LEMMA PageStaysFull ==
    ASSUME Constant, NEW P, NEW S, P \subseteq S, S \subseteq Rows, OneOfTime(P), NEW t \in Nat,
           Cardinality(Above(P, t)) > Limit
    PROVE  Cardinality(Above(Archives!Page(S), t)) > Limit
<1> DEFINE M == Archives!Merged(S)
           A == Above(P, t)
           B == Above(M, t)
           At(q) == CHOOSE r \in M : Archives!Time(r) = Archives!Time(q)
           f == [q \in A |-> At(q)]
<1>1. M \subseteq Rows
  BY Merges
<1>2. ASSUME NEW q \in A PROVE At(q) \in B /\ Archives!Time(At(q)) = Archives!Time(q)
  <2>1. q \in S /\ q \in P /\ Archives!Time(q) > t
    BY DEF Above
  <2>2. \E r \in M : Archives!Time(r) = Archives!Time(q)
    BY <2>1, Merges
  <2>3. At(q) \in M /\ Archives!Time(At(q)) = Archives!Time(q)
    BY <2>2
  <2> QED
    BY <2>1, <2>3 DEF Above
<1>3. ASSUME NEW p \in A, NEW q \in A, At(p) = At(q) PROVE p = q
  <2>1. Archives!Time(p) = Archives!Time(q)
    BY <1>2, <1>3
  <2>2. p \in P /\ q \in P
    BY DEF Above
  <2> QED
    BY <2>1, <2>2 DEF OneOfTime
<1> HIDE DEF At, M
<1>4. f \in Injection(A, B)
  BY <1>2, <1>3 DEF Injection, IsInjective
<1>5. Cardinality(A) <= Cardinality(B)
  BY <1>1, <1>4, AboveFinite, FS_Injection
<1>6. Cardinality(A) \in Nat /\ Cardinality(B) \in Nat /\ Limit \in Nat /\ Cardinality(A) > Limit
  <2>1. P \subseteq Rows
    OBVIOUS
  <2> QED
    BY <1>1, <2>1, AboveFinite DEF Constant
<1> HIDE DEF A, B
<1>7. Cardinality(B) > Limit
  BY <1>5, <1>6
<1> QED
  BY <1>1, <1>7, NewestFill DEF Archives!Page, M, B

LEMMA LastOf ==
    ASSUME Constant, NEW S, S \subseteq Rows, S # {}
    PROVE  /\ Archives!LastTime(S) \in Nat /\ Archives!FirstTime(S) \in Nat
           /\ \A p \in S : Archives!Time(p) <= Archives!LastTime(S)
           /\ \A p \in S : Archives!FirstTime(S) <= Archives!Time(p)
<1> DEFINE T == {Archives!Time(p) : p \in S}
<1>1. T \in SUBSET Nat /\ T # {}
  BY RowParts
<1>2. PICK n \in Nat : \A x \in T : x <= n
  <2>1. \A p \in S : Archives!Time(p) \in Times
    BY Pairs DEF Rows, Archives!Time
  <2>2. PICK n \in Nat : \A x \in Times : x <= n
    BY DEF Constant
  <2> QED
    BY <2>1, <2>2
<1>3. \E t \in T : \A p \in S : t >= Archives!Time(p)
  <2>1. PICK t \in T : \A y \in T : y <= t
    BY <1>1, <1>2, GreatestNumber
  <2>2. \A p \in S : Archives!Time(p) \in T
    OBVIOUS
  <2> QED
    BY <1>1, <2>1, <2>2
<1>4. \E t \in T : \A p \in S : t <= Archives!Time(p)
  <2>1. PICK t \in T : \A y \in T : t <= y
    BY <1>1, LeastNumber
  <2>2. \A p \in S : Archives!Time(p) \in T
    OBVIOUS
  <2> QED
    BY <2>1, <2>2
<1>5. Archives!LastTime(S) \in T /\ \A p \in S : Archives!LastTime(S) >= Archives!Time(p)
  BY <1>3 DEF Archives!LastTime
<1>6. Archives!FirstTime(S) \in T /\ \A p \in S : Archives!FirstTime(S) <= Archives!Time(p)
  BY <1>4 DEF Archives!FirstTime
<1>7. \A p \in S : Archives!Time(p) \in Nat
  BY <1>1
<1> HIDE DEF T
<1> QED
  BY <1>1, <1>5, <1>6, <1>7

\* A block is read, or all that is left is older than a full page.
LEMMA ReadsOn ==
    ASSUME Constant, QueryRight, NEW left, Reads(query.points, left),
           \A c \in left : c # {} /\ c \subseteq Rows,
           NEW b \in left, \A c \in left : Archives!LastTime(b) >= Archives!LastTime(c)
    PROVE  IF Archives!Irrelevant(query.points, b) THEN Reads(query.points, {})
           ELSE Reads(Archives!Page(query.points \cup b), left \ {b})
<1> DEFINE P == query.points
           S == P \cup b
<1>1. P \subseteq Rows /\ S \subseteq Rows /\ P \subseteq S /\ OneOfTime(P) /\ query.before \subseteq Rows
  BY DEF QueryRight
<1> HIDE DEF S, P
<1>2. CASE Archives!Irrelevant(P, b)
  <2>1. Cardinality(P) > Limit /\ Archives!LastTime(b) < Archives!FirstTime(P)
    BY <1>2, SameCardinality DEF Archives!Irrelevant
  <2>2. P # {}
    <3> SUFFICES ASSUME P = {} PROVE FALSE
      OBVIOUS
    <3>1. Cardinality(P) = 0 /\ Limit \in Nat
      BY FS_EmptySet DEF Constant
    <3> QED
      BY <2>1, <3>1
  <2>3. ASSUME NEW c \in left, NEW p \in c PROVE Covered(P, p)
    <3>1. Archives!Time(p) <= Archives!LastTime(c) /\ Archives!LastTime(c) \in Nat
      BY LastOf
    <3>2. Archives!LastTime(b) \in Nat /\ Archives!LastTime(c) <= Archives!LastTime(b)
      BY <3>1, LastOf
    <3>3. Archives!Time(p) \in Nat
      BY RowParts
    <3>4. ASSUME NEW q \in P PROVE Archives!Time(q) > Archives!Time(p)
      <4>1. Archives!FirstTime(P) \in Nat /\ Archives!FirstTime(P) <= Archives!Time(q)
        BY <1>1, <2>2, LastOf
      <4>2. Archives!Time(q) \in Nat
        BY <1>1, RowParts
      <4> QED
        BY <2>1, <3>1, <3>2, <3>3, <4>1, <4>2
    <3>5. Above(P, Archives!Time(p)) = P
      BY <3>4 DEF Above
    <3> QED
      BY <2>1, <3>5 DEF Covered
  <2> QED
    BY <1>2, <2>3 DEF Reads, P
<1>3. CASE ~ Archives!Irrelevant(P, b)
  <2> SUFFICES ASSUME NEW p \in query.before
               PROVE  \/ Covered(Archives!Page(S), p) \/ Archives!Time(p) <= raw
                      \/ \E c \in left \ {b} : p \in c
    BY <1>3 DEF Reads, S, P
  <2>1. p \in Rows /\ Archives!Time(p) \in Nat /\ p[2] \in Nat
    BY <1>1, RowParts
  <2>2. CASE \E q \in P : Archives!Time(q) = Archives!Time(p) /\ q[2] >= p[2]
    BY <1>1, <2>1, <2>2, PageCovers
  <2>3. CASE Cardinality(Above(P, Archives!Time(p))) > Limit
    BY <1>1, <2>1, <2>3, PageStaysFull DEF Covered
  <2>4. CASE p \in b
    <3>1. p \in S /\ p[2] >= p[2]
      BY <2>1, <2>4 DEF S
    <3> QED
      BY <1>1, <2>1, <3>1, PageCovers
  <2>5. \/ Covered(P, p) \/ Archives!Time(p) <= raw \/ \E c \in left : p \in c
    BY DEF Reads, P
  <2> QED
    BY <2>2, <2>3, <2>4, <2>5 DEF Covered
<1> QED
  BY <1>2, <1>3 DEF P, S

LEMMA ReadStep ==
    ASSUME Constant, QueryRight, Archives!QueryArchive
    PROVE  QueryRight'
<1>1. UNCHANGED <<hot, blocks, raw, candidate>>
  BY DEF Archives!QueryArchive
<1>2. ASSUME NEW left, Archives!ReadFrom(left), Reads(query.points, left),
             \A c \in left : c # {} /\ c \subseteq Rows
      PROVE  QueryRight'
  <2>1. CASE left = {} /\ query' = [query EXCEPT !.pc = "done"]
    <3>1. /\ query' = [f \in {"pc", "points", "blocks", "before"} |-> query'[f]]
          /\ query'.pc = "done" /\ query'.points = query.points /\ query'.blocks = query.blocks
          /\ query'.before = query.before
      BY <2>1 DEF QueryRight
    <3> QED
      BY <1>1, <1>2, <2>1, <3>1 DEF QueryRight, Reads
  <2>2. ASSUME NEW b \in left, \A c \in left : Archives!LastTime(b) >= Archives!LastTime(c),
               Archives!ReadBlock(left, b)
        PROVE  QueryRight'
    <3> DEFINE drop == Archives!Irrelevant(query.points, b)
               rest == IF drop THEN {} ELSE left \ {b}
               read == IF drop THEN query.points ELSE Archives!Page(query.points \cup b)
    <3>1. Reads(read, rest)
      BY <1>2, <2>2, ReadsOn
    <3>2. read \subseteq Rows /\ OneOfTime(read)
      <4>1. query.points \cup b \subseteq Rows /\ OneOfTime(query.points)
        BY <1>2 DEF QueryRight
      <4> QED
        BY <4>1, PageCovers
    <3>3. \A c \in rest : c # {} /\ c \subseteq Rows
      BY <1>2
    <3>4. /\ query' = [f \in {"pc", "points", "blocks", "before"} |-> query'[f]]
          /\ query'.pc = IF rest = {} THEN "done" ELSE "blocks"
          /\ query'.points = read /\ query'.blocks = rest /\ query'.before = query.before
      BY <2>2 DEF QueryRight, Archives!ReadBlock
    <3> HIDE DEF drop, rest, read
    <3>5. \A p \in query'.before :
              Covered(query'.points, p) \/ Archives!Time(p) <= raw' \/ \E c \in rest : p \in c
      BY <1>1, <3>1, <3>4 DEF Reads
    <3>6. \A c \in query'.blocks \cup blocks' : c # {} /\ c \subseteq Rows
      BY <1>1, <3>3, <3>4 DEF QueryRight
    <3>7. query'.before \subseteq Rows /\ (candidate'.pc # "idle" => candidate'.rows # {})
      BY <1>1, <3>4 DEF QueryRight
    <3>8. Reads(query.points, query.blocks)' /\ (query'.pc = "done" => Reads(query.points, {})')
      BY <3>4, <3>5 DEF Reads
    <3> QED
      BY <3>2, <3>4, <3>6, <3>7, <3>8 DEF QueryRight
  <2> QED
    BY <1>2, <2>1, <2>2 DEF Archives!ReadFrom
<1> QED
  BY <1>2 DEF Archives!QueryArchive, QueryRight

LEMMA QueryHotStep ==
    ASSUME Constant, Stored, QueryRight, Archives!QueryHot
    PROVE  QueryRight'
<1>1. /\ query' = [pc |-> "archive", points |-> Archives!Page(hot), blocks |-> {},
                   before |-> Archives!Page(Archives!Points)]
      /\ UNCHANGED <<hot, blocks, raw, candidate>>
  BY DEF Archives!QueryHot, Archives!NoQuery
<1>2. hot \subseteq Rows /\ Archives!Points \subseteq Rows
  BY DEF Stored, Archives!Points, Archives!Archived
<1>3. /\ Archives!Page(hot) \subseteq Rows /\ OneOfTime(Archives!Page(hot))
      /\ Archives!Page(Archives!Points) \subseteq Archives!Points
  BY <1>2, PageCovers
<1>4. ASSUME NEW p \in Archives!Page(Archives!Points), \A b \in blocks : p \notin b
      PROVE  Covered(Archives!Page(hot), p)
  <2>1. p \in hot /\ p \in Rows
    BY <1>2, <1>3, <1>4 DEF Archives!Points, Archives!Archived
  <2>2. p[2] >= p[2]
    BY <2>1, RowParts
  <2> QED
    BY <1>2, <2>1, <2>2, PageCovers
<1>5. \A p \in query'.before : Covered(query'.points, p) \/ \E c \in blocks : p \in c
  BY <1>1, <1>4
<1>6. Reads(query.points, blocks)'
  BY <1>1, <1>5 DEF Reads
<1>7. query' = [f \in {"pc", "points", "blocks", "before"} |-> query'[f]]
  BY <1>1
<1>8. /\ query'.pc = "archive" /\ query'.points \subseteq Rows /\ OneOfTime(query'.points)
      /\ query'.before \subseteq Rows /\ query'.blocks = {}
  BY <1>1, <1>2, <1>3
<1> QED
  BY <1>1, <1>6, <1>7, <1>8 DEF QueryRight

\* A step that leaves the query alone: what it owes stays in the blocks or
\* expires.
LEMMA QueryWaits ==
    ASSUME Constant, QueryRight, UNCHANGED query, raw \in Nat, raw' \in Nat, raw <= raw',
           \A b \in blocks : \A p \in b :
               Archives!Time(p) > raw => \E c \in blocks' : p \in c,
           \A b \in blocks' : b # {} /\ b \subseteq Rows,
           candidate'.pc # "idle" => candidate'.rows # {}
    PROVE  QueryRight'
<1>1. ASSUME NEW left, NEW rest, Reads(query.points, left),
             \A b \in left : \A p \in b : Archives!Time(p) > raw => \E c \in rest : p \in c
      PROVE  \A p \in query.before :
                Covered(query.points, p) \/ Archives!Time(p) <= raw' \/ \E c \in rest : p \in c
  <2> TAKE p \in query.before
  <2>1. Archives!Time(p) \in Nat
    BY RowParts DEF QueryRight
  <2>2. Covered(query.points, p) \/ Archives!Time(p) <= raw \/ \E b \in left : p \in b
    BY <1>1 DEF Reads
  <2> QED
    BY <1>1, <2>1, <2>2
<1>2. ASSUME query.pc = "archive" PROVE Reads(query.points, blocks)'
  <2>1. Reads(query.points, blocks)
    BY <1>2 DEF QueryRight
  <2>2. \A p \in query.before :
            Covered(query.points, p) \/ Archives!Time(p) <= raw' \/ \E c \in blocks' : p \in c
    BY <1>1, <2>1
  <2> QED
    BY <2>2 DEF Reads
<1>3. ASSUME query.pc = "blocks" PROVE Reads(query.points, query.blocks)'
  <2>1. Reads(query.points, query.blocks)
    BY <1>3 DEF QueryRight
  <2>2. \A p \in query.before :
            Covered(query.points, p) \/ Archives!Time(p) <= raw' \/ \E c \in query.blocks : p \in c
    BY <1>1, <2>1
  <2> QED
    BY <2>2 DEF Reads
<1>4. ASSUME query.pc = "done" PROVE Reads(query.points, {})'
  <2>1. Reads(query.points, {})
    BY <1>4 DEF QueryRight
  <2>2. \A p \in query.before :
            Covered(query.points, p) \/ Archives!Time(p) <= raw' \/ \E c \in {} : p \in c
    BY <1>1, <2>1
  <2> QED
    BY <2>2 DEF Reads
<1> QED
  BY <1>2, <1>3, <1>4 DEF QueryRight

\* The blocks keep what is within its retention, and are never empty.
LEMMA BlockSteps ==
    ASSUME Archives!ArchiveConstants, RInv, QueryRight, [Archives!Next]_(Archives!vars)
    PROVE  /\ \A b \in blocks : \A p \in b :
                  Archives!Time(p) > raw => \E c \in blocks' : p \in c
           /\ \A b \in blocks' : b # {}
           /\ UNCHANGED query => (candidate'.pc # "idle" => candidate'.rows # {})
<1> USE DEF RInv
<1>1. \A b \in blocks : b # {} /\ \A p \in b : Archives!Time(p) \in Nat
  <2>1. Constant
    BY ArchiveNumbers
  <2> QED
    BY <2>1, RowParts DEF QueryRight
<1>2. ASSUME Archives!Commit
      PROVE  blocks \subseteq blocks' /\ (\A b \in blocks' : b # {})
             /\ candidate' = Archives!NoCandidate
  BY <1>1, <1>2 DEF Archives!Commit, QueryRight
<1>3. ASSUME Archives!ReplaceBlock
      PROVE  /\ \A b \in blocks : \A p \in b :
                    Archives!Time(p) > raw => \E c \in blocks' : p \in c
             /\ \A b \in blocks' : b # {}
             /\ UNCHANGED candidate
  <2>1. CASE UNCHANGED blocks
    BY <1>1, <1>3, <2>1 DEF Archives!ReplaceBlock
  <2>2. CASE blocks' = Archives!Replaced(expiry) /\ expiry.block \in blocks
    <3>1. /\ expiry.keep = {p \in expiry.block : Archives!Time(p) > expiry.raw}
          /\ expiry.raw \in Nat /\ raw \in Nat /\ expiry.raw <= raw
      BY <1>3 DEF Archives!ReplaceBlock, Retention, Stored
    <3>2. ASSUME NEW b \in blocks, NEW p \in b, Archives!Time(p) > raw
          PROVE  \E c \in blocks' : p \in c
      <4>1. CASE b # expiry.block
        BY <2>2, <3>2, <4>1 DEF Archives!Replaced
      <4>2. CASE b = expiry.block
        <5>1. Archives!Time(p) > expiry.raw
          BY <1>1, <3>1, <3>2
        <5>2. p \in expiry.keep
          BY <3>1, <4>2, <5>1
        <5> QED
          BY <2>2, <5>2 DEF Archives!Replaced
      <4> QED
        BY <4>1, <4>2
    <3>3. \A b \in blocks' : b # {}
      BY <1>1, <2>2 DEF Archives!Replaced
    <3> QED
      BY <1>3, <3>2, <3>3 DEF Archives!ReplaceBlock
  <2> QED
    BY <1>3, <2>1, <2>2 DEF Archives!ReplaceBlock
<1>4. ASSUME Archives!Prepare
      PROVE  UNCHANGED blocks /\ candidate'.rows # {}
  BY <1>4 DEF Archives!Prepare
<1>5. ASSUME Archives!Interrupt
      PROVE  UNCHANGED blocks /\ candidate' = Archives!NoCandidate
  BY <1>5 DEF Archives!Interrupt
<1>6. CASE UNCHANGED blocks /\ (UNCHANGED candidate \/ candidate' = Archives!NoCandidate
                                  \/ candidate'.rows # {})
  BY <1>1, <1>6 DEF QueryRight, Archives!NoCandidate
<1>7. CASE Archives!Commit
  BY <1>2, <1>7 DEF Archives!NoCandidate
<1>8. CASE Archives!ReplaceBlock
  BY <1>3, <1>8 DEF QueryRight
<1>9. \/ Archives!Commit \/ Archives!ReplaceBlock
      \/ UNCHANGED blocks /\ (UNCHANGED candidate \/ candidate' = Archives!NoCandidate
                                 \/ candidate'.rows # {})
  BY <1>4, <1>5 DEF Archives!Next, Archives!ArchiverStep, Archives!RetentionStep, Archives!QueryStep,
     Archives!Insert, Archives!BeginRetention, Archives!PrepareExpiry, Archives!ExpireRows,
     Archives!QueryHot, Archives!QueryArchive, Archives!QueryDone, Archives!Cool, Archives!Expire,
     Archives!vars
<1> QED
  BY <1>6, <1>7, <1>8, <1>9

LEMMA QueryKeeps ==
    ASSUME Archives!ArchiveConstants, RInv, QueryRight, [Archives!Next]_(Archives!vars)
    PROVE  QueryRight'
<1>1. Constant /\ Stored
  BY ArchiveNumbers DEF RInv
<1>2. CASE Archives!QueryHot
  BY <1>1, <1>2, QueryHotStep
<1>3. CASE Archives!QueryArchive
  BY <1>1, <1>3, ReadStep
<1>4. CASE Archives!QueryDone
  <2>1. /\ query' = [pc |-> "idle", points |-> {}, blocks |-> {}, before |-> {}]
        /\ UNCHANGED <<blocks, candidate>>
    BY <1>4 DEF Archives!QueryDone, Archives!NoQuery
  <2> QED
    BY <2>1 DEF QueryRight, OneOfTime
<1>5. CASE UNCHANGED query
  <2>1. Stored' /\ raw <= raw'
    BY ArchiveSteps DEF Sound
  <2> QED
    BY <1>1, <1>5, <2>1, BlockSteps, QueryWaits DEF Stored
<1>6. Archives!QueryHot \/ Archives!QueryArchive \/ Archives!QueryDone \/ UNCHANGED query
  BY DEF Archives!Next, Archives!ArchiverStep, Archives!RetentionStep, Archives!QueryStep,
     Archives!Insert, Archives!Prepare, Archives!Commit, Archives!BeginRetention,
     Archives!PrepareExpiry, Archives!ReplaceBlock, Archives!ExpireRows, Archives!Cool,
     Archives!Expire, Archives!Interrupt, Archives!vars
<1> QED
  BY <1>2, <1>3, <1>4, <1>5, <1>6

\* A query misses no point that was stored before it began, although points
\* are archived between its two reads, unless newer ones fill its page or it
\* expires (Query, archiveQuery).
THEOREM NoPointMissed == Archives!ArchiveConstants => (Archives!Spec => []Archives!QueryMissesNothing)
<1> SUFFICES ASSUME Archives!ArchiveConstants PROVE Archives!Spec => []Archives!QueryMissesNothing
  OBVIOUS
<1>1. Archives!Init => QueryRight
  BY DEF Archives!Init, Archives!NoQuery, Archives!NoCandidate, QueryRight, OneOfTime
<1>2. RInv /\ QueryRight /\ [Archives!Next]_(Archives!vars) => QueryRight'
  BY QueryKeeps
<1>3. QueryRight => Archives!QueryMissesNothing
  <2> SUFFICES ASSUME QueryRight, query.pc = "done", NEW p \in query.before
               PROVE  \/ \E q \in query.points :
                            Archives!Time(q) = Archives!Time(p) /\ q[2] >= p[2]
                      \/ Archives!Time(p) <= raw
                      \/ Cardinality(Above(query.points, Archives!Time(p))) > Limit
    BY SameCardinality DEF Archives!QueryMissesNothing, Above
  <2> QED
    BY DEF QueryRight, Reads, Covered
<1> QED
  BY <1>1, <1>2, <1>3, ArchiveInvariance, PTL DEF Archives!Spec

-----------------------------------------------------------------------------
(* The agent of a node.  Some note or the agent itself names the program    *)
(* that runs, from its start on: first the agent that has started it, then  *)
(* pending.json, then active.json; after a restart of the agent, active.json*)
(* once the program is ready; and the agent again once it has given it up.  *)
(* An agent that ends while no file names the program leaves one that       *)
(* nothing names, and starts another one; the theorem is about all other    *)
(* ends.                                                                    *)
Known(pids) == \A p \in procs : p.pid \in pids
ProgramKnown ==
    /\ pc = "starting" => procs = {}
    /\ pc \in {"spawned", "restoring", "waiting"} => Known({child})
    /\ pc = "waiting" => pending.pid = child
    /\ pc \in {"idle", "failing", "verify", "prepare", "stopping", "report"} =>
          Known({active.pid, child})
    /\ pc \in {"down", "restore"} => Known({active.pid, pending.pid})
Programs ==
    /\ \A p \in procs : /\ p = [pid |-> p.pid, release |-> p.release, ready |-> p.ready]
                        /\ p.pid \in Nat \ {0} /\ p.ready \in BOOLEAN
    /\ \A p, q \in procs : p = q
    /\ next \in Nat \ {0}
    /\ active = [generation |-> active.generation, release |-> active.release, pid |-> active.pid]
    /\ pending = [generation |-> pending.generation, release |-> pending.release,
                  pid |-> pending.pid]
AInv == Programs /\ ProgramKnown

LEMMA AgentInit ==
    ASSUME Agent!Init
    PROVE  AInv
  BY DEF Agent!Init, AInv, Programs, ProgramKnown, Known, Agent!NoRelease

\* What a step may do without touching a program or a note.
LEMMA AgentWaits ==
    ASSUME AInv, UNCHANGED <<procs, next, child, active, pending>>,
           \/ pc' = pc
           \/ pc' = "down" /\ Agent!AllNoted
           \/ pc' \in {"idle", "failing", "verify", "prepare", "stopping"}
              /\ pc \in {"idle", "failing", "verify", "prepare", "stopping", "report"}
    PROVE  AInv'
<1>1. Programs'
  BY DEF AInv, Programs
<1>2. ProgramKnown'
  BY DEF AInv, ProgramKnown, Known, Agent!AllNoted
<1> QED
  BY <1>1, <1>2 DEF AInv

\* A program ends, or one of those that run begins to answer.
LEMMA ProgramSteps ==
    ASSUME AInv, NEW p \in procs,
           Agent!Ready(p) \/ Agent!Collides(p) \/ Agent!Dies(p)
    PROVE  AInv'
<1>1. UNCHANGED <<next, pc, child, active, pending>>
  BY DEF Agent!Ready, Agent!Collides, Agent!Dies, Agent!cloud, Agent!files
<1>2. CASE Agent!Ready(p)
  <2>1. procs = {p} /\ p = [pid |-> p.pid, release |-> p.release, ready |-> p.ready]
    BY DEF AInv, Programs
  <2>2. procs' = {[pid |-> p.pid, release |-> p.release, ready |-> TRUE]}
    BY <2>1, <1>2 DEF Agent!Ready
  <2>3. Programs'
    BY <1>1, <2>1, <2>2 DEF AInv, Programs
  <2>4. ProgramKnown'
    BY <1>1, <2>1, <2>2 DEF AInv, ProgramKnown, Known
  <2> QED
    BY <2>3, <2>4 DEF AInv
<1>3. CASE Agent!Collides(p) \/ Agent!Dies(p)
  <2>1. procs' \subseteq procs
    BY <1>3 DEF Agent!Collides, Agent!Dies
  <2>2. Programs'
    BY <1>1, <2>1 DEF AInv, Programs
  <2>3. ProgramKnown'
    BY <1>1, <2>1 DEF AInv, ProgramKnown, Known
  <2> QED
    BY <2>2, <2>3 DEF AInv
<1> QED
  BY <1>2, <1>3

\* The agent starts, and finds its program by the notes.
LEMMA RestoreSteps ==
    ASSUME AInv,
           \/ Agent!Started \/ (\E p \in procs : Agent!Recognise(p))
           \/ Agent!RestoreStart \/ Agent!Restored
    PROVE  AInv'
<1> USE DEF AInv
<1>1. ASSUME Agent!Started
      PROVE  AInv'
  <2>1. pc = "down" /\ pc' = "restore" /\ UNCHANGED <<procs, next, active, pending>>
    BY <1>1 DEF Agent!Started, Agent!files
  <2> QED
    BY <2>1 DEF Programs, ProgramKnown, Known
<1>2. ASSUME NEW p \in procs, Agent!Recognise(p)
      PROVE  AInv'
  <2>1. pc = "restore" /\ UNCHANGED <<procs, next, child>>
    BY <1>2 DEF Agent!Recognise
  <2>2. \/ pc' = "idle" /\ active' = pending /\ pending' = Agent!NoRelease /\ p.pid = pending.pid
        \/ pc' = "idle" /\ UNCHANGED <<active, pending>> /\ p.pid = active.pid
        \/ pc' = "down" /\ UNCHANGED <<active, pending>>
    BY <1>2 DEF Agent!Recognise, Agent!IsPending, Agent!IsActive
  <2>3. Programs'
    BY <2>1, <2>2 DEF Programs, Agent!NoRelease
  <2>4. procs = {p}
    BY DEF Programs
  <2>5. ProgramKnown'
    BY <2>1, <2>2, <2>4 DEF ProgramKnown, Known, Agent!NoRelease
  <2> QED
    BY <2>3, <2>5
<1>3. ASSUME Agent!RestoreStart
      PROVE  AInv'
  <2>1. pc = "restore" /\ UNCHANGED <<active, pending>> /\ ~Agent!Alive(pending.pid)
    BY <1>3 DEF Agent!RestoreStart, Agent!files
  <2>2. ASSUME active = Agent!NoRelease \/ ~Agent!Alive(active.pid)
        PROVE  procs = {}
    BY <2>1, <2>2 DEF Programs, ProgramKnown, Known, Agent!Alive, Agent!NoRelease
  <2>3. ASSUME pc' \in {"idle", "down"}, UNCHANGED <<procs, next, child>>,
               pc' = "idle" => active = Agent!NoRelease \/ ~Agent!Alive(active.pid)
        PROVE  AInv'
    BY <2>1, <2>2, <2>3 DEF Programs, ProgramKnown, Known
  <2>4. ASSUME pc' = "restoring", Agent!Spawn(active.release), ~Agent!Alive(active.pid)
        PROVE  AInv'
    <3>1. /\ procs' = {[pid |-> next, release |-> active.release, ready |-> FALSE]}
          /\ child' = next /\ next' = next + 1
      BY <2>2, <2>4 DEF Agent!Spawn
    <3>2. Programs'
      BY <2>1, <3>1 DEF Programs
    <3> QED
      BY <2>4, <3>1, <3>2 DEF ProgramKnown, Known
  <2> QED
    BY <1>3, <2>3, <2>4 DEF Agent!RestoreStart
<1>4. ASSUME Agent!Restored
      PROVE  AInv'
  <2>1. pc = "restoring" /\ pc' = "idle" /\ UNCHANGED <<procs, next, child>>
    BY <1>4 DEF Agent!Restored
  <2>2. \/ active' = [active EXCEPT !.pid = child] /\ pending' = Agent!NoRelease
        \/ UNCHANGED <<active, pending>>
    BY <1>4 DEF Agent!Restored
  <2>3. CASE active' = [active EXCEPT !.pid = child] /\ pending' = Agent!NoRelease
    <3>1. active' = [generation |-> active.generation, release |-> active.release, pid |-> child]
      BY <2>3 DEF Programs
    <3> QED
      BY <2>1, <2>3, <3>1 DEF Programs, ProgramKnown, Known, Agent!NoRelease
  <2>4. CASE UNCHANGED <<active, pending>>
    BY <2>1, <2>4 DEF Programs, ProgramKnown, Known
  <2> QED
    BY <2>2, <2>3, <2>4
<1> QED
  BY <1>1, <1>2, <1>3, <1>4

\* The agent replaces the program.
LEMMA ReplaceProgram ==
    ASSUME AInv,
           \/ Agent!Verify \/ Agent!Prepare \/ Agent!Stop
           \/ Agent!Start \/ Agent!WritePending \/ Agent!Wait
    PROVE  AInv'
<1> USE DEF AInv
<1>1. ASSUME Agent!Verify
      PROVE  AInv'
  <2>1. pc = "verify" /\ pc' = "idle" /\ UNCHANGED <<procs, next, child>>
    BY <1>1 DEF Agent!Verify
  <2>2. \/ UNCHANGED <<active, pending>>
        \/ \E p \in procs :
               active' = [generation |-> fetched.generation, release |-> p.release, pid |-> p.pid]
                         /\ pending' = Agent!NoRelease
    BY <1>1 DEF Agent!Verify, Agent!Answers
  <2>3. CASE UNCHANGED <<active, pending>>
    BY <2>1, <2>3, AgentWaits
  <2>4. ASSUME NEW p \in procs,
               active' = [generation |-> fetched.generation, release |-> p.release, pid |-> p.pid],
               pending' = Agent!NoRelease
        PROVE  AInv'
    <3>1. procs = {p}
      BY DEF Programs
    <3>2. Programs'
      BY <2>1, <2>4 DEF Programs, Agent!NoRelease
    <3> QED
      BY <2>1, <2>4, <3>1, <3>2 DEF ProgramKnown, Known
  <2> QED
    BY <2>2, <2>3, <2>4
<1>2. ASSUME Agent!Prepare
      PROVE  AInv'
  <2>1. pc = "prepare" /\ pc' \in {"idle", "stopping"} /\ UNCHANGED <<procs, next, child, active>>
    BY <1>2 DEF Agent!Prepare
  <2>2. \/ pending' = pending
        \/ pending' = [generation |-> fetched.generation, release |-> fetched.release, pid |-> 0]
    BY <1>2 DEF Agent!Prepare
  <2>3. Programs'
    BY <2>1, <2>2 DEF Programs
  <2> QED
    BY <2>1, <2>3 DEF ProgramKnown, Known
<1>3. ASSUME Agent!Stop
      PROVE  AInv'
  <2>1. pc = "stopping" /\ UNCHANGED <<next, child, active, pending>>
    BY <1>3 DEF Agent!Stop, Agent!files
  <2>2. CASE pc' = "idle" /\ UNCHANGED procs
    BY <2>1, <2>2, AgentWaits
  <2>3. CASE /\ pc' = "starting" /\ Agent!Stopped
             /\ Agent!Answers = {} => Agent!Alive(child) \/ ~Agent!Alive(active.pid)
    <3>1. procs' = {}
      <4>1. CASE Agent!Answers = {}
        <5> SUFFICES ASSUME NEW p \in procs, p.pid # child
                     PROVE  FALSE
          BY <2>3, <4>1 DEF Agent!Stopped
        <5>1. procs = {p} /\ p.pid = active.pid
          BY <2>1 DEF Programs, ProgramKnown, Known
        <5>2. ~Agent!Alive(child) /\ Agent!Alive(active.pid)
          BY <5>1 DEF Agent!Alive
        <5> QED
          BY <4>1, <5>2, <2>3
      <4>2. CASE Agent!Answers # {}
        <5>1. PICK p \in procs : p \in Agent!Answers
          BY <4>2 DEF Agent!Answers
        <5>2. procs = {p}
          BY DEF Programs
        <5> QED
          BY <2>3, <4>2, <5>1, <5>2 DEF Agent!Stopped
      <4> QED
        BY <4>1, <4>2
    <3> QED
      BY <2>1, <2>3, <3>1 DEF Programs, ProgramKnown, Known
  <2> QED
    BY <1>3, <2>2, <2>3 DEF Agent!Stop
<1>4. ASSUME Agent!Start
      PROVE  AInv'
  <2>1. pc = "starting" /\ pc' = "spawned" /\ UNCHANGED <<active, pending>> /\ procs = {}
    BY <1>4 DEF Agent!Start, Agent!files, ProgramKnown
  <2>2. /\ procs' = {[pid |-> next, release |-> fetched.release, ready |-> FALSE]}
        /\ child' = next /\ next' = next + 1
    BY <1>4, <2>1 DEF Agent!Start, Agent!Spawn
  <2>3. Programs'
    BY <2>1, <2>2 DEF Programs
  <2> QED
    BY <2>1, <2>2, <2>3 DEF ProgramKnown, Known
<1>5. ASSUME Agent!WritePending
      PROVE  AInv'
  <2>1. pc = "spawned" /\ pc' = "waiting" /\ UNCHANGED <<procs, next, child, active>>
    BY <1>5 DEF Agent!WritePending
  <2>2. pending' = [generation |-> pending.generation, release |-> pending.release, pid |-> child]
    BY <1>5 DEF Agent!WritePending, Programs
  <2>3. Programs'
    BY <2>1, <2>2 DEF Programs
  <2> QED
    BY <2>1, <2>2, <2>3 DEF ProgramKnown, Known
<1>6. ASSUME Agent!Wait
      PROVE  AInv'
  <2>1. pc = "waiting" /\ UNCHANGED <<procs, next, child>>
    BY <1>6 DEF Agent!Wait
  <2>2. \/ pc' = "report" /\ active' = pending /\ pending' = Agent!NoRelease
        \/ pc' = "idle" /\ UNCHANGED <<active, pending>>
    BY <1>6 DEF Agent!Wait
  <2>3. Programs'
    BY <2>1, <2>2 DEF Programs, Agent!NoRelease
  <2> QED
    BY <2>1, <2>2, <2>3 DEF ProgramKnown, Known, Agent!Alive
<1> QED
  BY <1>1, <1>2, <1>3, <1>4, <1>5, <1>6

LEMMA KnownIsOne ==
    ASSUME AInv
    PROVE  Agent!OneProgram
<1>1. CASE procs = {}
  BY <1>1, FS_EmptySet, SameCardinality DEF Agent!OneProgram
<1>2. ASSUME NEW p \in procs
      PROVE  Agent!OneProgram
  <2>1. procs = {p}
    BY DEF AInv, Programs
  <2>2. Cardinality(procs) = 1
    BY <2>1, FS_Singleton
  <2> QED
    BY <2>2, SameCardinality DEF Agent!OneProgram
<1> QED
  BY <1>1, <1>2

LEMMA AgentKeeps ==
    ASSUME NotedOnly, AInv, [Agent!Next]_(Agent!vars)
    PROVE  AInv'
<1>1. ASSUME Agent!Crash
      PROVE  AInv'
  <2>1. Agent!AllNoted /\ pc' = "down" /\ UNCHANGED <<procs, next, child, active, pending>>
    BY <1>1 DEF Agent!Crash, Agent!files
  <2> QED
    BY <2>1, AgentWaits
<1>2. ASSUME NEW r \in Releases, Agent!Assign(r)
      PROVE  AInv'
  <2>1. UNCHANGED <<procs, next, pc, child, active, pending>>
    BY <1>2 DEF Agent!Assign, Agent!files
  <2> QED
    BY <2>1, AgentWaits
<1>3. ASSUME Agent!Fetch \/ Agent!Failing \/ Agent!Report
      PROVE  AInv'
  <2>1. UNCHANGED <<procs, next, child, active, pending>>
    BY <1>3 DEF Agent!Fetch, Agent!Failing, Agent!Report, Agent!files
  <2>2. pc' \in {"idle", "failing", "verify", "prepare"} /\ pc \in {"idle", "failing", "report"}
    BY <1>3 DEF Agent!Fetch, Agent!Failing, Agent!Report
  <2> QED
    BY <2>1, <2>2, AgentWaits
<1>4. ASSUME UNCHANGED Agent!vars
      PROVE  AInv'
  <2>1. UNCHANGED <<procs, next, pc, child, active, pending>>
    BY <1>4 DEF Agent!vars
  <2> QED
    BY <2>1, AgentWaits
<1> QED
  BY <1>1, <1>2, <1>3, <1>4, ProgramSteps, RestoreSteps, ReplaceProgram
  DEF Agent!Next, Agent!Agent, Agent!Program

\* The node's database is used by one program at a time (stop, Restore), if
\* the agent does not end while a program runs that no file names.
THEOREM OneProgramRuns == NotedOnly => (Agent!Spec => []Agent!OneProgram)
<1> SUFFICES ASSUME NotedOnly PROVE Agent!Spec => []Agent!OneProgram
  OBVIOUS
<1>1. Agent!Init => AInv
  BY AgentInit
<1>2. AInv /\ [Agent!Next]_(Agent!vars) => AInv'
  BY AgentKeeps
<1>3. AInv => Agent!OneProgram
  BY KnownIsOne
<1> QED
  BY <1>1, <1>2, <1>3, PTL DEF Agent!Spec

-----------------------------------------------------------------------------
(* Deployments.  What the cloud has noted, or is still to learn, of a       *)
(* release that runs is true of the instance that reported it; a report, or *)
(* a note, of an older instance has an older epoch.                         *)
IsTarget(t) ==
    /\ t = [x \in {"gen", "epoch", "prepared", "running", "fresh", "state"} |-> t[x]]
    /\ t.epoch \in Nat
IsReport(r) == r = [x \in {"d", "gen", "epoch", "state", "stale"} |-> r[x]]
TargetsAre ==
    /\ target = [d \in Deployments |-> [w \in Release!Targets(d) |-> target[d][w]]]
    /\ \A d \in Deployments : \A w \in Release!Targets(d) : IsTarget(target[d][w])
DeploymentsAre ==
    /\ deployment = [d \in Deployments |-> deployment[d]]
    /\ \A d \in Deployments :
         /\ deployment[d] = [x \in {"state", "batch"} |-> deployment[d][x]]
         /\ deployment[d].batch \in Nat
InstancesAre ==
    /\ identity = [w \in Workloads |-> identity[w]]
    /\ ran = [w \in Workloads |-> ran[w]]
    /\ late = [w \in Workloads |-> late[w]]
    /\ \A w \in Workloads :
         /\ identity[w] = [x \in {"enabled", "epoch"} |-> identity[w][x]]
         /\ identity[w].epoch \in Nat
         /\ IsReport(late[w])

TargetTrue(d, w) ==
    /\ target[d][w].epoch <= identity[w].epoch
    /\ target[d][w].state = "running" /\ target[d][w].epoch = identity[w].epoch => d \in ran[w]
LateTrue(w) ==
    late[w].state = "running" => /\ late[w].epoch \in Nat /\ late[w].epoch <= identity[w].epoch
                                 /\ late[w].epoch = identity[w].epoch => late[w].d \in ran[w]
DInv ==
    /\ TargetsAre /\ DeploymentsAre /\ InstancesAre
    /\ \A d \in Deployments : \A w \in Release!Targets(d) : TargetTrue(d, w)
    /\ \A w \in Workloads : LateTrue(w)

\* No batch enters, no deployment is completed.
Calm ==
    \A d \in Deployments : /\ deployment'[d].batch = deployment[d].batch
                           /\ deployment[d].state = "active" => deployment'[d].state # "completed"
TargetsTrue == \A d \in Deployments : \A w \in Release!Targets(d) : TargetTrue(d, w)
CloudTrue == TargetsAre /\ DeploymentsAre /\ TargetsTrue
AgentsTrue == InstancesAre /\ \A w \in Workloads : LateTrue(w)

\* What of the cloud's documents a step leaves to be shown when each target
\* is as it was, or is not running, or is that of a true report.
LEMMA TargetsStay ==
    ASSUME Release!ReleaseConstants, DInv, InstancesAre',
           \A w \in Workloads : identity'[w].epoch = identity[w].epoch /\ ran[w] \subseteq ran'[w],
           target' = [d \in Deployments |-> [w \in Release!Targets(d) |-> target'[d][w]]],
           \A d \in Deployments : \A w \in Release!Targets(d) :
             \/ target'[d][w] = target[d][w]
             \/ IsTarget(target'[d][w]) /\ target'[d][w].epoch <= identity[w].epoch
                /\ (target'[d][w].state = "running" /\ target'[d][w].epoch = identity[w].epoch
                    => d \in ran'[w])
    PROVE  TargetsAre' /\ TargetsTrue'
<1>1. \A d \in Deployments : \A w \in Release!Targets(d) : w \in Workloads
  BY DEF Release!ReleaseConstants, Release!Targets
<1>2. ASSUME NEW d \in Deployments, NEW w \in Release!Targets(d)
      PROVE  IsTarget(target'[d][w]) /\ TargetTrue(d, w)'
  BY <1>1, <1>2 DEF DInv, TargetsAre, TargetTrue
<1>3. \A d \in Deployments : Release!Targets(d)' = Release!Targets(d)
  BY DEF Release!Targets
<1>4. \A t : IsTarget(t)' = IsTarget(t)
  BY DEF IsTarget
<1> QED
  BY <1>2 DEF TargetsAre, TargetsTrue, IsTarget, Release!Targets

LEMMA HandleSteps ==
    ASSUME Release!ReleaseConstants, DInv, NEW w \in Workloads, NEW r, Release!Handle(w, r),
           InstancesAre',
           \A v \in Workloads : identity'[v].epoch = identity[v].epoch /\ ran[v] \subseteq ran'[v],
           r.state = "running" /\ r.epoch = identity[w].epoch => r.d \in ran'[w]
    PROVE  CloudTrue' /\ Calm
<1>1. CASE UNCHANGED <<target, deployment>>
  <2>1. TargetsAre' /\ TargetsTrue'
    BY <1>1, TargetsStay DEF DInv, TargetsAre
  <2>2. DeploymentsAre'
    BY <1>1 DEF DInv, DeploymentsAre
  <2>3. Calm
    BY <1>1 DEF Calm
  <2> QED
    BY <2>1, <2>2, <2>3 DEF CloudTrue
<1>2. CASE Release!Accepted(w, r) /\ target' = [target EXCEPT ![r.d][w] = Release!Updated(@, r)]
           /\ deployment' = [deployment EXCEPT ![r.d].state = Release!AfterReport(r.state, @)]
  <2>1. r.epoch = identity[w].epoch /\ identity[w].epoch \in Nat
    BY <1>2 DEF Release!Accepted, Release!Valid, DInv, InstancesAre
  <2>2. \A d \in Deployments : \A v \in Release!Targets(d) :
          target'[d][v] = IF d = r.d /\ v = w THEN Release!Updated(target[d][v], r) ELSE target[d][v]
    BY <1>2 DEF DInv, TargetsAre
  <2>3. target' = [d \in Deployments |-> [v \in Release!Targets(d) |-> target'[d][v]]]
    BY ZenonT(40), <1>2 DEF DInv, TargetsAre
  <2>4. ASSUME NEW t, IsTarget(t)
        PROVE  LET u == Release!Updated(t, r)
               IN  IsTarget(u) /\ u.epoch = r.epoch /\ u.state = r.state
    BY <2>1, <2>4 DEF Release!Updated, IsTarget
  <2>5. TargetsAre' /\ TargetsTrue'
    <3>1. ASSUME NEW d \in Deployments, NEW v \in Release!Targets(d), target'[d][v] # target[d][v]
          PROVE  /\ IsTarget(target'[d][v]) /\ target'[d][v].epoch <= identity[v].epoch
                 /\ (target'[d][v].state = "running" /\ target'[d][v].epoch = identity[v].epoch
                     => d \in ran'[v])
      <4>1. d = r.d /\ v = w /\ target'[d][v] = Release!Updated(target[d][v], r)
        BY <3>1, <2>2
      <4>2. IsTarget(target[d][v])
        BY DEF DInv, TargetsAre
      <4> QED
        BY <4>1, <4>2, <2>1, <2>4
    <3> QED
      BY <2>3, <3>1, TargetsStay
  <2>6. /\ deployment' = [d \in Deployments |-> deployment'[d]]
        /\ \A d \in Deployments :
             /\ deployment'[d] = [x \in {"state", "batch"} |-> deployment'[d][x]]
             /\ deployment'[d].batch = deployment[d].batch
             /\ \/ deployment'[d].state = deployment[d].state
                \/ deployment'[d].state = Release!AfterReport(r.state, deployment[d].state)
    BY <1>2 DEF DInv, DeploymentsAre
  <2>8. DeploymentsAre'
    BY <2>6 DEF DInv, DeploymentsAre
  <2>9. Calm
    BY <2>6 DEF Calm, Release!AfterReport
  <2> QED
    BY <2>5, <2>8, <2>9 DEF CloudTrue
<1> QED
  BY <1>1, <1>2 DEF Release!Handle

\* What an agent sends or gives up is a report of its present instance; one
\* that says "running" is remembered as seen.
LEMMA ReportSteps ==
    ASSUME DInv, NEW w \in Workloads, NEW r \in Release!Reports(w)
    PROVE  IsReport(r) /\ r.epoch = identity[w].epoch
  BY DEF Release!Reports, Release!NoReport, IsReport

LEMMA SeenSteps ==
    ASSUME DInv, NEW w \in Workloads, NEW r, Release!SeenRunning(w, r)
    PROVE  /\ ran' = [v \in Workloads |-> ran'[v]]
           /\ \A v \in Workloads : ran[v] \subseteq ran'[v]
           /\ r.state = "running" => r.d \in ran'[w]
<1>1. ran = [v \in Workloads |-> ran[v]]
  BY DEF DInv, InstancesAre
<1>2. CASE r.state = "running" /\ ran' = [ran EXCEPT ![w] = @ \cup {r.d}]
  <2>1. ran' = [v \in Workloads |-> IF v = w THEN ran[v] \cup {r.d} ELSE ran[v]]
    BY <1>1, <1>2
  <2> QED
    BY <2>1
<1>3. CASE r.state # "running" /\ ran' = ran
  BY <1>1, <1>3
<1> QED
  BY <1>2, <1>3 DEF Release!SeenRunning

LEMMA SendSteps ==
    ASSUME Release!ReleaseConstants, DInv, NEW w \in Workloads, NEW r,
           (r \in Release!Reports(w) /\ Release!Send(w, r)) \/ Release!SendFailed(w)
    PROVE  DInv' /\ Calm
<1>1. PICK q : /\ IsReport(q) /\ q.epoch = identity[w].epoch
               /\ Release!Handle(w, q) /\ Release!Overtaken(w, q)
               /\ UNCHANGED identity
               /\ ran' = [v \in Workloads |-> ran'[v]]
               /\ \A v \in Workloads : ran[v] \subseteq ran'[v]
               /\ q.state = "running" => q.d \in ran'[w]
  <2>1. CASE r \in Release!Reports(w) /\ Release!Send(w, r)
    BY <2>1, ReportSteps, SeenSteps DEF Release!Send
  <2>2. CASE Release!SendFailed(w)
    <3> DEFINE q == [Release!NoReport EXCEPT !.d = agent[w].fetched.d, !.gen = agent[w].fetched.gen,
                                     !.epoch = identity[w].epoch, !.state = "failed"]
    <3>1. IsReport(q) /\ q.epoch = identity[w].epoch /\ q.state = "failed"
      BY DEF Release!NoReport, IsReport
    <3>2. Release!Handle(w, q) /\ Release!Overtaken(w, q) /\ UNCHANGED <<identity, ran>>
      BY <2>2 DEF Release!SendFailed
    <3>3. ran' = [v \in Workloads |-> ran'[v]]
      BY <3>2 DEF DInv, InstancesAre
    <3> HIDE DEF q
    <3> QED
      BY <3>1, <3>2, <3>3
  <2> QED
    BY <2>1, <2>2
<1>2. /\ late' = [v \in Workloads |-> late'[v]]
      /\ \A v \in Workloads : /\ IsReport(late'[v])
                              /\ late'[v].state = late[v].state /\ late'[v].epoch = late[v].epoch
                              /\ late'[v].d = late[v].d
  <2>1. late = [v \in Workloads |-> late[v]] /\ \A v \in Workloads : IsReport(late[v])
    BY DEF DInv, InstancesAre
  <2>2. CASE late' = late
    BY <2>1, <2>2
  <2>3. CASE late' = [late EXCEPT ![w].stale = TRUE]
    BY <2>1, <2>3 DEF IsReport
  <2> QED
    BY <1>1, <2>2, <2>3 DEF Release!Overtaken
<1>3. InstancesAre'
  BY <1>1, <1>2 DEF DInv, InstancesAre, IsReport
<1>4. \A v \in Workloads : LateTrue(v)'
  BY <1>1, <1>2 DEF DInv, LateTrue
<1>5. CloudTrue' /\ Calm
  <2>1. \A v \in Workloads : identity'[v].epoch = identity[v].epoch /\ ran[v] \subseteq ran'[v]
    BY <1>1
  <2>2. q.state = "running" /\ q.epoch = identity[w].epoch => q.d \in ran'[w]
    BY <1>1
  <2> QED
    BY <1>1, <1>3, <2>1, <2>2, HandleSteps
<1> QED
  BY <1>3, <1>4, <1>5 DEF CloudTrue, DInv, TargetsTrue

LEMMA LateSteps ==
    ASSUME Release!ReleaseConstants, DInv, NEW w \in Workloads, NEW r,
           (r \in Release!Reports(w) /\ Release!GiveUp(w, r)) \/ Release!HandleLate(w)
    PROVE  DInv' /\ Calm
<1>1. late = [v \in Workloads |-> late[v]] /\ ran = [v \in Workloads |-> ran[v]]
  BY DEF DInv, InstancesAre
<1>2. CASE r \in Release!Reports(w) /\ Release!GiveUp(w, r)
  <2>1. /\ late' = [late EXCEPT ![w] = r] /\ UNCHANGED <<target, deployment, identity>>
        /\ IsReport(r) /\ r.epoch = identity[w].epoch
        /\ ran' = [v \in Workloads |-> ran'[v]]
        /\ \A v \in Workloads : ran[v] \subseteq ran'[v]
        /\ r.state = "running" => r.d \in ran'[w]
    BY <1>2, ReportSteps, SeenSteps DEF Release!GiveUp, Release!ofCloud
  <2>2. late' = [v \in Workloads |-> IF v = w THEN r ELSE late[v]]
    BY <1>1, <2>1
  <2>3. InstancesAre'
    <3>1. \A v \in Workloads : IsReport(late'[v])
      BY <2>1, <2>2 DEF DInv, InstancesAre
    <3>2. \A v \in Workloads : IsReport(late[v])'
      BY <3>1 DEF IsReport
    <3> QED
      BY <2>1, <2>2, <3>2 DEF DInv, InstancesAre
  <2>4. \A v \in Workloads : LateTrue(v)'
    BY <2>1, <2>2 DEF DInv, LateTrue, InstancesAre
  <2>5. TargetsAre' /\ TargetsTrue'
    BY <2>1, <2>3, TargetsStay DEF DInv, TargetsAre
  <2>6. DeploymentsAre' /\ Calm
    BY <2>1 DEF DInv, DeploymentsAre, Calm
  <2> QED
    BY <2>3, <2>4, <2>5, <2>6 DEF DInv, TargetsTrue
<1>3. CASE Release!HandleLate(w)
  <2>1. /\ Release!Handle(w, late[w])
        /\ late' = [late EXCEPT ![w] = Release!NoReport] /\ UNCHANGED <<identity, ran>>
    BY <1>3 DEF Release!HandleLate
  <2>2. late' = [v \in Workloads |-> IF v = w THEN Release!NoReport ELSE late[v]]
    BY <1>1, <2>1
  <2>3. InstancesAre'
    <3>1. IsReport(Release!NoReport)
      BY DEF IsReport, Release!NoReport
    <3>2. \A v \in Workloads : IsReport(late'[v])
      BY <2>2, <3>1 DEF DInv, InstancesAre
    <3>3. \A v \in Workloads : IsReport(late[v])'
      BY <3>2 DEF IsReport
    <3> QED
      BY <2>1, <2>2, <3>3 DEF DInv, InstancesAre
  <2>4. \A v \in Workloads : LateTrue(v)'
    BY <2>1, <2>2 DEF DInv, LateTrue, Release!NoReport
  <2>5. late[w].state = "running" /\ late[w].epoch = identity[w].epoch => late[w].d \in ran'[w]
    BY <2>1 DEF DInv, LateTrue
  <2>6. \A v \in Workloads : identity'[v].epoch = identity[v].epoch /\ ran[v] \subseteq ran'[v]
    BY <2>1
  <2>7. CloudTrue' /\ Calm
    BY <2>1, <2>3, <2>5, <2>6, HandleSteps
  <2> QED
    BY <2>3, <2>4, <2>7 DEF CloudTrue, DInv, TargetsTrue
<1> QED
  BY <1>2, <1>3

\* The agents and their instances.
LEMMA InstanceSteps ==
    ASSUME Release!ReleaseConstants, DInv, NEW w \in Workloads,
           \/ Release!ActivateInstance(w) \/ Release!SetEnabled(w, TRUE) \/ Release!SetEnabled(w, FALSE)
           \/ Release!Switch(w) \/ Release!Exit(w)
    PROVE  DInv' /\ Calm
<1>1. UNCHANGED <<target, deployment, late>>
  BY DEF Release!ActivateInstance, Release!SetEnabled, Release!Switch, Release!Exit,
         Release!ofCloud
<1>2. TargetsAre' /\ DeploymentsAre' /\ Calm
  <2>1. TargetsAre'
    BY ZenonT(40), <1>1 DEF DInv, TargetsAre, IsTarget, Release!Targets
  <2>2. DeploymentsAre' /\ Calm
    BY <1>1 DEF DInv, DeploymentsAre, Calm
  <2> QED
    BY <2>1, <2>2
<1>3. CASE Release!ActivateInstance(w)
  <2>1. identity' = [identity EXCEPT ![w].epoch = @ + 1] /\ ran' = [ran EXCEPT ![w] = {}]
    BY <1>3 DEF Release!ActivateInstance
  <2>2. /\ identity' = [v \in Workloads |-> identity'[v]]
        /\ \A v \in Workloads : /\ identity'[v] = [x \in {"enabled", "epoch"} |-> identity'[v][x]]
                                /\ identity'[v].epoch = IF v = w THEN identity[v].epoch + 1
                                                        ELSE identity[v].epoch
                                /\ identity[v].epoch \in Nat
    BY <2>1 DEF DInv, InstancesAre
  <2>3. ran' = [v \in Workloads |-> IF v = w THEN {} ELSE ran[v]]
    BY <2>1 DEF DInv, InstancesAre
  <2>4. InstancesAre'
    BY <1>1, <2>2, <2>3 DEF DInv, InstancesAre, IsReport
  <2>5. \A v \in Workloads : LateTrue(v)'
    BY <1>1, <2>2, <2>3 DEF DInv, LateTrue
  <2>6. ASSUME NEW d \in Deployments, NEW v \in Release!Targets(d)
        PROVE  TargetTrue(d, v)'
    <3>1. v \in Workloads
      BY DEF Release!ReleaseConstants, Release!Targets
    <3>2. TargetTrue(d, v) /\ target[d][v].epoch \in Nat
      BY DEF DInv, TargetsAre, IsTarget
    <3> QED
      BY <1>1, <2>2, <2>3, <3>1, <3>2 DEF TargetTrue
  <2> QED
    BY <1>2, <2>4, <2>5, <2>6 DEF DInv, Release!Targets
<1>4. CASE \/ Release!SetEnabled(w, TRUE) \/ Release!SetEnabled(w, FALSE)
           \/ Release!Switch(w) \/ Release!Exit(w)
  <2>1. /\ ran' = ran
        /\ \/ identity' = [identity EXCEPT ![w].enabled = TRUE]
           \/ identity' = [identity EXCEPT ![w].enabled = FALSE]
           \/ identity' = identity
    BY <1>4 DEF Release!SetEnabled, Release!Switch, Release!Exit
  <2>2. /\ identity' = [v \in Workloads |-> identity'[v]]
        /\ \A v \in Workloads : /\ identity'[v] = [x \in {"enabled", "epoch"} |-> identity'[v][x]]
                                /\ identity'[v].epoch = identity[v].epoch
    BY SMTT(30), <2>1 DEF DInv, InstancesAre
  <2>4. InstancesAre'
    BY <1>1, <2>1, <2>2 DEF DInv, InstancesAre, IsReport
  <2>5. \A v \in Workloads : LateTrue(v)'
    BY <1>1, <2>1, <2>2 DEF DInv, LateTrue
  <2>6. ASSUME NEW d \in Deployments, NEW v \in Release!Targets(d)
        PROVE  TargetTrue(d, v)'
    <3>1. v \in Workloads
      BY DEF Release!ReleaseConstants, Release!Targets
    <3> QED
      BY <1>1, <2>1, <2>2, <3>1 DEF TargetTrue, DInv
  <2> QED
    BY <1>2, <2>4, <2>5, <2>6 DEF DInv, Release!Targets
<1> QED
  BY <1>3, <1>4

\* Steps of the cloud by themselves leave the instances as they are.
LEMMA CloudSteps ==
    ASSUME Release!ReleaseConstants, DInv, UNCHANGED <<identity, ran, late>>,
           target' = [d \in Deployments |-> [w \in Release!Targets(d) |-> target'[d][w]]],
           \A d \in Deployments : \A w \in Release!Targets(d) :
             \/ target'[d][w] = target[d][w]
             \/ IsTarget(target'[d][w]) /\ target'[d][w].state # "running"
                /\ target'[d][w].epoch \in {0, target[d][w].epoch},
           deployment' = [d \in Deployments |-> deployment'[d]],
           \A d \in Deployments : /\ deployment'[d] = [x \in {"state", "batch"} |-> deployment'[d][x]]
                                  /\ deployment'[d].batch \in Nat
    PROVE  DInv'
<1>1. InstancesAre' /\ (\A w \in Workloads : LateTrue(w)') /\ DeploymentsAre'
  BY DEF DInv, InstancesAre, IsReport, LateTrue, DeploymentsAre
<1>2. \A w \in Workloads : identity'[w].epoch = identity[w].epoch /\ ran[w] \subseteq ran'[w]
  OBVIOUS
<1>3. ASSUME NEW d \in Deployments, NEW w \in Release!Targets(d), target'[d][w] # target[d][w]
      PROVE  /\ IsTarget(target'[d][w]) /\ target'[d][w].epoch <= identity[w].epoch
             /\ target'[d][w].state # "running"
  <2>1. w \in Workloads
    BY DEF Release!ReleaseConstants, Release!Targets
  <2>2. /\ target[d][w].epoch <= identity[w].epoch /\ identity[w].epoch \in Nat
        /\ target[d][w].epoch \in Nat
    BY <2>1 DEF DInv, TargetTrue, InstancesAre, TargetsAre, IsTarget
  <2> QED
    BY <1>3, <2>2
<1>4. TargetsAre' /\ TargetsTrue'
  BY <1>1, <1>2, <1>3, TargetsStay
<1> QED
  BY <1>1, <1>4 DEF DInv, TargetsTrue

LEMMA CreateSteps ==
    ASSUME Release!ReleaseConstants, DInv, NEW c \in Deployments, Release!Create(c)
    PROVE  DInv' /\ Calm
<1>1. /\ deployment[c].state = "none" /\ deployment' = [deployment EXCEPT ![c].state = "active"]
      /\ UNCHANGED <<identity, ran, late>>
      /\ target' = [target EXCEPT ![c] = [w \in Release!Targets(c) |->
           [gen |-> assignment[w].gen + 1, epoch |-> 0, prepared |-> FALSE, running |-> FALSE,
            fresh |-> FALSE, state |-> IF Batch[c][w] = 1 THEN "waiting" ELSE "pending"]]]
  BY DEF Release!Create
<1>2. /\ deployment' = [d \in Deployments |-> deployment'[d]]
      /\ \A d \in Deployments :
           /\ deployment'[d] = [x \in {"state", "batch"} |-> deployment'[d][x]]
           /\ deployment'[d].batch = deployment[d].batch /\ deployment'[d].batch \in Nat
           /\ deployment'[d].state \in {deployment[d].state, "active"}
  BY <1>1 DEF DInv, DeploymentsAre
<1>3. target' = [d \in Deployments |-> [w \in Release!Targets(d) |-> target'[d][w]]]
  BY <1>1 DEF DInv, TargetsAre
<1>4. ASSUME NEW d \in Deployments, NEW w \in Release!Targets(d)
      PROVE  \/ target'[d][w] = target[d][w]
             \/ IsTarget(target'[d][w]) /\ target'[d][w].state # "running"
                /\ target'[d][w].epoch = 0
  <2>1. CASE d = c
    <3>1. PICK s \in {"waiting", "pending"} :
            target'[d][w] = [gen |-> assignment[w].gen + 1, epoch |-> 0, prepared |-> FALSE,
                             running |-> FALSE, fresh |-> FALSE, state |-> s]
      BY <1>1, <2>1 DEF DInv, TargetsAre
    <3> QED
      BY <3>1 DEF IsTarget
  <2>2. CASE d # c
    BY <1>1, <2>2 DEF DInv, TargetsAre
  <2> QED
    BY <2>1, <2>2
<1>5. DInv'
  BY <1>1, <1>2, <1>3, <1>4, CloudSteps
<1> QED
  BY <1>2, <1>5 DEF Calm

LEMMA ActionSteps ==
    ASSUME Release!ReleaseConstants, DInv, NEW c \in Deployments, Release!Action(c)
    PROVE  DInv' /\ Calm
<1>1. /\ deployment' = [deployment EXCEPT ![c].state = deployment'[c].state]
      /\ deployment[c].state = "active" => deployment'[c].state # "completed"
      /\ UNCHANGED <<identity, ran, late>>
  BY DEF Release!Action, Release!Direct, Release!Retry, DInv, DeploymentsAre
<1>2. /\ deployment' = [d \in Deployments |-> deployment'[d]]
      /\ \A d \in Deployments :
           /\ deployment'[d] = [x \in {"state", "batch"} |-> deployment'[d][x]]
           /\ deployment'[d].batch = deployment[d].batch /\ deployment'[d].batch \in Nat
           /\ d # c => deployment'[d] = deployment[d]
  BY <1>1 DEF DInv, DeploymentsAre
<1>3. \/ target' = target
      \/ target' = [target EXCEPT ![c] = [w \in Release!Targets(c) |->
           IF w \in Release!Failed(c) THEN Release!Again(@[w]) ELSE @[w]]]
  BY DEF Release!Action, Release!Direct, Release!Retry
<1>4. ASSUME NEW t, IsTarget(t)
      PROVE  /\ IsTarget(Release!Again(t))
             /\ Release!Again(t).state = "waiting" /\ Release!Again(t).epoch = t.epoch
  BY <1>4 DEF IsTarget, Release!Again
<1>7. /\ target' = [d \in Deployments |-> [w \in Release!Targets(d) |-> target'[d][w]]]
      /\ \A d \in Deployments : \A w \in Release!Targets(d) :
           target'[d][w] \in {target[d][w], Release!Again(target[d][w])}
  BY <1>3 DEF DInv, TargetsAre
<1>8. \A d \in Deployments : \A w \in Release!Targets(d) :
           \/ target'[d][w] = target[d][w]
           \/ IsTarget(target'[d][w]) /\ target'[d][w].state # "running"
              /\ target'[d][w].epoch = target[d][w].epoch
  BY <1>4, <1>7 DEF DInv, TargetsAre
<1>5. DInv'
  BY <1>1, <1>2, <1>7, <1>8, CloudSteps
<1>6. Calm
  BY <1>1, <1>2 DEF Calm
<1> QED
  BY <1>5, <1>6

\* One target changes, without a report.
LEMMA TargetSteps ==
    ASSUME Release!ReleaseConstants, DInv, NEW w,
           Release!Desired(w) \/ \E d \in Deployments : w \in Release!Targets(d) /\ Release!Silence(d, w)
    PROVE  DInv' /\ Calm
<1>1. UNCHANGED <<deployment, identity, ran, late>>
  BY DEF Release!Desired, Release!Silence
<1>2. /\ target' = [d \in Deployments |-> [v \in Release!Targets(d) |-> target'[d][v]]]
      /\ \A d \in Deployments : \A v \in Release!Targets(d) :
           \/ target'[d][v] = target[d][v]
           \/ IsTarget(target'[d][v]) /\ target'[d][v].state # "running"
              /\ target'[d][v].epoch = target[d][v].epoch
           \/ IsTarget(target'[d][v]) /\ target'[d][v].state = target[d][v].state
              /\ target'[d][v].epoch = target[d][v].epoch
  <2>1. PICK d, u : /\ target' = [target EXCEPT ![d][w] = u]
                    /\ \/ u = [target[d][w] EXCEPT !.state = "preparing"]
                       \/ u = [target[d][w] EXCEPT !.state = target[d][w].state]
                       \/ u = [target[d][w] EXCEPT !.fresh = FALSE]
    BY DEF Release!Desired, Release!Silence
  <2>2. /\ target' = [e \in Deployments |-> [v \in Release!Targets(e) |-> target'[e][v]]]
        /\ \A e \in Deployments : \A v \in Release!Targets(e) :
             target'[e][v] = IF e = d /\ v = w THEN u ELSE target[e][v]
    <3>1. target = [e \in Deployments |-> [v \in Release!Targets(e) |-> target[e][v]]]
      BY DEF DInv, TargetsAre
    <3>2. target' = [target EXCEPT ![d][w] = u]
      BY <2>1
    <3>3. \A e \in Deployments : \A v \in Release!Targets(e) :
            target'[e][v] = IF e = d /\ v = w THEN u ELSE target[e][v]
      BY <3>1, <3>2
    <3>4. target' = [e \in Deployments |-> [v \in Release!Targets(e) |-> target'[e][v]]]
      BY <3>1, <3>2
    <3> QED
      BY <3>3, <3>4
  <2>3. ASSUME IsTarget(target[d][w])
        PROVE  IsTarget(u) /\ u.epoch = target[d][w].epoch
               /\ (u.state # "running" \/ u.state = target[d][w].state)
    BY <2>1, <2>3 DEF IsTarget
  <2>4. \A e \in Deployments : \A v \in Release!Targets(e) : IsTarget(target[e][v])
    BY DEF DInv, TargetsAre
  <2> QED
    BY <2>2, <2>3, <2>4
<1>3. InstancesAre' /\ (\A v \in Workloads : LateTrue(v)') /\ DeploymentsAre' /\ Calm
  BY <1>1 DEF DInv, InstancesAre, IsReport, LateTrue, DeploymentsAre, Calm
<1>4. \A v \in Workloads : identity'[v].epoch = identity[v].epoch /\ ran[v] \subseteq ran'[v]
  BY <1>1
<1>5. ASSUME NEW d \in Deployments, NEW v \in Release!Targets(d)
      PROVE  \/ target'[d][v] = target[d][v]
             \/ /\ IsTarget(target'[d][v]) /\ target'[d][v].epoch <= identity[v].epoch
                /\ (target'[d][v].state = "running" /\ target'[d][v].epoch = identity[v].epoch
                    => d \in ran'[v])
  <2>1. TargetTrue(d, v)
    BY DEF DInv
  <2> QED
    BY <2>1, <1>1, <1>2 DEF TargetTrue
<1>6. TargetsAre' /\ TargetsTrue'
  BY <1>2, <1>3, <1>4, <1>5, TargetsStay
<1> QED
  BY <1>3, <1>6 DEF DInv, TargetsTrue

\* The coordinator looks only at the batch as its targets stand.
LEMMA SeenTarget ==
    ASSUME NEW d, NEW w, NEW entered \in BOOLEAN, IsTarget(target[d][w])
    PROVE  LET t == Release!Seen(d, w, entered)
           IN  \/ t = target[d][w]
               \/ IsTarget(t) /\ t.state # "running" /\ t.epoch = target[d][w].epoch
  BY DEF Release!Seen, IsTarget

LEMMA ReconcileSteps ==
    ASSUME Release!ReleaseConstants, DInv, NEW c \in Deployments, Release!Reconcile(c)
    PROVE  DInv' /\ Release!RanBefore
<1> DEFINE ready == \A w \in Release!Current(c) : w \notin Release!Broken(c) /\ Release!Runs(c, w)
           d2 == [deployment[c] EXCEPT
                    !.state = IF Release!Broken(c) # {} THEN "failed"
                              ELSE IF ready /\ Release!LastBatch(c) THEN "completed" ELSE @,
                    !.batch = IF ready /\ ~Release!LastBatch(c) THEN @ + 1 ELSE @]
           entered == d2.batch > deployment[c].batch
<1>1. /\ UNCHANGED <<identity, ran, late>>
      /\ deployment' = [deployment EXCEPT ![c] = d2]
      /\ target' = [target EXCEPT ![c] = [w \in Release!Targets(c) |-> Release!Seen(c, w, entered)]]
      /\ deployment[c].state = "active"
  BY DEF Release!Reconcile
<1>2. /\ d2 = [x \in {"state", "batch"} |-> d2[x]]
      /\ deployment[c].batch \in Nat
      /\ d2.batch \in Nat
      /\ d2.batch > deployment[c].batch \/ d2.state = "completed" => ready
  <2> HIDE DEF ready
  <2>1. deployment[c] = [x \in {"state", "batch"} |-> deployment[c][x]] /\ deployment[c].batch \in Nat
    BY DEF DInv, DeploymentsAre
  <2>2. d2 = [x \in {"state", "batch"} |-> d2[x]]
    BY <2>1
  <2>3. d2.batch = IF ready /\ ~Release!LastBatch(c) THEN deployment[c].batch + 1 ELSE deployment[c].batch
    BY <2>1
  <2>4. d2.state = IF Release!Broken(c) # {} THEN "failed"
                   ELSE IF ready /\ Release!LastBatch(c) THEN "completed" ELSE deployment[c].state
    BY <2>1
  <2> HIDE DEF d2
  <2> QED
    BY <1>1, <2>1, <2>2, <2>3, <2>4
<1>3. entered \in BOOLEAN
  OBVIOUS
<1> HIDE DEF d2, entered, ready
<1>4. /\ target' = [d \in Deployments |-> [w \in Release!Targets(d) |-> target'[d][w]]]
      /\ \A d \in Deployments : \A w \in Release!Targets(d) :
           target'[d][w] = IF d = c THEN Release!Seen(c, w, entered) ELSE target[d][w]
  BY <1>1 DEF DInv, TargetsAre
<1>5. ASSUME NEW d \in Deployments, NEW w \in Release!Targets(d)
      PROVE  \/ target'[d][w] = target[d][w]
             \/ IsTarget(target'[d][w]) /\ target'[d][w].state # "running"
                /\ target'[d][w].epoch = target[d][w].epoch
  <2>1. IsTarget(target[d][w])
    BY DEF DInv, TargetsAre
  <2> QED
    BY <1>3, <1>4, <2>1, SeenTarget
<1>6. /\ deployment' = [d \in Deployments |-> deployment'[d]]
      /\ \A d \in Deployments :
           /\ deployment'[d] = IF d = c THEN d2 ELSE deployment[d]
           /\ deployment'[d] = [x \in {"state", "batch"} |-> deployment'[d][x]]
           /\ deployment'[d].batch \in Nat
  BY <1>1, <1>2 DEF DInv, DeploymentsAre
<1>7. DInv'
  BY <1>1, <1>4, <1>5, <1>6, CloudSteps
<1>8. ASSUME NEW d \in Deployments, Release!Enters(d), NEW w \in Release!Current(d)
      PROVE  d \in ran[w]
  <2>1. d = c
    BY <1>6, <1>8 DEF Release!Enters, DInv, DeploymentsAre
  <2>2. ready
    BY <2>1, <1>2, <1>6, <1>8 DEF Release!Enters
  <2>3. Release!Runs(d, w) /\ w \in Release!Targets(d)
    BY <2>1, <2>2 DEF ready, Release!Current
  <2> QED
    BY <2>3 DEF DInv, TargetTrue, Release!Runs
<1> QED
  BY <1>7, <1>8 DEF Release!RanBefore

LEMMA CalmIsSafe ==
    ASSUME DInv, Calm
    PROVE  Release!RanBefore
  BY DEF Release!RanBefore, Release!Enters, Calm, DInv, DeploymentsAre

LEMMA InitDInv ==
    ASSUME Release!Init, Release!ReleaseConstants
    PROVE  DInv
<1>1. DeploymentsAre
  BY DEF Release!Init, DeploymentsAre
<1>2. IsReport(Release!NoReport)
  BY DEF IsReport, Release!NoReport
<1>3. InstancesAre
  BY <1>2 DEF Release!Init, InstancesAre
<1>4. /\ target = [d \in Deployments |-> [w \in Release!Targets(d) |-> target[d][w]]]
      /\ \A d \in Deployments : \A w \in Release!Targets(d) :
           IsTarget(target[d][w]) /\ target[d][w].epoch = 0 /\ target[d][w].state = "pending"
  BY DEF Release!Init, IsTarget
<1>5. \A d \in Deployments : \A w \in Release!Targets(d) : TargetTrue(d, w)
  <2> SUFFICES ASSUME NEW d \in Deployments, NEW w \in Release!Targets(d) PROVE TargetTrue(d, w)
    OBVIOUS
  <2>1. w \in Workloads
    BY DEF Release!ReleaseConstants, Release!Targets
  <2>2. identity[w].epoch = 1
    BY <2>1 DEF Release!Init
  <2> QED
    BY <1>4, <2>2 DEF TargetTrue
<1>6. \A w \in Workloads : LateTrue(w)
  BY DEF Release!Init, LateTrue, Release!NoReport
<1> QED
  BY <1>1, <1>3, <1>4, <1>5, <1>6 DEF DInv, TargetsAre

LEMMA ReleaseStep ==
    ASSUME Release!ReleaseConstants, DInv, [Release!Next]_(Release!vars)
    PROVE  DInv' /\ Release!RanBefore
<1>1. ASSUME NEW d \in Deployments, Release!Create(d) \/ Release!Action(d)
      PROVE  DInv' /\ Release!RanBefore
  BY <1>1, CreateSteps, ActionSteps, CalmIsSafe
<1>2. ASSUME NEW d \in Deployments, Release!Reconcile(d)
      PROVE  DInv' /\ Release!RanBefore
  BY <1>2, ReconcileSteps
<1>3. ASSUME NEW d \in Deployments, NEW w \in Release!Targets(d), Release!Silence(d, w)
      PROVE  DInv' /\ Release!RanBefore
  BY <1>3, TargetSteps, CalmIsSafe
<1>4. ASSUME NEW w \in Workloads,
             \/ Release!ActivateInstance(w)
             \/ Release!SetEnabled(w, TRUE) \/ Release!SetEnabled(w, FALSE)
             \/ Release!Switch(w) \/ Release!Exit(w)
      PROVE  DInv' /\ Release!RanBefore
  BY <1>4, InstanceSteps, CalmIsSafe
<1>5. ASSUME NEW w \in Workloads, Release!Desired(w)
      PROVE  DInv' /\ Release!RanBefore
  BY <1>5, TargetSteps, CalmIsSafe
<1>6. ASSUME NEW w \in Workloads,
             (\E r \in Release!Reports(w) : Release!Send(w, r)) \/ Release!SendFailed(w)
      PROVE  DInv' /\ Release!RanBefore
  BY <1>6, SendSteps, CalmIsSafe
<1>7. ASSUME NEW w \in Workloads,
             (\E r \in Release!Reports(w) : Release!GiveUp(w, r)) \/ Release!HandleLate(w)
      PROVE  DInv' /\ Release!RanBefore
  BY <1>7, LateSteps, CalmIsSafe
<1>8. ASSUME UNCHANGED Release!vars
      PROVE  DInv' /\ Release!RanBefore
  <2>1. UNCHANGED <<deployment, target, identity, ran, late>>
    BY <1>8 DEF Release!vars
  <2>2. TargetsAre'
    BY ZenonT(40), <2>1 DEF DInv, TargetsAre, IsTarget, Release!Targets
  <2>5. DeploymentsAre'
    BY <2>1 DEF DInv, DeploymentsAre
  <2>3. InstancesAre'
    BY <2>1 DEF DInv, InstancesAre, IsReport
  <2>4. (\A d \in Deployments : \A w \in Release!Targets(d) : TargetTrue(d, w))'
        /\ (\A w \in Workloads : LateTrue(w))'
    BY <2>1 DEF DInv, TargetTrue, LateTrue, Release!Targets
  <2>6. Calm
    BY <2>1 DEF Calm
  <2> QED
    BY <2>2, <2>3, <2>4, <2>5, <2>6, CalmIsSafe DEF DInv
<1> QED
  BY <1>1, <1>2, <1>3, <1>4, <1>5, <1>6, <1>7, <1>8 DEF Release!Next

\* A batch enters, or a deployment completes, only on releases that the
\* present instances have run (Report, reconcileOne).
THEOREM EntersWhenRun == Release!ReleaseConstants => (Release!Spec => Release!EntersOnRunning)
<1> SUFFICES ASSUME Release!ReleaseConstants PROVE Release!Spec => Release!EntersOnRunning
  OBVIOUS
<1>1. Release!Init => DInv
  BY InitDInv
<1>2. DInv /\ [Release!Next]_(Release!vars) => DInv' /\ [Release!RanBefore]_(Release!vars)
  BY ReleaseStep
<1> QED
  BY <1>1, <1>2, PTL DEF Release!Spec, Release!EntersOnRunning

-----------------------------------------------------------------------------
(* The recomputation of history.  That no reading is forgotten rests on     *)
(* where the run is: behind its cursor the draft has every reading that is  *)
(* stored (JobRight), because a reading that comes in order is behind the   *)
(* range, and one that does not makes the job pending, with a new worker.   *)
(* Between the catch-up and the end, the draft lacks only readings that     *)
(* wait for their live evaluation (WorkerRight).                            *)
\* A place that is not behind what is stored.
Reached(S, n) == n \in Nat /\ (n = 0 \/ \E l \in S : n <= l)

Data ==
    /\ stored \subseteq Readings /\ queue \subseteq stored /\ evaluated \subseteq stored
    /\ count \in [Readings -> Nat]
    /\ stored # {} => \E l \in stored : \A n \in stored : n <= l

\* Counted, or about to be.
Held(m) == count[m] > 0 \/ m \in queue \ evaluated

JobRight ==
    /\ job = [f \in {"st", "phase", "from", "to", "cursor", "end"} |-> job[f]]
    /\ Reached(stored, job.to) /\ Reached(stored, job.end) /\ job.cursor \in Nat
    /\ job.phase \in {"", "replaying", "rollups", "completed"}
    /\ job.st = "completed" => job.phase \in {"rollups", "completed"}
    /\ job.phase = "completed" => job.st = "completed"
    /\ job.st = "none" \/ job.phase \in {"rollups", "completed"} => \A m \in stored : Held(m)
    /\ job.phase = "replaying" =>
          job.cursor <= job.end /\ \A m \in stored : m <= job.cursor => m \in draft

WorkerRight ==
    /\ worker = [f \in {"pc", "own", "fresh", "at"} |-> worker[f]]
    /\ worker.pc \in {"idle", "prepare", "replay", "cursor", "finish"} \cup History!RollPcs
    /\ worker.fresh => worker.own
    /\ worker.own =>
          /\ worker.pc = "prepare" => job.phase \in {"", "replaying"}
          /\ worker.pc \in {"replay", "cursor", "finish"} => job.phase = "replaying"
          /\ worker.pc \in History!RollPcs => job.phase = "rollups"
    /\ worker.fresh =>
          /\ worker.pc # "idle" => job.st # "cancelled"
          /\ worker.pc = "cursor" => /\ job.cursor < job.end
                                     /\ job.cursor + 1 \in stored => job.cursor + 1 \in draft
          /\ worker.pc = "finish" => /\ Reached(stored, worker.at)
                                     /\ \A m \in stored : m \in draft \/ m \in queue \ evaluated

HInv == Data /\ JobRight /\ WorkerRight

LEMMA LatestIsLast ==
    ASSUME History!HistoryConstants, Data
    PROVE  /\ Reached(stored, History!Latest) /\ \A n \in stored : n <= History!Latest
           /\ \A n : Reached(stored, n) => n <= History!Latest
<1>1. CASE stored = {}
  BY <1>1 DEF History!Latest, Reached
<1>2. CASE stored # {}
  <2>1. PICK l \in stored : \A n \in stored : n <= l
    BY <1>2 DEF Data
  <2>2. History!Largest(stored) \in stored /\ \A n \in stored : n <= History!Largest(stored)
    BY <2>1 DEF History!Largest
  <2>3. stored \subseteq Nat
    BY DEF Data, History!HistoryConstants
  <2>4. PICK k : k = History!Latest
    OBVIOUS
  <2>5. k \in stored /\ k \in Nat /\ \A n \in stored : n <= k
    BY <1>2, <2>2, <2>3, <2>4 DEF History!Latest
  <2>6. \A n : Reached(stored, n) => n <= k
    BY <2>3, <2>5 DEF Reached
  <2> QED
    BY <2>4, <2>5, <2>6 DEF Reached
<1> QED
  BY <1>1, <1>2

\* What was stored stays reached.
LEMMA StaysReached ==
    ASSUME stored \subseteq stored', NEW n, Reached(stored, n)
    PROVE  Reached(stored', n)
  BY DEF Reached

\* How far a replay has come.
LEMMA ReplayRange ==
    ASSUME JobRight
    PROVE  /\ job.cursor \in Nat /\ job.end \in Nat
           /\ job.phase = "replaying" => job.cursor <= job.end
           /\ job.phase = "replaying" => \A m \in stored : m <= job.cursor => m \in draft
<1>1. job.cursor \in Nat /\ job.end \in Nat
  BY DEF JobRight, Reached
<1> QED
  BY <1>1 DEF JobRight

\* A new generation of the job: nothing is computed yet, and the worker that
\* may be at work is not its own.
LEMMA MergeKeeps ==
    ASSUME HInv, stored \subseteq stored', NEW from, NEW to, Reached(stored', to),
           History!Merge(from, to)
    PROVE  JobRight' /\ WorkerRight'
<1> USE DEF HInv
<1>1. /\ job'.st = "pending" /\ job'.phase = "" /\ job'.cursor = 0 /\ job'.end = 0
      /\ job'.to \in {to, job.to}
  BY DEF History!Merge, History!NoJob, History!Larger
<1>5. job' = [f \in {"st", "phase", "from", "to", "cursor", "end"} |-> job'[f]]
  BY DEF History!Merge, History!NoJob
<1>2. Reached(stored', job'.to)
  <2>1. Reached(stored', job.to)
    BY StaysReached DEF JobRight
  <2> QED
    BY <1>1, <2>1
<1>3. JobRight'
  <2>1. Reached(stored', 0) /\ 0 \in Nat
    BY DEF Reached
  <2>2. Reached(stored', job'.end) /\ job'.cursor \in Nat
    BY <1>1, <2>1
  <2> QED
    BY <1>1, <1>2, <1>5, <2>2 DEF JobRight
<1>4. /\ worker' = [f \in {"pc", "own", "fresh", "at"} |-> worker'[f]]
      /\ worker'.own = FALSE /\ worker'.fresh = FALSE /\ worker'.pc = worker.pc
  BY DEF History!Merge, History!Overtaken, WorkerRight
<1>6. WorkerRight'
  <2>1. worker.pc \in {"idle", "prepare", "replay", "cursor", "finish"} \cup History!RollPcs
    BY DEF WorkerRight
  <2> QED
    BY <1>4, <2>1 DEF WorkerRight
<1> QED
  BY <1>3, <1>6

LEMMA IngestStep ==
    ASSUME History!HistoryConstants, HInv, NEW m \in Readings, History!Ingest(m)
    PROVE  HInv'
<1> USE DEF HInv
<1>1. /\ m \notin stored /\ stored' = stored \cup {m} /\ m \in Nat /\ m > 0
      /\ UNCHANGED <<evaluated, count, draft>>
  BY DEF History!Ingest, History!HistoryConstants
<1>2. Data /\ stored \subseteq Nat
  BY DEF Data, History!HistoryConstants
<1>3. queue' = queue \cup {m} \/ queue' = queue
  BY DEF History!Ingest
<1>4. Data'
  <2>1. \E l \in stored' : \A n \in stored' : n <= l
    <3>1. CASE m < History!Latest
      <4>1. History!Latest \in stored'
        BY <1>1, <1>2, <3>1, LatestIsLast DEF History!Latest, History!Largest, Data
      <4> QED
        BY <1>1, <1>2, <3>1, <4>1, LatestIsLast
    <3>2. CASE ~(m < History!Latest)
      BY <1>1, <1>2, <3>2, LatestIsLast DEF Reached
    <3> QED
      BY <3>1, <3>2
  <2> QED
    BY <1>1, <1>2, <1>3, <2>1 DEF Data
<1>5. CASE History!Merge(m, History!Larger(m, History!Latest))
  <2>1. Reached(stored', History!Latest) /\ Reached(stored', m)
    BY <1>1, <1>2, LatestIsLast, StaysReached DEF Reached
  <2>2. Reached(stored', History!Larger(m, History!Latest))
    <3>1. PICK k : k = History!Latest
      OBVIOUS
    <3>2. Reached(stored', k) /\ History!Larger(m, History!Latest) \in {m, k}
      BY <1>2, <3>1, LatestIsLast, StaysReached, <1>1 DEF History!Larger
    <3> QED
      BY <2>1, <3>2
  <2>3. PICK to : to = History!Larger(m, History!Latest)
    OBVIOUS
  <2> QED
    BY <1>1, <1>4, <1>5, <2>2, MergeKeeps
<1>6. CASE /\ ~(m < History!Latest) /\ queue' = queue \cup {m}
           /\ UNCHANGED <<job, worker>>
  <2>1. \A n : Reached(stored, n) => n < m
    BY <1>1, <1>2, <1>6, LatestIsLast DEF Reached
  <2>2. m \in queue' \ evaluated' /\ \A n \in stored : Held(n) => Held(n)'
    BY <1>1, <1>2, <1>6 DEF Held, Data
  <2>3. Reached(stored', job.to) /\ Reached(stored', job.end)
    BY <1>1, StaysReached DEF JobRight
  <2>4. JobRight'
    <3>1. job.phase = "replaying" => job.cursor < m
      <4>1. job.end < m
        BY <2>1 DEF JobRight
      <4> QED
        BY <1>1, <4>1, ReplayRange
    <3>2. Held(m)'
      BY <2>2 DEF Held
    <3>3. job.phase = "replaying" => \A n \in stored' : n <= job.cursor => n \in draft'
      BY <1>1, <1>2, <3>1, ReplayRange
    <3>4. job.st = "none" \/ job.phase \in {"rollups", "completed"}
             => (\A n \in stored : Held(n))'
      BY <1>1, <2>2, <3>2 DEF JobRight
    <3> QED
      BY <1>6, <2>3, <3>3, <3>4 DEF JobRight
  <2>5. WorkerRight'
    <3>1. worker.fresh /\ worker.pc = "cursor" => job.cursor + 1 < m
      <4>1. worker.fresh /\ worker.pc = "cursor" => job.cursor < job.end
        BY DEF WorkerRight
      <4>2. job.end < m
        BY <2>1 DEF JobRight
      <4> QED
        BY <1>1, <4>1, <4>2, ReplayRange
    <3>2. Reached(stored, worker.at) => Reached(stored', worker.at)
      BY <1>1, StaysReached
    <3>3. \A n \in stored : n \in queue \ evaluated => n \in queue' \ evaluated'
      BY <1>1, <1>6
    <3> QED
      <4>1. worker' = worker /\ job' = job /\ m \in queue' \ evaluated'
        BY <1>6, <2>2
      <4>2. worker.fresh /\ worker.pc = "cursor" => job.cursor + 1 \notin stored' \ stored
        BY <1>1, <3>1
      <4>3. worker.fresh /\ worker.pc = "finish" =>
               \A n \in stored' : n \in draft' \/ n \in queue' \ evaluated'
        BY <1>1, <3>3, <4>1 DEF WorkerRight
      <4>4. worker.fresh /\ worker.pc = "cursor" =>
               job.cursor < job.end /\ (job.cursor + 1 \in stored' => job.cursor + 1 \in draft')
        BY <1>1, <4>2 DEF WorkerRight
      <4> QED
        BY <3>2, <4>1, <4>3, <4>4 DEF WorkerRight
  <2> QED
    BY <1>4, <2>4, <2>5
<1> QED
  BY <1>5, <1>6 DEF History!Ingest

LEMMA EvaluateStep ==
    ASSUME HInv, NEW m \in Readings, History!Evaluate(m)
    PROVE  HInv'
<1> USE DEF HInv
<1>1. /\ m \in queue /\ worker.pc # "finish" /\ UNCHANGED <<stored, job, draft, worker>>
      /\ queue' = queue \ {m} \/ queue' = queue
      /\ \/ m \in evaluated /\ UNCHANGED <<evaluated, count>>
         \/ evaluated' = evaluated \cup {m} /\ count' = [count EXCEPT ![m] = @ + 1]
  BY DEF History!Evaluate, History!Unlocked
<1>2. Data'
  BY <1>1 DEF Data
<1>3. \A n \in stored : Held(n) => Held(n)'
  BY <1>1 DEF Held, Data
<1>4. Reached(stored', job.to) /\ Reached(stored', job.end)
  BY <1>1 DEF JobRight, Reached
<1>5. JobRight'
  BY <1>1, <1>3, <1>4 DEF JobRight
<1>6. WorkerRight'
  BY <1>1 DEF WorkerRight
<1> QED
  BY <1>2, <1>5, <1>6

LEMMA DeferStep ==
    ASSUME History!HistoryConstants, HInv, NEW m \in Readings, History!Defer(m)
    PROVE  HInv'
<1> USE DEF HInv
<1>1. m \in queue /\ queue' = queue \ {m} /\ UNCHANGED <<stored, evaluated, count, draft>>
  BY DEF History!Defer
<1>2. Data' /\ m \in stored
  BY <1>1 DEF Data
<1>3. CASE m \in evaluated /\ UNCHANGED <<job, worker>>
  <2>1. \A n \in stored : Held(n) => Held(n)'
    BY <1>1, <1>3 DEF Held
  <2>2. /\ Reached(stored', job.to) /\ Reached(stored', job.end)
        /\ Reached(stored, worker.at) => Reached(stored', worker.at)
    BY <1>1 DEF JobRight, Reached
  <2>3. JobRight'
    BY <1>1, <1>3, <2>1, <2>2 DEF JobRight
  <2>4. WorkerRight'
    BY <1>1, <1>3, <2>2 DEF WorkerRight
  <2> QED
    BY <1>2, <2>3, <2>4
<1>4. CASE History!Merge(m, m)
  <2>1. Reached(stored', m)
    BY <1>1, <1>2 DEF Reached, History!HistoryConstants
  <2> QED
    BY <1>1, <1>2, <1>4, <2>1, MergeKeeps
<1> QED
  BY <1>1, <1>3, <1>4 DEF History!Defer

-----------------------------------------------------------------------------
\* A step of the worker or of an operator: the readings stay as they are.
Rests == UNCHANGED <<stored, queue, evaluated>>

LEMMA Resting ==
    ASSUME HInv, Rests, UNCHANGED count
    PROVE  /\ Data' /\ \A n : Reached(stored, n) <=> Reached(stored', n)
           /\ \A m \in stored : Held(m) <=> Held(m)'
  BY DEF HInv, Rests, Data, Reached, Held

\* The worker leaves the job alone, or has left.
LEMMA JobStays ==
    ASSUME HInv, Rests, UNCHANGED <<count, job>>, draft \subseteq draft'
    PROVE  JobRight'
<1>1. /\ Reached(stored', job.to) /\ Reached(stored', job.end)
      /\ \A m \in stored : Held(m) <=> Held(m)'
  BY Resting DEF HInv, JobRight
<1> QED
  BY <1>1 DEF HInv, JobRight, Rests

LEMMA ReturnKeeps ==
    ASSUME NEW after, History!Return(after)
    PROVE  WorkerRight'
  BY DEF History!Return, History!Idle, WorkerRight, History!RollPcs

LEMMA WorkStep ==
    ASSUME HInv, History!Work
    PROVE  HInv'
<1>1. Rests /\ UNCHANGED <<count, job, draft>>
  BY DEF History!Work, Rests
<1>2. Data' /\ JobRight'
  BY <1>1, Resting, JobStays
<1>3. \/ UNCHANGED worker
      \/ /\ job.st # "cancelled" /\ job.phase = "rollups"
         /\ worker' = [History!Idle EXCEPT !.pc = "roll", !.at = job.from]
      \/ /\ job.st # "cancelled" /\ job.phase # "rollups" /\ job.st # "completed"
         /\ worker' = [History!Idle EXCEPT !.pc = "prepare"]
  BY DEF History!Work
<1>4. WorkerRight'
  <2>1. CASE UNCHANGED worker
    BY <1>1, <2>1 DEF WorkerRight, HInv, History!Work
  <2>2. CASE /\ job.st # "cancelled" /\ job.phase = "rollups"
             /\ worker' = [History!Idle EXCEPT !.pc = "roll", !.at = job.from]
    BY <1>1, <2>2 DEF WorkerRight, History!Idle, History!RollPcs
  <2>3. CASE /\ job.st # "cancelled" /\ job.phase # "rollups" /\ job.st # "completed"
             /\ worker' = [History!Idle EXCEPT !.pc = "prepare"]
    BY <1>1, <2>3 DEF WorkerRight, History!Idle, History!RollPcs, HInv, JobRight
  <2> QED
    BY <1>3, <2>1, <2>2, <2>3
<1> QED
  BY <1>2, <1>4 DEF HInv

LEMMA PrepareStep ==
    ASSUME History!HistoryConstants, HInv, History!Prepare
    PROVE  HInv'
<1> USE DEF HInv
<1>1. /\ worker.pc = "prepare" /\ worker.fresh /\ Rests /\ UNCHANGED count
      /\ worker' = [worker EXCEPT !.pc = "replay"]
  BY DEF History!Prepare, Rests
<1>2. worker.own /\ job.phase \in {"", "replaying"}
  BY <1>1 DEF WorkerRight
<1>3. Data' /\ \A n : Reached(stored, n) <=> Reached(stored', n)
  BY <1>1, Resting
<1>4. CASE job.phase = ""
  <2>1. /\ draft' = {}
        /\ job' = [job EXCEPT !.st = "running", !.phase = "replaying",
                              !.end = History!Larger(History!Latest, job.to), !.cursor = 0]
    BY <1>4 DEF History!Prepare
  <2>2. Reached(stored, History!Larger(History!Latest, job.to))
    BY LatestIsLast DEF JobRight, History!Larger
  <2>3. /\ job' = [f \in {"st", "phase", "from", "to", "cursor", "end"} |-> job'[f]]
    BY <2>1 DEF JobRight
  <2>8. /\ job'.st = "running" /\ job'.phase = "replaying" /\ job'.cursor = 0
        /\ job'.end = History!Larger(History!Latest, job.to) /\ job'.to = job.to
    BY <2>1 DEF JobRight
  <2>4. Reached(stored', job'.to) /\ Reached(stored', job'.end)
    BY <1>3, <2>2, <2>8 DEF JobRight
  <2>5. \A m \in stored' : m > 0 /\ m \in Nat
    BY <1>1 DEF Rests, Data, History!HistoryConstants
  <2>6. JobRight'
    <3>1. 0 <= job'.end
      BY <2>4 DEF Reached
    <3>2. \A m \in stored' : ~(m <= 0)
      BY <2>5
    <3>3. (job.phase = "replaying" =>
             job.cursor <= job.end /\ \A m \in stored : m <= job.cursor => m \in draft)'
      BY <2>8, <3>1, <3>2
    <3>4. 0 \in Nat
      OBVIOUS
    <3> QED
      BY <2>3, <2>4, <2>8, <3>3, <3>4 DEF JobRight
  <2>7. WorkerRight'
    BY <1>1, <1>2, <2>8 DEF WorkerRight, History!RollPcs
  <2> QED
    BY <1>3, <2>6, <2>7
<1>5. CASE job.phase = "replaying"
  <2>1. job' = [job EXCEPT !.st = "running"] /\ draft' = draft
    BY <1>5 DEF History!Prepare
  <2>2. JobRight'
    BY <1>1, <1>3, <1>5, <2>1 DEF JobRight, Rests
  <2>3. WorkerRight'
    BY <1>1, <1>2, <1>5, <2>1 DEF WorkerRight, History!RollPcs, JobRight
  <2> QED
    BY <1>3, <2>2, <2>3
<1> QED
  BY <1>2, <1>4, <1>5

LEMMA ReplayStep ==
    ASSUME HInv, History!Replay
    PROVE  HInv'
<1>1. /\ worker.pc = "replay" /\ worker.own /\ job.cursor < job.end
      /\ Rests /\ UNCHANGED <<count, job>> /\ draft \subseteq draft'
      /\ {job.cursor + 1} \cap stored \subseteq draft'
      /\ worker' = [worker EXCEPT !.pc = "cursor"]
  BY DEF History!Replay, Rests, History!Running
<1>2. Data' /\ JobRight'
  BY <1>1, Resting, JobStays
<1>3. WorkerRight'
  BY <1>1 DEF WorkerRight, HInv, History!RollPcs, Rests
<1> QED
  BY <1>2, <1>3 DEF HInv

LEMMA AdvanceStep ==
    ASSUME History!HistoryConstants, HInv, History!Advance
    PROVE  HInv'
<1> USE DEF HInv
<1>1. /\ worker.pc = "cursor" /\ worker.fresh /\ Rests /\ UNCHANGED <<count, draft>>
      /\ job' = [job EXCEPT !.cursor = @ + 1]
      /\ worker' = [worker EXCEPT !.pc = "replay"]
  BY DEF History!Advance, Rests
<1>2. Data' /\ \A n : Reached(stored, n) <=> Reached(stored', n)
  BY <1>1, Resting
<1>3. /\ worker.own /\ job.phase = "replaying" /\ job.cursor < job.end
      /\ job.cursor + 1 \in stored => job.cursor + 1 \in draft
  BY <1>1 DEF WorkerRight
<1>4. /\ job' = [f \in {"st", "phase", "from", "to", "cursor", "end"} |-> job'[f]]
      /\ job'.st = job.st /\ job'.phase = job.phase /\ job'.to = job.to
      /\ job'.end = job.end /\ job'.cursor = job.cursor + 1
  BY <1>1 DEF JobRight
<1>5. /\ Reached(stored', job'.to) /\ Reached(stored', job'.end)
      /\ job.cursor \in Nat /\ job.end \in Nat
  BY <1>2, <1>4 DEF JobRight, Reached
<1>6. \A m \in stored : m <= job.cursor + 1 => m \in draft
  <2>1. stored \subseteq Nat
    BY DEF Data, History!HistoryConstants
  <2> QED
    BY <1>3, <1>5, <2>1, ReplayRange
<1>7. JobRight'
  <2>1. \A m \in stored : Held(m) <=> Held(m)'
    BY <1>1, Resting
  <2>2. job.cursor + 1 \in Nat /\ job.cursor + 1 <= job.end
    BY <1>3, <1>5
  <2>3. stored' = stored /\ draft' = draft
    BY <1>1 DEF Rests
  <2>4. (job.st = "none" \/ job.phase \in {"rollups", "completed"} => \A m \in stored : Held(m))'
    BY <1>4, <2>1, <2>3 DEF JobRight
  <2>5. (job.phase = "replaying" =>
          job.cursor <= job.end /\ \A m \in stored : m <= job.cursor => m \in draft)'
    BY <1>4, <1>6, <2>2, <2>3
  <2> QED
    BY <1>4, <1>5, <2>2, <2>4, <2>5 DEF JobRight
<1>8. WorkerRight'
  BY <1>1, <1>3, <1>4 DEF WorkerRight, History!RollPcs
<1> QED
  BY <1>2, <1>7, <1>8

LEMMA CatchUpStep ==
    ASSUME History!HistoryConstants, HInv, History!CatchUp
    PROVE  HInv'
<1> USE DEF HInv
<1>1. /\ worker.pc = "replay" /\ worker.own /\ job.cursor = job.end
      /\ Rests /\ UNCHANGED <<count, job>>
      /\ draft' = draft \cup {m \in stored : m > job.end}
      /\ worker' = [worker EXCEPT !.pc = "finish", !.at = History!Larger(job.end, History!Latest)]
  BY DEF History!CatchUp, Rests, History!Running
<1>2. Data' /\ JobRight' /\ \A n : Reached(stored, n) <=> Reached(stored', n)
  BY <1>1, Resting, JobStays
<1>3. job.phase = "replaying"
  BY <1>1 DEF WorkerRight
<1>4. stored \subseteq draft'
  <2>1. stored \subseteq Nat /\ job.end \in Nat
    BY DEF Data, History!HistoryConstants, JobRight, Reached
  <2> QED
    BY <1>1, <1>3, <2>1, ReplayRange
<1>5. Reached(stored, History!Larger(job.end, History!Latest))
  BY LatestIsLast DEF JobRight, History!Larger
<1>6. /\ worker' = [f \in {"pc", "own", "fresh", "at"} |-> worker'[f]]
      /\ worker'.pc = "finish" /\ worker'.at = History!Larger(job.end, History!Latest)
      /\ worker'.own = worker.own /\ worker'.fresh = worker.fresh
  BY <1>1 DEF WorkerRight
<1>7. Reached(stored', worker'.at)
  BY <1>2, <1>5, <1>6
<1>8. WorkerRight'
  BY <1>1, <1>3, <1>4, <1>6, <1>7 DEF WorkerRight, History!RollPcs, Rests
<1> QED
  BY <1>2, <1>8

LEMMA FinishStep ==
    ASSUME HInv, History!Finish
    PROVE  HInv'
<1> USE DEF HInv
<1>1. /\ worker.pc = "finish" /\ worker.fresh /\ Rests /\ UNCHANGED draft
      /\ count' = [m \in Readings |-> IF m \in draft THEN 1 ELSE 0]
      /\ job' = [job EXCEPT !.st = "completed", !.phase = "rollups", !.to = worker.at,
                            !.cursor = worker.at]
      /\ worker' = [worker EXCEPT !.pc = "rollups", !.at = job.from]
  BY DEF History!Finish, Rests, History!Adopted
<1>2. /\ worker.own /\ Reached(stored, worker.at)
      /\ \A m \in stored : m \in draft \/ m \in queue \ evaluated
  BY <1>1 DEF WorkerRight
<1>3. Data'
  BY <1>1 DEF Data, Rests
<1>4. \A m \in stored' : Held(m)'
  BY <1>1, <1>2 DEF Held, Data, Rests
<1>5. /\ job' = [f \in {"st", "phase", "from", "to", "cursor", "end"} |-> job'[f]]
      /\ job'.st = "completed" /\ job'.phase = "rollups" /\ job'.to = worker.at
      /\ job'.cursor = worker.at /\ job'.end = job.end
  BY <1>1 DEF JobRight
<1>6. Reached(stored', job'.to) /\ Reached(stored', job'.end) /\ job'.cursor \in Nat
  BY <1>1, <1>2, <1>5 DEF Reached, JobRight, Rests
<1>7. JobRight'
  BY <1>4, <1>5, <1>6 DEF JobRight
<1>8. WorkerRight'
  BY <1>1, <1>2, <1>5 DEF WorkerRight, History!RollPcs
<1> QED
  BY <1>3, <1>7, <1>8

LEMMA RollSteps ==
    ASSUME HInv, History!Roll \/ History!RollDone
    PROVE  HInv'
<1> USE DEF HInv
<1>1. worker.pc \in History!RollPcs /\ worker.own /\ Rests /\ UNCHANGED <<count, draft>>
  BY DEF History!Roll, History!RollDone, Rests, WorkerRight
<1>2. job.phase = "rollups"
  BY <1>1 DEF WorkerRight
<1>3. /\ Data' /\ \A n : Reached(stored, n) <=> Reached(stored', n)
      /\ \A m \in stored : Held(m) <=> Held(m)'
  BY <1>1, Resting
<1>4. CASE History!Roll
  <2>1. JobRight'
    BY <1>1, <1>4, JobStays DEF History!Roll
  <2>2. WorkerRight'
    BY <1>1, <1>2, <1>4 DEF History!Roll, WorkerRight, History!RollPcs
  <2> QED
    BY <1>3, <2>1, <2>2
<1>5. CASE History!RollDone
  <2>1. WorkerRight'
    BY <1>5, ReturnKeeps DEF History!RollDone
  <2>2. JobRight'
    BY <1>1, <1>2, <1>3, <1>5 DEF History!RollDone, JobRight, Rests
  <2> QED
    BY <1>3, <2>1, <2>2
<1> QED
  BY <1>4, <1>5

\* The attempt ends: the job is as it was, or has failed.
LEMMA EndSteps ==
    ASSUME HInv, History!Leave \/ History!Conflict \/ History!StepFails \/ History!Abandoned
    PROVE  HInv'
<1> USE DEF HInv
<1>1. Rests /\ UNCHANGED <<count, draft>>
  BY DEF History!Leave, History!Conflict, History!StepFails, History!Abandoned, History!Failed,
     Rests
<1>2. WorkerRight'
  BY ReturnKeeps DEF History!Leave, History!Conflict, History!StepFails, History!Abandoned,
     History!Failed
<1>3. /\ Data' /\ \A n : Reached(stored, n) <=> Reached(stored', n)
      /\ \A m \in stored : Held(m) <=> Held(m)'
  BY <1>1, Resting
<1>4. \/ job' = job
      \/ worker.pc # "idle" /\ worker.own /\ job' = [job EXCEPT !.st = "failed"]
  BY DEF History!Leave, History!Conflict, History!StepFails, History!Abandoned, History!Failed
<1>5. CASE job' = job
  BY <1>1, <1>2, <1>3, <1>5, JobStays
<1>6. CASE worker.pc # "idle" /\ worker.own /\ job' = [job EXCEPT !.st = "failed"]
  <2>1. job.phase # "completed"
    BY <1>6 DEF WorkerRight, History!RollPcs
  <2>2. JobRight'
    BY <1>1, <1>3, <1>6, <2>1 DEF JobRight, Rests
  <2> QED
    BY <1>2, <1>3, <2>2
<1> QED
  BY <1>4, <1>5, <1>6

LEMMA OrderSteps ==
    ASSUME HInv, History!Cancel \/ History!Retry \/ History!Sweep
    PROVE  HInv'
<1> USE DEF HInv
<1>1. Rests /\ UNCHANGED <<count, draft>>
  BY DEF History!Cancel, History!Retry, History!Sweep, Rests
<1>2. /\ Data' /\ \A n : Reached(stored, n) <=> Reached(stored', n)
      /\ \A m \in stored : Held(m) <=> Held(m)'
  BY <1>1, Resting
<1>3. \/ UNCHANGED <<job, worker>>
      \/ /\ job.st # "completed" \/ job.phase = "rollups"
         /\ worker' = [worker EXCEPT !.fresh = FALSE]
         /\ \E s \in {"cancelled", "running"} : job' = [job EXCEPT !.st = s]
  BY DEF History!Cancel, History!Retry, History!Sweep, History!Overtaken
<1>4. CASE UNCHANGED <<job, worker>>
  <2>1. JobRight'
    BY <1>1, <1>4, JobStays
  <2>2. WorkerRight'
    BY <1>1, <1>2, <1>4 DEF WorkerRight, Rests
  <2> QED
    BY <1>2, <2>1, <2>2
<1>5. CASE /\ job.st # "completed" \/ job.phase = "rollups"
           /\ worker' = [worker EXCEPT !.fresh = FALSE]
           /\ \E s \in {"cancelled", "running"} : job' = [job EXCEPT !.st = s]
  <2>1. PICK s \in {"cancelled", "running"} : job' = [job EXCEPT !.st = s]
    BY <1>5
  <2>2. job.phase # "completed"
    BY <1>5 DEF JobRight
  <2>3. JobRight'
    BY <1>1, <1>2, <2>1, <2>2 DEF JobRight, Rests
  <2>4. WorkerRight'
    BY <1>5, <2>1 DEF WorkerRight, JobRight
  <2> QED
    BY <1>2, <2>3, <2>4
<1> QED
  BY <1>3, <1>4, <1>5

LEMMA HistoryInit ==
    ASSUME History!HistoryConstants, History!Init
    PROVE  HInv
<1>1. Data
  BY DEF History!Init, Data
<1>2. JobRight
  BY DEF History!Init, JobRight, History!NoJob, Reached
<1>3. WorkerRight
  BY DEF History!Init, WorkerRight, History!Idle, History!RollPcs
<1> QED
  BY <1>1, <1>2, <1>3 DEF HInv

LEMMA HistoryKeeps ==
    ASSUME History!HistoryConstants, HInv, [History!Next]_(History!vars)
    PROVE  HInv'
<1>1. CASE History!WorkerStep
  BY <1>1, WorkStep, PrepareStep, ReplayStep, AdvanceStep, CatchUpStep, FinishStep, RollSteps,
     EndSteps DEF History!WorkerStep
<1>2. CASE UNCHANGED History!vars
  <2>1. Rests /\ UNCHANGED <<count, job, draft, worker>>
    BY <1>2 DEF History!vars, Rests
  <2>2. Data' /\ JobRight' /\ \A n : Reached(stored, n) <=> Reached(stored', n)
    BY <2>1, Resting, JobStays
  <2>3. WorkerRight'
    BY <2>1, <2>2 DEF HInv, WorkerRight, Rests
  <2> QED
    BY <2>2, <2>3 DEF HInv
<1> QED
  BY <1>1, <1>2, IngestStep, EvaluateStep, DeferStep, EndSteps, OrderSteps DEF History!Next

LEMMA NoneForgotten ==
    ASSUME HInv
    PROVE  History!NothingForgotten
  BY DEF HInv, JobRight, Held, History!NothingForgotten

\* Only a worker that nobody has overtaken writes, and then its job is neither
\* cancelled nor of a new generation.
LEMMA WorkerStops ==
    ASSUME History!HistoryConstants, HInv, [History!Next]_(History!vars)
    PROVE  History!WritesOnlyOwn
<1> SUFFICES ASSUME ~worker.own \/ job.st = "cancelled", worker.pc # "idle", swept' = swept
             PROVE  draft' = draft /\ rolled' = rolled
  BY DEF History!WritesOnlyOwn
<1>1. ~worker.fresh /\ ~History!Running
  BY DEF HInv, WorkerRight, History!Running
<1>2. CASE History!WorkerStep
  BY <1>1, <1>2 DEF History!WorkerStep, History!Work, History!Prepare, History!Replay,
     History!Advance, History!CatchUp, History!Finish, History!Roll, History!RollDone,
     History!Leave, History!Conflict, History!Failed
<1>3. CASE History!Sweep
  <2>1. swept' = swept + 1 /\ swept' \in Nat
    BY <1>3 DEF History!Sweep, History!HistoryConstants
  <2>2. swept \in Nat /\ swept = swept + 1
    BY <2>1
  <2> QED
    BY <2>2
<1>4. CASE UNCHANGED History!vars
  BY <1>4 DEF History!vars
<1> QED
  BY <1>2, <1>3, <1>4 DEF History!Next, History!Ingest, History!Evaluate, History!Defer,
     History!StepFails, History!Abandoned, History!Failed, History!Cancel, History!Retry

\* No accepted reading is forgotten (IngestMessages, deferEvaluation,
\* Recompute).
THEOREM HistoryRemembers ==
    History!HistoryConstants =>
        (History!Init /\ [][History!Next]_(History!vars) => []History!NothingForgotten)
<1> SUFFICES ASSUME History!HistoryConstants
             PROVE  History!Init /\ [][History!Next]_(History!vars) => []History!NothingForgotten
  OBVIOUS
<1>1. History!Init => HInv
  BY HistoryInit
<1>2. HInv /\ [History!Next]_(History!vars) => HInv'
  BY HistoryKeeps
<1>3. HInv => History!NothingForgotten
  BY NoneForgotten
<1> QED
  BY <1>1, <1>2, <1>3, PTL

\* Once the job is cancelled or belongs to a new generation, the old worker
\* changes neither the state of the run nor the rollups (commitEvaluation,
\* BuildRollupsGuarded).
THEOREM HistoryStops ==
    History!HistoryConstants =>
        (History!Init /\ [][History!Next]_(History!vars) => History!StoppedWritesNothing)
<1> SUFFICES ASSUME History!HistoryConstants
             PROVE  History!Init /\ [][History!Next]_(History!vars)
                    => History!StoppedWritesNothing
  OBVIOUS
<1>1. History!Init => HInv
  BY HistoryInit
<1>2. HInv /\ [History!Next]_(History!vars) => HInv' /\ [History!WritesOnlyOwn]_(History!vars)
  BY HistoryKeeps, WorkerStops
<1> QED
  BY <1>1, <1>2, PTL DEF History!StoppedWritesNothing

-----------------------------------------------------------------------------
(* The ledger of tasks.  An operator acts on what he has read.  So the      *)
(* invariant is about what he holds (HeldRight): the revision he has read   *)
(* is that of the operations on the task, which every operation advances;   *)
(* and the right of the current revision stands.                            *)
TaskRight(x) == task[x] # None => task[x] \in Tasks!Task /\ task[x].revision = task[x].operations

DeliveryRight(d) ==
    /\ outbox[d] = "none" => task[d] = None
    /\ outbox[d] = "row" => /\ task[d] # None => task[d].state # "completed"
                            /\ up = "up" => task[d] # None

Written == {"cancelled", "completed"}

RecomputeRight(r) ==
    /\ doc[r] = [f \in {"status", "tracked", "version"} |-> doc[r][f]]
    /\ doc[r].version \in Nat \ {0} /\ doc[r].tracked \in BOOLEAN
    /\ doc[r].tracked <=> task[r] # None
    /\ made[r] = IF doc[r].tracked THEN 1 ELSE 0
    /\ up = "up" /\ doc[r].status = "running" => doc[r].tracked
    /\ work[r] \in {"checked", "failed"} => doc[r].status # "completed"
    /\ work[r] = "done" => doc[r].status = "completed"
    /\ task[r] # None =>
          /\ task[r].state = "completed" => doc[r].status = "completed"
          /\ task[r].state = "cancelled" => doc[r].status \in Written
          /\ task[r].marked <=> task[r].cancelled
          /\ task[r].marked => doc[r].status \in Written

HeldRight(o) ==
    held[o] # None =>
        /\ held[o].right \in Nat /\ held[o].right <= right.revision
        /\ held[o].right = right.revision => right.may
        /\ held[o].version \in Nat
        /\ IF held[o].version = 0
           THEN /\ held[o].thing \in Tasks!Things /\ task[held[o].thing] # None
                /\ held[o].token.revision = held[o].seen
           ELSE held[o].thing \in Recomputes /\ held[o].right # 0

Tables ==
    /\ outbox = [d \in Deliveries |-> outbox[d]]
    /\ doc = [r \in Recomputes |-> doc[r]]
    /\ task = [x \in Tasks!Things |-> task[x]] /\ work = [x \in Tasks!Things |-> work[x]]
    /\ held = [o \in Operators |-> held[o]] /\ made = [r \in Recomputes |-> made[r]]
    /\ right = [f \in {"may", "revision"} |-> right[f]]
    /\ right.revision \in Nat \ {0} /\ right.may \in BOOLEAN

ThingRight(x) ==
    /\ TaskRight(x)
    /\ x \in Deliveries => DeliveryRight(x)
    /\ x \in Recomputes => RecomputeRight(x)

TInv ==
    /\ Tables /\ ~misled
    /\ \A x \in Tasks!Things : ThingRight(x)
    /\ \A o \in Operators : HeldRight(o)

\* A step of one thing: what is known of it holds again, and nothing else of
\* the tables changes, but that operators may let go of what they hold.
Only(x) ==
    /\ UNCHANGED <<up, right>>
    /\ \A y \in Tasks!Things \ {x} : task'[y] = task[y] /\ work'[y] = work[y]
    /\ \A d \in Deliveries \ {x} : outbox'[d] = outbox[d]
    /\ \A r \in Recomputes \ {x} : doc'[r] = doc[r] /\ made'[r] = made[r]
    /\ \A o \in Operators : held'[o] \in {held[o], None}
    /\ task[x] # None => task'[x] # None

LEMMA ThingStep ==
    ASSUME TInv, NEW x \in Tasks!Things, Tables', Only(x), misled' = FALSE, ThingRight(x)'
    PROVE  TInv'
<1>1. ASSUME NEW y \in Tasks!Things PROVE ThingRight(y)'
  <2>1. CASE y = x
    BY <2>1
  <2>2. CASE y # x
    <3>1. /\ task'[y] = task[y] /\ work'[y] = work[y] /\ up' = up
          /\ y \in Deliveries => outbox'[y] = outbox[y]
          /\ y \in Recomputes => doc'[y] = doc[y] /\ made'[y] = made[y]
      BY <2>2 DEF Only
    <3>2. ThingRight(y)
      BY DEF TInv
    <3>3. TaskRight(y)'
      BY <3>1, <3>2 DEF ThingRight, TaskRight
    <3>4. y \in Deliveries => DeliveryRight(y)'
      BY <3>1, <3>2 DEF ThingRight, DeliveryRight
    <3>5. y \in Recomputes => RecomputeRight(y)'
      BY <3>1, <3>2 DEF ThingRight, RecomputeRight
    <3> QED
      BY <3>3, <3>4, <3>5 DEF ThingRight
  <2> QED
    BY <2>1, <2>2
<1>2. ASSUME NEW o \in Operators PROVE HeldRight(o)'
  <2>1. held'[o] # None => held'[o] = held[o]
    BY DEF Only
  <2>2. HeldRight(o) /\ right' = right
    BY DEF TInv, Only
  <2>3. ASSUME NEW y \in Tasks!Things, task[y] # None PROVE task'[y] # None
    BY <2>3 DEF Only
  <2> QED
    BY <2>1, <2>2, <2>3 DEF HeldRight
<1> QED
  BY <1>1, <1>2 DEF TInv

\* The queue's operations keep a task a task, and its revision.
LEMMA TaskFields ==
    ASSUME NEW t \in Tasks!Task
    PROVE  /\ t.state \in Tasks!Waiting \cup Tasks!Final \cup {"running"} /\ t.attempt \in Nat
           /\ t.max \in Nat /\ t.errors \in Nat /\ t.marked \in BOOLEAN
           /\ t.revision \in Nat /\ t.cancelled \in BOOLEAN /\ t.operations \in Nat
           /\ t = [state |-> t.state, attempt |-> t.attempt, max |-> t.max,
                   errors |-> t.errors, marked |-> t.marked, revision |-> t.revision,
                   cancelled |-> t.cancelled, operations |-> t.operations]
  BY DEF Tasks!Task

LEMMA NewState ==
    ASSUME NEW t \in Tasks!Task, NEW s \in Tasks!Waiting \cup Tasks!Final \cup {"running"}
    PROVE  [t EXCEPT !.state = s] \in Tasks!Task
  BY DEF Tasks!Task

LEMMA EndedRight ==
    ASSUME NEW t \in Tasks!Task
    PROVE  /\ Tasks!Ended(t) \in Tasks!Task
           /\ Tasks!Ended(t).state \in {"cancelled", "discarded", "retryable"}
           /\ Tasks!Ended(t).state = "cancelled" => t.marked
           /\ Tasks!Ended(t).marked = t.marked /\ Tasks!Ended(t).cancelled = t.cancelled
           /\ Tasks!Ended(t).revision = t.revision /\ Tasks!Ended(t).operations = t.operations
<1> DEFINE s == IF t.marked THEN "cancelled"
                ELSE IF t.attempt >= t.max THEN "discarded" ELSE "retryable"
           n == t.errors + 1
<1>1. s \in Tasks!Waiting \cup Tasks!Final /\ n \in Nat
  BY TaskFields DEF Tasks!Waiting, Tasks!Final
<1>2. Tasks!Ended(t) = [t EXCEPT !.errors = n, !.state = s]
  BY DEF Tasks!Ended
<1>3. s \in {"cancelled", "discarded", "retryable"} /\ (s = "cancelled" => t.marked)
  OBVIOUS
<1> HIDE DEF s, n
<1>4. Tasks!Ended(t) \in Tasks!Task
  BY <1>1, <1>2 DEF Tasks!Task
<1>5. /\ Tasks!Ended(t).state = s /\ Tasks!Ended(t).revision = t.revision
      /\ Tasks!Ended(t).operations = t.operations
  BY <1>2 DEF Tasks!Task
<1>6. Tasks!Ended(t).marked = t.marked /\ Tasks!Ended(t).cancelled = t.cancelled
  BY <1>2 DEF Tasks!Task
<1> QED
  BY <1>3, <1>4, <1>5, <1>6

LEMMA Operated ==
    ASSUME NEW t \in Tasks!Task, t.revision = t.operations, NEW retried \in BOOLEAN,
           NEW u, u = Tasks!AdvanceOperation(
                          IF retried THEN Tasks!JobRetry(t) ELSE Tasks!JobCancel(t), retried)
    PROVE  /\ u \in Tasks!Task /\ u.revision = u.operations
           /\ u.marked = ~retried /\ u.cancelled = ~retried
           /\ u.state \in IF retried THEN {"available"} ELSE {"running", "cancelled"}
<1>1. CASE retried
  <2> DEFINE v == Tasks!JobRetry(t)
             m == IF t.attempt = t.max THEN t.max + 1 ELSE t.max
             n == t.revision + 1
  <2>1. v = [t EXCEPT !.state = "available", !.max = m] /\ m \in Nat /\ n \in Nat
    BY TaskFields DEF Tasks!JobRetry
  <2> HIDE DEF m, n
  <2>2. /\ v \in Tasks!Task /\ v.state = "available" 
        /\ v.revision = t.revision /\ v.operations = t.revision
    BY <2>1 DEF Tasks!Task, Tasks!Waiting
  <2> HIDE DEF v
  <2>3. u = [v EXCEPT !.revision = n, !.operations = n, !.cancelled = FALSE, !.marked = FALSE]
    BY <1>1, <2>2 DEF Tasks!AdvanceOperation, v, n
  <2>4. u \in Tasks!Task
    BY <2>1, <2>2, <2>3 DEF Tasks!Task
  <2>5. u.revision = u.operations /\ u.state = "available"
    BY <2>2, <2>3 DEF Tasks!Task
  <2>6. u.marked = FALSE /\ u.cancelled = FALSE
    BY <2>2, <2>3 DEF Tasks!Task
  <2> QED
    BY <1>1, <2>4, <2>5, <2>6
<1>2. CASE ~retried
  <2> DEFINE v == Tasks!JobCancel(t)
             s == IF t.state = "running" THEN t.state ELSE "cancelled"
             n == t.revision + 1
  <2>1. /\ v = [t EXCEPT !.marked = TRUE, !.state = s]
        /\ s \in {"running", "cancelled"} /\ n \in Nat
    BY TaskFields DEF Tasks!JobCancel
  <2> HIDE DEF s, n
  <2>2. /\ v \in Tasks!Task /\ v.state = s /\ v.revision = t.revision /\ v.operations = t.revision
    BY <2>1 DEF Tasks!Task, Tasks!Final
  <2>7. v.marked = TRUE
    BY <2>1 DEF Tasks!Task
  <2> HIDE DEF v
  <2>3. u = [v EXCEPT !.revision = n, !.operations = n, !.cancelled = TRUE]
    BY <1>2, <2>2 DEF Tasks!AdvanceOperation, v, n
  <2>4. u \in Tasks!Task
    BY <2>1, <2>2, <2>3 DEF Tasks!Task
  <2>5. u.revision = u.operations /\ u.state = s
    BY <2>2, <2>3 DEF Tasks!Task
  <2>6. u.marked = TRUE /\ u.cancelled = TRUE
    BY <2>2, <2>3, <2>7 DEF Tasks!Task
  <2> QED
    BY <1>2, <2>1, <2>4, <2>5, <2>6
<1> QED
  BY <1>1, <1>2

LEMMA NewTaskRight ==
    ASSUME Tasks!LedgerConstants
    PROVE  /\ Tasks!NewTask \in Tasks!Task /\ Tasks!NewTask.revision = Tasks!NewTask.operations
           /\ Tasks!NewTask.state = "available" /\ Tasks!NewTask.marked = FALSE
           /\ Tasks!NewTask.cancelled = FALSE
  BY DEF Tasks!LedgerConstants, Tasks!Task, Tasks!NewTask, Tasks!Waiting

\* A step of the worker or of the queue, which leaves the document alone.
LEMMA TaskStep ==
    ASSUME Tasks!LedgerConstants, TInv, NEW x \in Tasks!Things, task[x] # None,
           NEW t \in Tasks!Task, t.revision = t.operations, task' = [task EXCEPT ![x] = t],
           NEW w, work' = [work EXCEPT ![x] = w],
           \/ outbox' = outbox
           \/ x \in Deliveries /\ outbox' = [outbox EXCEPT ![x] = "gone"],
           UNCHANGED <<up, doc, held, right, made, misled>>,
           x \in Deliveries => (outbox'[x] = "row" => t.state # "completed"),
           x \in Recomputes =>
               /\ w \in {"checked", "failed"} => doc[x].status # "completed"
               /\ w = "done" => doc[x].status = "completed"
               /\ t.state = "completed" => doc[x].status = "completed"
               /\ t.state = "cancelled" => doc[x].status \in Written
               /\ t.marked <=> t.cancelled
               /\ t.marked => doc[x].status \in Written
    PROVE  TInv'
<1>1. t # None /\ task'[x] = t /\ work'[x] = w
  BY DEF TInv, Tables, Tasks!LedgerConstants
<1>2. Tables'
  BY DEF TInv, Tables
<1>3. Only(x)
  BY <1>1 DEF TInv, Tables, Only
<1>4. ThingRight(x) /\ misled' = FALSE
  BY DEF TInv
<1>5. TaskRight(x)'
  BY <1>1 DEF TaskRight
<1>6. x \in Deliveries => DeliveryRight(x)'
  BY <1>1, <1>4 DEF DeliveryRight, ThingRight, TInv, Tables
<1>7. x \in Recomputes => RecomputeRight(x)'
  BY <1>1, <1>4 DEF RecomputeRight, ThingRight
<1> QED
  BY <1>2, <1>3, <1>4, <1>5, <1>6, <1>7, ThingStep DEF ThingRight

\* A step that taskChanges the document of a recomputation, and its worker.
LEMMA DocumentStep ==
    ASSUME Tasks!LedgerConstants, TInv, NEW x \in Tasks!Things, task[x] # None,
           NEW w, work' = [work EXCEPT ![x] = w],
           UNCHANGED <<up, task, outbox, held, right, made, misled>>,
           x \in Deliveries => doc' = doc,
           x \in Recomputes =>
               \/ /\ doc' = doc
                  /\ w \in {"checked", "failed"} => doc[x].status # "completed"
                  /\ w # "done"
               \/ /\ doc' = [doc EXCEPT ![x].status = "completed",
                                        ![x].version = doc[x].version + 1]
                  /\ w \notin {"checked", "failed"}
               \/ /\ doc' = [doc EXCEPT ![x].status = "failed",
                                        ![x].version = doc[x].version + 1]
                  /\ w \notin {"checked", "failed", "done"}
                  /\ doc[x].status \notin Written
    PROVE  TInv'
<1>1. work'[x] = w /\ ThingRight(x) /\ misled' = FALSE
  BY DEF TInv, Tables
<1>2. Tables'
  <2>1. doc' = [r \in Recomputes |-> doc'[r]]
    BY DEF TInv, Tables, Tasks!LedgerConstants, Tasks!Things
  <2> QED
    BY <2>1 DEF TInv, Tables
<1>3. \A r \in Recomputes \ {x} : doc'[r] = doc[r]
  BY DEF TInv, Tables, Tasks!LedgerConstants, Tasks!Things
<1>4. Only(x)
  BY <1>3 DEF TInv, Tables, Only
<1>5. TaskRight(x)'
  BY <1>1 DEF TaskRight, ThingRight
<1>6. x \in Deliveries => DeliveryRight(x)'
  BY <1>1 DEF DeliveryRight, ThingRight
<1>7. ASSUME x \in Recomputes PROVE RecomputeRight(x)'
  <2>1. RecomputeRight(x) /\ doc = [r \in Recomputes |-> doc[r]]
    BY <1>1, <1>7 DEF ThingRight, TInv, Tables
  <2>2. CASE /\ doc' = doc /\ w # "done"
             /\ w \in {"checked", "failed"} => doc[x].status # "completed"
    BY <1>1, <2>1, <2>2 DEF RecomputeRight
  <2>3. ASSUME NEW s \in {"completed", "failed"},
               doc' = [doc EXCEPT ![x].status = s, ![x].version = doc[x].version + 1],
               w \notin {"checked", "failed"}, w = "done" => s = "completed",
               s = "failed" => doc[x].status \notin Written
        PROVE  RecomputeRight(x)'
    <3>1. doc'[x] = [doc[x] EXCEPT !.status = s, !.version = doc[x].version + 1]
      BY <1>7, <2>1, <2>3
    <3>5. doc[x] = [f \in {"status", "tracked", "version"} |-> doc[x][f]]
      BY <2>1 DEF RecomputeRight
    <3>6. doc'[x] = [f \in {"status", "tracked", "version"} |-> doc'[x][f]]
      BY <3>1, <3>5
    <3>2. /\ doc'[x].status = s /\ doc'[x].version = doc[x].version + 1
          /\ doc'[x].tracked = doc[x].tracked
      BY <3>1, <3>5
    <3>3. doc[x].status = "completed" => s = "completed"
      BY <2>3 DEF Written
    <3>4. /\ doc[x].status \in Written => s \in Written
          /\ s # "running"
      BY <2>3 DEF Written
    <3> QED
      BY <1>1, <2>1, <2>3, <3>2, <3>3, <3>4, <3>6 DEF RecomputeRight
  <2> QED
    BY <1>7, <2>2, <2>3
<1> QED
  BY <1>1, <1>2, <1>4, <1>5, <1>6, <1>7, ThingStep DEF ThingRight

\* A worker begins, stops or has failed, and the queue goes on with a task.
LEMMA QueueSteps ==
    ASSUME Tasks!LedgerConstants, TInv, NEW x \in Tasks!Things,
           Tasks!Fetch(x) \/ Tasks!TimeOut(x) \/ Tasks!Fail(x) \/ Tasks!Due(x) \/ Tasks!Rescue(x)
    PROVE  TInv'
<1> DEFINE T == task[x]
<1>1. /\ T # None /\ T \in Tasks!Task /\ T.revision = T.operations
      /\ task = [y \in Tasks!Things |-> task[y]] /\ work = [y \in Tasks!Things |-> work[y]]
  BY DEF Tasks!Fetch, Tasks!TimeOut, Tasks!Fail, Tasks!Due, Tasks!Rescue, Tasks!At, TInv,
     ThingRight, TaskRight, Tables
<1>2. x \in Recomputes => RecomputeRight(x)
  BY DEF TInv, ThingRight
<1>3. x \in Deliveries => (outbox[x] = "row" => T.state # "completed")
  BY <1>1 DEF TInv, ThingRight, DeliveryRight
<1>4. CASE Tasks!Fetch(x)
  <2> DEFINE n == T.attempt + 1
             t == [T EXCEPT !.state = "running", !.attempt = n]
  <2>1. /\ task' = [task EXCEPT ![x] = t] /\ work' = [work EXCEPT ![x] = "fetched"]
        /\ UNCHANGED <<up, outbox, doc, held, right, made, misled>>
    BY <1>4, <1>1 DEF Tasks!Fetch
  <2>2. n \in Nat
    BY <1>1, TaskFields
  <2> HIDE DEF n
  <2>3. t \in Tasks!Task /\ t.state = "running" /\ t.revision = t.operations
    BY <1>1, <2>2 DEF Tasks!Task
  <2>4. t.marked = T.marked /\ t.cancelled = T.cancelled
    BY <1>1 DEF Tasks!Task
  <2> HIDE DEF t
  <2> QED
    BY <1>1, <1>2, <1>3, <2>1, <2>3, <2>4, TaskStep DEF RecomputeRight
<1>5. CASE Tasks!TimeOut(x)
  <2>1. /\ task' = [task EXCEPT ![x] = T] /\ work' = [work EXCEPT ![x] = "stopped"]
        /\ UNCHANGED <<up, outbox, doc, held, right, made, misled>>
    BY <1>5, <1>1 DEF Tasks!TimeOut
  <2> QED
    BY <1>1, <1>2, <1>3, <2>1, TaskStep DEF RecomputeRight
<1>6. CASE Tasks!Fail(x) \/ Tasks!Rescue(x)
  <2>1. /\ task' = [task EXCEPT ![x] = Tasks!Ended(T)] /\ work' = [work EXCEPT ![x] = "none"]
        /\ UNCHANGED <<up, outbox, doc, held, right, made, misled>>
    BY <1>6 DEF Tasks!Fail, Tasks!Rescue, Tasks!Finalize
  <2> DEFINE t == Tasks!Ended(T)
  <2>2. /\ t \in Tasks!Task /\ t.revision = t.operations
        /\ t.state \in {"cancelled", "discarded", "retryable"}
        /\ t.state = "cancelled" => T.marked
        /\ t.marked = T.marked /\ t.cancelled = T.cancelled
    BY <1>1, EndedRight
  <2>3. task' = [task EXCEPT ![x] = t]
    BY <2>1
  <2> HIDE DEF t
  <2>4. x \in Deliveries => (outbox'[x] = "row" => t.state # "completed")
    BY <2>2
  <2>5. x \in Recomputes =>
            /\ t.state = "cancelled" => doc[x].status \in Written
            /\ t.marked <=> t.cancelled
            /\ t.marked => doc[x].status \in Written
    BY <1>1, <1>2, <2>2 DEF RecomputeRight
  <2> QED
    BY <1>1, <2>1, <2>2, <2>3, <2>4, <2>5, TaskStep
<1>7. CASE Tasks!Due(x)
  <2> DEFINE t == [T EXCEPT !.state = "available"]
  <2>1. /\ task' = [task EXCEPT ![x] = t] /\ work' = [work EXCEPT ![x] = work[x]]
        /\ UNCHANGED <<up, outbox, doc, held, right, made, misled>>
    BY <1>7, <1>1 DEF Tasks!Due
  <2>3. t \in Tasks!Task /\ t.state = "available" /\ t.revision = t.operations
    BY <1>1 DEF Tasks!Task, Tasks!Waiting
  <2>4. t.marked = T.marked /\ t.cancelled = T.cancelled
    BY <1>1 DEF Tasks!Task
  <2> HIDE DEF t
  <2> QED
    BY <1>1, <1>2, <1>3, <2>1, <2>3, <2>4, TaskStep DEF RecomputeRight
<1> QED
  BY <1>4, <1>5, <1>6, <1>7

\* The worker reads its thing, carries it out, and notes or ends the attempt.
LEMMA WorkerSteps ==
    ASSUME Tasks!LedgerConstants, TInv, NEW x \in Tasks!Things,
           \/ Tasks!Work(x) \/ Tasks!Carry(x) \/ Tasks!RecordRecomputeFailure(x)
           \/ x \in Deliveries /\ Tasks!CompleteProjection(x)
           \/ x \in Recomputes /\ Tasks!CompleteRecompute(x)
    PROVE  TInv'
<1> DEFINE T == task[x]
<1>1. /\ T # None /\ T \in Tasks!Task /\ T.revision = T.operations
      /\ task = [y \in Tasks!Things |-> task[y]] /\ work = [y \in Tasks!Things |-> work[y]]
  BY DEF Tasks!Work, Tasks!Carry, Tasks!RecordRecomputeFailure, Tasks!CompleteProjection,
     Tasks!CompleteRecompute, Tasks!At,
         TInv, ThingRight, TaskRight, Tables
<1>2. x \in Recomputes => RecomputeRight(x)
  BY DEF TInv, ThingRight
<1>3. x \in Deliveries => (outbox[x] = "row" => T.state # "completed")
  BY <1>1 DEF TInv, ThingRight, DeliveryRight
<1>4. ASSUME NEW s \in {"completed", "cancelled"}, NEW t, t = [T EXCEPT !.state = s]
      PROVE  /\ t \in Tasks!Task /\ t.revision = t.operations /\ t.state = s
             /\ t.marked = T.marked /\ t.cancelled = T.cancelled
  <2>1. t \in Tasks!Task /\ t.revision = t.operations /\ t.state = s
    BY <1>1, <1>4 DEF Tasks!Task, Tasks!Final
  <2>2. t.marked = T.marked /\ t.cancelled = T.cancelled
    BY <1>1, <1>4 DEF Tasks!Task
  <2> QED
    BY <2>1, <2>2
<1>5. ASSUME NEW s \in {"completed", "cancelled"}, Tasks!Finish(x, s), doc' = doc,
             \/ outbox' = outbox /\ (x \in Deliveries /\ s = "completed" => outbox[x] # "row")
             \/ x \in Deliveries /\ outbox' = [outbox EXCEPT ![x] = "gone"],
             x \in Recomputes => /\ s = "completed" => doc[x].status = "completed"
                                 /\ s = "cancelled" => doc[x].status \in Written
      PROVE  TInv'
  <2> DEFINE t == [T EXCEPT !.state = s]
  <2>1. /\ task' = [task EXCEPT ![x] = t] /\ work' = [work EXCEPT ![x] = "none"]
        /\ UNCHANGED <<up, held, right, made, misled>>
    BY <1>5 DEF Tasks!Finish, Tasks!Finalize
  <2>2. /\ t \in Tasks!Task /\ t.revision = t.operations /\ t.state = s
        /\ t.marked = T.marked /\ t.cancelled = T.cancelled
    BY <1>4
  <2>3. x \in Deliveries => (outbox'[x] = "row" => s # "completed")
    BY <1>5 DEF TInv, Tables
  <2> HIDE DEF t
  <2> QED
    BY <1>1, <1>2, <1>5, <2>1, <2>2, <2>3, TaskStep DEF RecomputeRight
<1>6. CASE Tasks!Work(x)
  <2>1. CASE Tasks!Checked(x) = "go"
    <3>1. /\ work' = [work EXCEPT ![x] = "checked"]
          /\ UNCHANGED <<up, outbox, doc, task, held, right, made, misled>>
      BY <1>6, <2>1 DEF Tasks!Work
    <3>2. x \in Recomputes => doc[x].status # "completed"
      BY <2>1 DEF Tasks!Checked
    <3> QED
      BY <1>1, <3>1, <3>2, DocumentStep
  <2>2. CASE Tasks!Checked(x) # "go"
    <3> DEFINE s == Tasks!Checked(x)
    <3>1. Tasks!Finish(x, s) /\ UNCHANGED <<outbox, doc>>
      BY <1>6, <2>2 DEF Tasks!Work
    <3>2. s \in {"completed", "cancelled"}
      BY <2>2 DEF Tasks!Checked
    <3>3. x \in Deliveries /\ s = "completed" => outbox[x] # "row"
      BY DEF Tasks!Checked, Tasks!LedgerConstants, Tasks!Stopped
    <3>4. ASSUME x \in Recomputes
          PROVE  /\ s = "completed" => doc[x].status = "completed"
                 /\ s = "cancelled" => doc[x].status \in Written
      BY <1>1, <1>2, <2>2, <3>4
         DEF Tasks!Checked, Tasks!LedgerConstants, Tasks!Stopped, RecomputeRight, Written
    <3> HIDE DEF s
    <3> QED
      BY <1>5, <3>1, <3>2, <3>3, <3>4
  <2> QED
    BY <2>1, <2>2
<1>7. CASE Tasks!Carry(x)
  <2>1. UNCHANGED <<up, outbox, task, held, right, made, misled>> /\ work[x] = "checked"
    BY <1>7 DEF Tasks!Carry, Tasks!At
  <2>2. CASE work' = [work EXCEPT ![x] = "failed"] /\ UNCHANGED doc
    BY <1>1, <1>2, <2>1, <2>2, DocumentStep DEF RecomputeRight
  <2>3. CASE /\ work' = [work EXCEPT ![x] = "done"]
             /\ doc' = IF x \in Deliveries THEN doc
                       ELSE [doc EXCEPT ![x].status = "completed", ![x].version = @ + 1]
    <3>1. x \in Deliveries => doc' = doc
      BY <2>3
    <3>2. x \in Recomputes => doc' = [doc EXCEPT ![x].status = "completed",
                                                 ![x].version = doc[x].version + 1]
      BY <2>3 DEF Tasks!LedgerConstants
    <3> QED
      BY <1>1, <2>1, <2>3, <3>1, <3>2, DocumentStep
  <2> QED
    BY <1>7, <2>2, <2>3 DEF Tasks!Carry
<1>8. CASE Tasks!RecordRecomputeFailure(x)
  <2>1. /\ UNCHANGED <<up, outbox, task, held, right, made, misled>> /\ work[x] = "failed"
        /\ work' = [work EXCEPT ![x] = "stopped"]
    BY <1>8 DEF Tasks!RecordRecomputeFailure, Tasks!At
  <2>2. CASE x \in Deliveries \/ Tasks!Stopped(x)
    <3>1. doc' = doc
      BY <1>8, <2>2 DEF Tasks!RecordRecomputeFailure
    <3> QED
      BY <1>1, <2>1, <3>1, DocumentStep
  <2>3. CASE ~(x \in Deliveries \/ Tasks!Stopped(x))
    <3>1. doc' = [doc EXCEPT ![x].status = "failed", ![x].version = doc[x].version + 1]
      BY <1>8, <2>3 DEF Tasks!RecordRecomputeFailure
    <3>2. x \in Recomputes /\ doc[x].status \notin Written
      BY <1>2, <2>1, <2>3 DEF Tasks!Things, Tasks!Stopped, RecomputeRight, Written
    <3> QED
      BY <1>1, <2>1, <2>3, <3>1, <3>2, DocumentStep
  <2> QED
    BY <2>2, <2>3
<1>9. CASE x \in Deliveries /\ Tasks!CompleteProjection(x)
  <2>1. /\ Tasks!Finish(x, "completed") /\ outbox' = [outbox EXCEPT ![x] = "gone"] /\ doc' = doc
        /\ x \notin Recomputes
    BY <1>9 DEF Tasks!CompleteProjection, Tasks!LedgerConstants
  <2> QED
    BY <1>5, <1>9, <2>1
<1>10. CASE x \in Recomputes /\ Tasks!CompleteRecompute(x)
  <2> DEFINE s == IF T.cancelled THEN "cancelled" ELSE "completed"
  <2>1. /\ Tasks!Finish(x, s) /\ outbox' = outbox /\ doc' = doc /\ work[x] = "done"
        /\ x \notin Deliveries
    BY <1>10 DEF Tasks!CompleteRecompute, Tasks!At, Tasks!LedgerConstants
  <2>2. doc[x].status = "completed" /\ s \in {"completed", "cancelled"}
    BY <1>2, <1>10, <2>1 DEF RecomputeRight
  <2> HIDE DEF s
  <2> QED
    BY <1>5, <2>1, <2>2 DEF Written
<1> QED
  BY <1>6, <1>7, <1>8, <1>9, <1>10

\* A task is made where there is none.
LEMMA Enqueued ==
    ASSUME Tasks!LedgerConstants, TInv, NEW x \in Tasks!Things, Tasks!EnqueueTask(x)
    PROVE  /\ task' = [y \in Tasks!Things |-> task'[y]]
           /\ \A y \in Tasks!Things \ {x} : task'[y] = task[y]
           /\ task'[x] = IF task[x] = None THEN Tasks!NewTask ELSE task[x]
           /\ task'[x] # None /\ TaskRight(x)'
<1>1. /\ task' = [y \in Tasks!Things |-> task'[y]]
      /\ \A y \in Tasks!Things \ {x} : task'[y] = task[y]
      /\ task'[x] = IF task[x] = None THEN Tasks!NewTask ELSE task[x]
  BY DEF TInv, Tables, Tasks!EnqueueTask
<1>2. Tasks!NewTask # None
  BY NewTaskRight DEF Tasks!LedgerConstants
<1>3. TaskRight(x)
  BY DEF TInv, ThingRight
<1>4. task'[x] # None /\ TaskRight(x)'
  BY <1>1, <1>2, <1>3, NewTaskRight DEF TaskRight
<1> QED
  BY <1>1, <1>4

LEMMA EnqueueSteps ==
    ASSUME Tasks!LedgerConstants, TInv, NEW d \in Deliveries,
           \/ Tasks!Enqueue(d)
           \/ Tasks!ReconcileTask(d)
    PROVE  TInv'
<1>1. /\ d \in Tasks!Things /\ d \notin Recomputes
  BY DEF Tasks!Things, Tasks!LedgerConstants
<1>2. /\ Tasks!EnqueueTask(d) /\ UNCHANGED <<up, doc, work, held, right, made, misled>>
      /\ \/ outbox[d] = "none" /\ outbox' = [outbox EXCEPT ![d] = "row"]
         \/ outbox[d] = "row" /\ outbox' = outbox
  BY <1>1 DEF Tasks!Enqueue, Tasks!ReconcileTask, Tasks!ToAdopt
<1>3. /\ task' = [y \in Tasks!Things |-> task'[y]]
      /\ \A y \in Tasks!Things \ {d} : task'[y] = task[y]
      /\ task'[d] = IF task[d] = None THEN Tasks!NewTask ELSE task[d]
      /\ task'[d] # None /\ TaskRight(d)'
  BY <1>1, <1>2, Enqueued
<1>4. Tables' /\ misled' = FALSE
  BY <1>2, <1>3 DEF TInv, Tables
<1>5. Only(d)
  BY <1>2, <1>3 DEF Only, TInv, Tables
<1>6. DeliveryRight(d)'
  <2>1. DeliveryRight(d) /\ outbox'[d] = "row"
    BY <1>1, <1>2 DEF TInv, ThingRight, Tables
  <2>2. task'[d].state # "completed"
    BY <1>2, <1>3, <2>1, NewTaskRight DEF DeliveryRight
  <2> QED
    BY <1>3, <2>1, <2>2 DEF DeliveryRight
<1> QED
  BY <1>1, <1>3, <1>4, <1>5, <1>6, ThingStep DEF ThingRight

\* A recomputation of an earlier version gets its task.
LEMMA AdoptStep ==
    ASSUME Tasks!LedgerConstants, TInv, NEW r \in Recomputes, Tasks!AdoptRecompute(r),
           ~doc[r].tracked, doc[r].status \in {"running", "failed"},
           UNCHANGED <<up, outbox, work, right>>, misled' = FALSE,
           held' = [o \in Operators |-> held'[o]],
           \A o \in Operators : held'[o] \in {held[o], None}
    PROVE  TInv'
<1>1. /\ r \in Tasks!Things /\ r \notin Deliveries /\ RecomputeRight(r)
  BY DEF Tasks!Things, Tasks!LedgerConstants, TInv, ThingRight
<1>2. Tasks!EnqueueTask(r) /\ task[r] = None /\ made[r] = 0
  BY <1>1 DEF Tasks!AdoptRecompute, RecomputeRight
<1>3. /\ task' = [y \in Tasks!Things |-> task'[y]]
      /\ \A y \in Tasks!Things \ {r} : task'[y] = task[y]
      /\ task'[r] = Tasks!NewTask /\ task'[r] # None /\ TaskRight(r)'
  BY <1>1, <1>2, Enqueued
<1>4. /\ doc' = [q \in Recomputes |-> doc'[q]] /\ made' = [q \in Recomputes |-> made'[q]]
      /\ \A q \in Recomputes \ {r} : doc'[q] = doc[q] /\ made'[q] = made[q]
      /\ doc'[r] = [status |-> "running", tracked |-> TRUE, version |-> doc[r].version + 1]
      /\ made'[r] = 1
  <2>1. /\ doc = [q \in Recomputes |-> doc[q]] /\ made = [q \in Recomputes |-> made[q]]
    BY DEF TInv, Tables
  <2> DEFINE b == [status |-> "running", tracked |-> TRUE, version |-> doc[r].version + 1]
  <2>2. doc' = [doc EXCEPT ![r] = b] /\ made' = [made EXCEPT ![r] = made[r] + 1]
    BY <2>1 DEF Tasks!AdoptRecompute
  <2>3. made'[r] = 1
    BY <1>2, <2>1, <2>2
  <2> HIDE DEF b
  <2>4. /\ doc' = [q \in Recomputes |-> doc'[q]] /\ doc'[r] = b
        /\ \A q \in Recomputes \ {r} : doc'[q] = doc[q]
    BY <2>1, <2>2
  <2>5. /\ made' = [q \in Recomputes |-> made'[q]]
        /\ \A q \in Recomputes \ {r} : made'[q] = made[q]
    BY <2>1, <2>2
  <2> QED
    BY <2>3, <2>4, <2>5 DEF b
<1>5. Tables'
  BY <1>3, <1>4 DEF TInv, Tables
<1>6. Only(r)
  BY <1>1, <1>3, <1>4 DEF Only
<1>7. RecomputeRight(r)'
  <2>1. /\ doc'[r] = [f \in {"status", "tracked", "version"} |-> doc'[r][f]]
        /\ doc'[r].status = "running" /\ doc'[r].tracked = TRUE
    BY <1>4
  <2>2. doc'[r].version \in Nat \ {0}
    BY <1>1, <1>4 DEF RecomputeRight
  <2>3. work'[r] # "done"
    BY <1>1 DEF RecomputeRight
  <2> QED
    BY <1>3, <1>4, <2>1, <2>2, <2>3, NewTaskRight DEF RecomputeRight
<1> QED
  BY <1>1, <1>3, <1>5, <1>6, <1>7, ThingStep DEF ThingRight

LEMMA AdoptSteps ==
    ASSUME Tasks!LedgerConstants, TInv,
           \/ \E r \in Recomputes : Tasks!ReconcileTask(r)
           \/ \E o \in Operators : Tasks!AdoptFailedRecompute(o)
    PROVE  TInv'
<1>1. ASSUME NEW r \in Recomputes, Tasks!ReconcileTask(r)
      PROVE  TInv'
  <2>1. /\ Tasks!AdoptRecompute(r) /\ UNCHANGED <<up, outbox, work, held, right, misled>>
        /\ ~doc[r].tracked /\ doc[r].status = "running"
    BY <1>1 DEF Tasks!ReconcileTask, Tasks!ToAdopt, Tasks!LedgerConstants
  <2>2. /\ misled' = FALSE /\ held' = [o \in Operators |-> held'[o]]
        /\ \A o \in Operators : held'[o] \in {held[o], None}
    BY <2>1 DEF TInv, Tables
  <2> QED
    BY <2>1, <2>2, AdoptStep
<1>2. ASSUME NEW o \in Operators, Tasks!AdoptFailedRecompute(o)
      PROVE  TInv'
  <2> DEFINE h == held[o]
  <2>1. /\ up = "up" /\ h # None /\ h.version > 0 /\ held' = [held EXCEPT ![o] = None]
        /\ UNCHANGED <<up, outbox, work, right>>
    BY <1>2 DEF Tasks!AdoptFailedRecompute
  <2>6. HeldRight(o)
    BY DEF TInv
  <2>2. PICK x \in Recomputes : x = h.thing
    BY <2>1, <2>6 DEF HeldRight
  <2>3. /\ held' = [p \in Operators |-> held'[p]]
        /\ \A p \in Operators : held'[p] \in {held[p], None}
    BY <2>1 DEF TInv, Tables
  <2>4. CASE Tasks!Allowed(h) /\ Tasks!Adoptable(h)
    <3>1. Tasks!AdoptRecompute(x) /\ misled' = (misled \/ ~right.may)
      BY <1>2, <2>2, <2>4 DEF Tasks!AdoptFailedRecompute
    <3>2. right.may
      BY <2>1, <2>6, <2>4 DEF HeldRight, Tasks!Allowed
    <3>3. misled' = FALSE
      BY <3>1, <3>2 DEF TInv
    <3>4. ~doc[x].tracked /\ doc[x].status = "failed"
      BY <2>2, <2>4 DEF Tasks!Adoptable
    <3> QED
      BY <2>1, <2>2, <2>3, <3>1, <3>3, <3>4, AdoptStep
  <2>5. CASE ~(Tasks!Allowed(h) /\ Tasks!Adoptable(h))
    <3>1. UNCHANGED <<doc, task, made, misled>>
      BY <1>2, <2>5 DEF Tasks!AdoptFailedRecompute
    <3>2. x \in Tasks!Things /\ ThingRight(x)
      BY <2>2 DEF TInv, Tasks!Things
    <3>3. Tables' /\ misled' = FALSE
      BY <2>1, <2>3, <3>1 DEF TInv, Tables
    <3>4. Only(x)
      BY <2>1, <2>3, <3>1 DEF Only
    <3>5. ThingRight(x)'
      BY <2>1, <3>1, <3>2 DEF ThingRight, TaskRight, DeliveryRight, RecomputeRight
    <3> QED
      BY <3>2, <3>3, <3>4, <3>5, ThingStep
  <2> QED
    BY <2>4, <2>5
<1> QED
  BY <1>1, <1>2

\* An operator cancels or retries what he has read.
LEMMA ChangeSteps ==
    ASSUME Tasks!LedgerConstants, TInv, NEW o \in Operators, NEW action \in {"cancel", "retry"},
           Tasks!Change(o, action)
    PROVE  TInv'
<1> DEFINE h == held[o]
           retried == action = "retry"
<1>1. /\ h # None /\ h.version = 0 /\ h.right > 0 /\ held' = [held EXCEPT ![o] = None]
      /\ UNCHANGED <<up, outbox, work, right, made>>
  BY DEF Tasks!Change
<1>2. HeldRight(o)
  BY DEF TInv
<1>3. PICK x \in Tasks!Things : x = h.thing /\ task[x] # None
  BY <1>1, <1>2 DEF HeldRight
<1>4. ThingRight(x)
  BY DEF TInv
<1>5. /\ held' = [p \in Operators |-> held'[p]]
      /\ \A p \in Operators : held'[p] \in {held[p], None}
  BY <1>1 DEF TInv, Tables
<1>6. CASE /\ Tasks!Allowed(h) /\ Tasks!SameOperation(h)
           /\ IF action = "cancel" THEN Tasks!CanCancel(x) ELSE Tasks!CanRetry(x)
  <2> DEFINE s == IF action = "cancel" THEN "cancelled" ELSE "running"
             u == Tasks!AdvanceOperation(
                      IF retried THEN Tasks!JobRetry(task[x]) ELSE Tasks!JobCancel(task[x]),
                      retried)
  <2>1. /\ task' = [task EXCEPT ![x] = u]
        /\ doc' = IF x \in Deliveries \/ doc[x].status = "completed" THEN doc
                  ELSE [doc EXCEPT ![x].status = s, ![x].version = doc[x].version + 1]
        /\ misled' = (misled \/ h.seen # task[x].operations \/ ~right.may)
    BY <1>3, <1>6 DEF Tasks!Change
  <2>2. task[x] \in Tasks!Task /\ task[x].revision = task[x].operations /\ retried \in BOOLEAN
    BY <1>3, <1>4 DEF ThingRight, TaskRight
  <2>3. h.token.revision = task[x].revision
    BY <1>3, <1>6 DEF Tasks!SameOperation, Tasks!Token
  <2>4. right.may
    BY <1>1, <1>2, <1>6 DEF HeldRight, Tasks!Allowed
  <2>5. misled' = FALSE
    <3>1. h.seen = task[x].operations
      BY <1>1, <1>2, <2>2, <2>3 DEF HeldRight
    <3> QED
      BY <2>1, <2>4, <3>1 DEF TInv
  <2>6. /\ u \in Tasks!Task /\ u.revision = u.operations
        /\ u.marked = ~retried /\ u.cancelled = ~retried
        /\ u.state \in IF retried THEN {"available"} ELSE {"running", "cancelled"}
    BY ZenonT(40), <2>2, Operated
  <2> HIDE DEF u
  <2>7. /\ task' = [y \in Tasks!Things |-> task'[y]] /\ task'[x] = u
        /\ \A y \in Tasks!Things \ {x} : task'[y] = task[y]
    BY <2>1 DEF TInv, Tables
  <2>8. u # None /\ u.state # "completed"
    BY <2>6 DEF Tasks!LedgerConstants
  <2>9. /\ doc' = [r \in Recomputes |-> doc'[r]]
        /\ \A r \in Recomputes \ {x} : doc'[r] = doc[r]
    BY <2>1 DEF TInv, Tables, Tasks!Things
  <2>10. Tables'
    BY <1>1, <1>5, <2>7, <2>9 DEF TInv, Tables
  <2>11. Only(x)
    BY <1>1, <1>5, <2>7, <2>8, <2>9 DEF Only
  <2>12. TaskRight(x)'
    BY <2>6, <2>7 DEF TaskRight
  <2>13. x \in Deliveries => DeliveryRight(x)'
    BY <1>1, <1>3, <1>4, <2>7, <2>8 DEF DeliveryRight, ThingRight
  <2>14. ASSUME x \in Recomputes PROVE RecomputeRight(x)'
    <3>1. x \notin Deliveries /\ RecomputeRight(x) /\ doc = [r \in Recomputes |-> doc[r]]
      BY <1>4, <2>14 DEF ThingRight, Tasks!LedgerConstants, TInv, Tables
    <3>2. CASE doc[x].status = "completed"
      <4>1. doc' = doc /\ ~retried
        BY <1>6, <2>1, <2>14, <3>2 DEF Tasks!CanRetry
      <4> QED
        BY <1>1, <1>3, <2>6, <2>7, <2>8, <3>1, <3>2, <4>1 DEF RecomputeRight, Written
    <3>3. CASE doc[x].status # "completed"
      <4>1. doc' = [doc EXCEPT ![x].status = s, ![x].version = doc[x].version + 1]
        BY <2>1, <3>1, <3>3
      <4>2. doc'[x] = [doc[x] EXCEPT !.status = s, !.version = doc[x].version + 1]
        BY <2>14, <3>1, <4>1
      <4>3. doc[x] = [f \in {"status", "tracked", "version"} |-> doc[x][f]]
        BY <3>1 DEF RecomputeRight
      <4>4. doc'[x] = [f \in {"status", "tracked", "version"} |-> doc'[x][f]]
        BY <4>2, <4>3
      <4>5. /\ doc'[x].status = s /\ doc'[x].version = doc[x].version + 1
            /\ doc'[x].tracked = doc[x].tracked
        BY <4>2, <4>3
      <4>6. /\ s # "completed" /\ (~retried => s \in Written)
            /\ u.state = "cancelled" => ~retried
        BY <2>6 DEF Written
      <4>7. doc[x].tracked
        BY <1>3, <3>1 DEF RecomputeRight
      <4>8. work[x] # "done"
        BY <3>1, <3>3 DEF RecomputeRight
      <4> HIDE DEF s
      <4>9. /\ doc'[x].version \in Nat \ {0} /\ doc'[x].tracked \in BOOLEAN
            /\ doc'[x].tracked <=> task'[x] # None
            /\ made'[x] = IF doc'[x].tracked THEN 1 ELSE 0
        <5>1. RecomputeRight(x) /\ made'[x] = made[x] /\ task[x] # None /\ task'[x] # None
          BY <1>1, <1>3, <2>7, <2>8, <3>1
        <5> QED
          BY <4>5, <5>1 DEF RecomputeRight
      <4>10. /\ up' = "up" /\ doc'[x].status = "running" => doc'[x].tracked
             /\ work'[x] \in {"checked", "failed"} => doc'[x].status # "completed"
             /\ work'[x] = "done" => doc'[x].status = "completed"
        BY <1>1, <4>5, <4>6, <4>7, <4>8
      <4>11. /\ task'[x].state = "completed" => doc'[x].status = "completed"
             /\ task'[x].state = "cancelled" => doc'[x].status \in Written
             /\ task'[x].marked <=> task'[x].cancelled
             /\ task'[x].marked => doc'[x].status \in Written
        BY <2>6, <2>7, <2>8, <4>5, <4>6
      <4> QED
        BY <4>4, <4>9, <4>10, <4>11 DEF RecomputeRight
    <3> QED
      BY <3>2, <3>3
  <2> QED
    BY <2>5, <2>10, <2>11, <2>12, <2>13, <2>14, ThingStep DEF ThingRight
<1>7. CASE ~(/\ Tasks!Allowed(h) /\ Tasks!SameOperation(h)
             /\ IF action = "cancel" THEN Tasks!CanCancel(x) ELSE Tasks!CanRetry(x))
  <2>1. UNCHANGED <<task, doc, misled>>
    BY <1>3, <1>7 DEF Tasks!Change
  <2>2. Tables' /\ misled' = FALSE
    BY <1>1, <1>5, <2>1 DEF TInv, Tables
  <2>3. Only(x)
    BY <1>1, <1>5, <2>1 DEF Only
  <2>4. ThingRight(x)'
    BY <1>1, <1>4, <2>1 DEF ThingRight, TaskRight, DeliveryRight, RecomputeRight
  <2> QED
    BY <2>2, <2>3, <2>4, ThingStep
<1> QED
  BY <1>6, <1>7

\* An operator reads a task or a job, or is authorized.
LEMMA ReadSteps ==
    ASSUME Tasks!LedgerConstants, TInv, NEW o \in Operators,
           \/ \E x \in Tasks!Things : Tasks!GetTask(o, x)
           \/ \E r \in Recomputes : Tasks!GetJob(o, r)
           \/ Tasks!Authorize(o)
    PROVE  TInv'
<1>1. /\ UNCHANGED <<up, outbox, doc, task, work, right, made, misled>>
      /\ held' = [p \in Operators |-> held'[p]]
      /\ \A p \in Operators \ {o} : held'[p] = held[p]
  BY DEF Tasks!GetTask, Tasks!GetJob, Tasks!Authorize, TInv, Tables
<1>2. Tables' /\ misled' = FALSE
  BY <1>1 DEF TInv, Tables
<1>3. \A x \in Tasks!Things : ThingRight(x)'
  BY <1>1 DEF TInv, ThingRight, TaskRight, DeliveryRight, RecomputeRight
<1>4. ASSUME NEW p \in Operators, p # o PROVE HeldRight(p)'
  BY <1>1, <1>4 DEF TInv, HeldRight
<1>5. HeldRight(o)'
  <2>1. right.revision \in Nat \ {0} /\ held = [p \in Operators |-> held[p]]
    BY DEF TInv, Tables
  <2>2. ASSUME NEW x \in Tasks!Things, Tasks!GetTask(o, x) PROVE HeldRight(o)'
    <3>1. /\ task[x] # None /\ task'[x] # None
          /\ held'[o] = [thing |-> x, token |-> Tasks!Token(x), version |-> 0,
                         seen |-> task[x].operations, right |-> 0]
      BY <2>1, <2>2 DEF Tasks!GetTask
    <3>2. Tasks!Token(x).revision = task[x].revision
      BY DEF Tasks!Token
    <3>3. task[x].revision = task[x].operations
      BY <3>1 DEF TInv, ThingRight, TaskRight
    <3> QED
      BY <1>1, <2>1, <3>1, <3>2, <3>3 DEF HeldRight
  <2>3. ASSUME NEW r \in Recomputes, Tasks!GetJob(o, r) PROVE HeldRight(o)'
    <3>1. /\ right.may
          /\ held'[o] = [thing |-> r, token |-> None, version |-> doc[r].version, seen |-> 0,
                         right |-> right.revision]
      BY <2>1, <2>3 DEF Tasks!GetJob
    <3>2. doc[r].version \in Nat \ {0}
      BY DEF TInv, ThingRight, RecomputeRight, Tasks!Things
    <3> QED
      BY <1>1, <2>1, <3>1, <3>2 DEF HeldRight
  <2>4. ASSUME Tasks!Authorize(o) PROVE HeldRight(o)'
    <3>1. /\ right.may /\ held[o] # None
          /\ held'[o] = [held[o] EXCEPT !.right = right.revision]
      BY <2>1, <2>4 DEF Tasks!Authorize
    <3> QED
      BY <1>1, <2>1, <3>1 DEF TInv, HeldRight
  <2> QED
    BY <2>2, <2>3, <2>4
<1> QED
  BY <1>2, <1>3, <1>4, <1>5 DEF TInv

\* The process starts and ends, and rights change.
LEMMA ProcessSteps ==
    ASSUME Tasks!LedgerConstants, TInv,
           \/ Tasks!Start \/ Tasks!ReconcileTasks \/ Tasks!Crash \/ Tasks!ChangeRight
           \/ UNCHANGED Tasks!vars
    PROVE  TInv'
<1>1. CASE Tasks!Start \/ UNCHANGED Tasks!vars
  <2>1. /\ UNCHANGED <<outbox, doc, task, work, held, right, made, misled>>
        /\ up' = "up" => up = "up"
    BY <1>1 DEF Tasks!Start, Tasks!vars
  <2> QED
    BY ZenonT(40), <2>1
       DEF TInv, Tables, ThingRight, TaskRight, DeliveryRight, RecomputeRight, HeldRight
<1>2. CASE Tasks!ReconcileTasks
  <2>1. UNCHANGED <<outbox, doc, task, work, held, right, made, misled>> /\ Tasks!ToAdopt = {}
    BY <1>2 DEF Tasks!ReconcileTasks
  <2>2. ASSUME NEW x \in Tasks!Things PROVE ThingRight(x)'
    <3>1. ThingRight(x)
      BY DEF TInv
    <3>2. TaskRight(x)'
      BY <2>1, <3>1 DEF ThingRight, TaskRight
    <3>3. x \in Deliveries => DeliveryRight(x)'
      BY <2>1, <3>1 DEF ThingRight, DeliveryRight, Tasks!ToAdopt
    <3>4. x \in Recomputes => RecomputeRight(x)'
      <4>1. x \in Recomputes /\ doc[x].status = "running" => doc[x].tracked
        BY <2>1 DEF Tasks!ToAdopt
      <4> QED
        BY <2>1, <3>1, <4>1 DEF ThingRight, RecomputeRight
    <3> QED
      BY <3>2, <3>3, <3>4 DEF ThingRight
  <2>3. Tables' /\ ~misled' /\ \A o \in Operators : HeldRight(o)'
    BY <2>1 DEF TInv, Tables, HeldRight
  <2> QED
    BY <2>2, <2>3 DEF TInv
<1>3. CASE Tasks!Crash
  <2>1. /\ UNCHANGED <<outbox, doc, task, right, made, misled>> /\ up' = "down"
        /\ work' = [x \in Tasks!Things |-> "none"] /\ held' = [o \in Operators |-> None]
    BY <1>3 DEF Tasks!Crash
  <2>2. \A x \in Tasks!Things : ThingRight(x)'
    BY <2>1 DEF TInv, Tasks!Things, ThingRight, TaskRight, DeliveryRight, RecomputeRight
  <2>3. Tables' /\ ~misled' /\ \A o \in Operators : HeldRight(o)'
    BY <2>1 DEF TInv, Tables, HeldRight
  <2> QED
    BY <2>2, <2>3 DEF TInv
<1>4. CASE Tasks!ChangeRight
  <2>1. /\ UNCHANGED <<up, outbox, doc, task, work, held, made, misled>>
        /\ right' = [may |-> ~right.may, revision |-> right.revision + 1]
    BY <1>4 DEF Tasks!ChangeRight
  <2>2. \A x \in Tasks!Things : ThingRight(x)'
    BY <2>1 DEF TInv, ThingRight, TaskRight, DeliveryRight, RecomputeRight
  <2>3. Tables' /\ ~misled'
    BY <2>1 DEF TInv, Tables
  <2>4. ASSUME NEW o \in Operators PROVE HeldRight(o)'
    <3>1. HeldRight(o) /\ right.revision \in Nat /\ right'.revision = right.revision + 1
      BY <2>1 DEF TInv, Tables
    <3> QED
      BY <2>1, <3>1 DEF HeldRight
  <2> QED
    BY <2>2, <2>3, <2>4 DEF TInv
<1> QED
  BY <1>1, <1>2, <1>3, <1>4

LEMMA LedgerInit ==
    ASSUME Tasks!LedgerConstants, Tasks!Init
    PROVE  TInv
<1>1. Tables
  BY DEF Tasks!Init, Tables
<1>2. ASSUME NEW d \in Deliveries PROVE DeliveryRight(d)
  BY DEF Tasks!Init, DeliveryRight, Tasks!Things
<1>3. ASSUME NEW r \in Recomputes PROVE RecomputeRight(r)
  <2>1. doc[r] \in [status : {"running", "failed"}, tracked : {FALSE}, version : {1}]
    BY DEF Tasks!Init
  <2>2. /\ doc[r] = [f \in {"status", "tracked", "version"} |-> doc[r][f]]
        /\ doc[r].version = 1
    BY <2>1
  <2>3. doc[r].tracked = FALSE
    BY <2>1
  <2>4. task[r] = None /\ made[r] = 0 /\ work[r] = "none" /\ up = "down"
    BY DEF Tasks!Init, Tasks!Things
  <2>5. made[r] = IF doc[r].tracked THEN 1 ELSE 0
    BY <2>3, <2>4
  <2>6. doc[r].tracked <=> task[r] # None
    BY <2>3, <2>4
  <2>7. doc[r].version \in Nat \ {0}
    BY <2>2
  <2>8. doc[r].tracked \in BOOLEAN
    BY <2>3
  <2> QED
    BY <2>2, <2>4, <2>5, <2>6, <2>7, <2>8 DEF RecomputeRight
<1>4. ASSUME NEW x \in Tasks!Things PROVE TaskRight(x)
  BY DEF Tasks!Init, TaskRight
<1>5. (\A o \in Operators : HeldRight(o)) /\ ~misled
  BY DEF Tasks!Init, HeldRight
<1> QED
  BY <1>1, <1>2, <1>3, <1>4, <1>5 DEF TInv, ThingRight

LEMMA LedgerKeeps ==
    ASSUME Tasks!LedgerConstants, TInv, [Tasks!Next]_(Tasks!vars)
    PROVE  TInv'
<1>1. CASE \/ Tasks!Start \/ Tasks!ReconcileTasks \/ Tasks!Crash \/ Tasks!ChangeRight
           \/ UNCHANGED Tasks!vars
  BY <1>1, ProcessSteps
<1>2. ASSUME NEW x \in Tasks!Things,
             \/ Tasks!Fetch(x) \/ Tasks!TimeOut(x) \/ Tasks!Fail(x) \/ Tasks!Due(x) \/ Tasks!Rescue(x)
             \/ Tasks!Work(x) \/ Tasks!Carry(x) \/ Tasks!RecordRecomputeFailure(x)
      PROVE  TInv'
  BY <1>2, QueueSteps, WorkerSteps
<1>3. ASSUME NEW x \in Tasks!Things, Tasks!ReconcileTask(x)
      PROVE  TInv'
  BY <1>3, EnqueueSteps, AdoptSteps DEF Tasks!Things
<1>4. ASSUME NEW d \in Deliveries, Tasks!Enqueue(d) \/ Tasks!CompleteProjection(d)
      PROVE  TInv'
  BY <1>4, EnqueueSteps, WorkerSteps DEF Tasks!Things
<1>5. ASSUME NEW r \in Recomputes, Tasks!CompleteRecompute(r)
      PROVE  TInv'
  BY <1>5, WorkerSteps DEF Tasks!Things
<1>6. ASSUME NEW o \in Operators,
             \/ \E x \in Tasks!Things : Tasks!GetTask(o, x)
             \/ \E r \in Recomputes : Tasks!GetJob(o, r)
             \/ Tasks!Authorize(o)
      PROVE  TInv'
  BY <1>6, ReadSteps
<1>7. ASSUME NEW o \in Operators,
             \/ Tasks!AdoptFailedRecompute(o)
             \/ \E action \in {"cancel", "retry"} : Tasks!Change(o, action)
      PROVE  TInv'
  BY <1>7, AdoptSteps, ChangeSteps
<1> QED
  BY <1>1, <1>2, <1>3, <1>4, <1>5, <1>6, <1>7 DEF Tasks!Next

LEMMA LedgerSound ==
    ASSUME Tasks!LedgerConstants, TInv
    PROVE  /\ Tasks!OperatorsSeeWhatTheyChange /\ Tasks!AdoptedOnce
           /\ Tasks!NothingWithoutTask /\ Tasks!EndsAlike
<1>1. Tasks!OperatorsSeeWhatTheyChange
  BY DEF TInv, Tasks!OperatorsSeeWhatTheyChange
<1>2. ASSUME NEW r \in Recomputes PROVE RecomputeRight(r) /\ r \in Tasks!Things
  BY DEF TInv, ThingRight, Tasks!Things
<1>3. Tasks!AdoptedOnce
  <2>1. ASSUME NEW r \in Recomputes PROVE made[r] \in {0, 1}
    BY <1>2 DEF RecomputeRight
  <2> QED
    BY <2>1 DEF Tasks!AdoptedOnce
<1>4. Tasks!NothingWithoutTask
  <2>1. ASSUME NEW d \in Deliveries PROVE DeliveryRight(d)
    BY DEF TInv, ThingRight, Tasks!Things
  <2>2. ASSUME up = "up", NEW r \in Recomputes, doc[r].status = "running"
        PROVE  task[r] # None /\ task[r].state # "completed"
    BY <1>2, <2>2 DEF RecomputeRight
  <2> QED
    BY <2>1, <2>2 DEF Tasks!NothingWithoutTask, DeliveryRight
<1>5. Tasks!EndsAlike
  BY <1>2 DEF RecomputeRight, Tasks!EndsAlike, Written
<1> QED
  BY <1>1, <1>3, <1>4, <1>5

\* A recomputation is adopted once, a delivery and a computation have a
\* task, a task and its document end alike, and operators change what they
\* have read (ReconcileTasks, AdoptFailedRecompute, ChangeTask).
THEOREM TasksAreSound ==
    Tasks!LedgerConstants =>
        (Tasks!Init /\ [][Tasks!Next]_(Tasks!vars) =>
            [](/\ Tasks!OperatorsSeeWhatTheyChange /\ Tasks!AdoptedOnce
               /\ Tasks!NothingWithoutTask /\ Tasks!EndsAlike))
<1> DEFINE Sure == /\ Tasks!OperatorsSeeWhatTheyChange /\ Tasks!AdoptedOnce
                   /\ Tasks!NothingWithoutTask /\ Tasks!EndsAlike
<1> SUFFICES ASSUME Tasks!LedgerConstants
             PROVE  Tasks!Init /\ [][Tasks!Next]_(Tasks!vars) => []Sure
  OBVIOUS
<1>1. Tasks!Init => TInv
  BY LedgerInit
<1>2. TInv /\ [Tasks!Next]_(Tasks!vars) => TInv'
  BY LedgerKeeps
<1>3. TInv => Sure
  BY LedgerSound
<1> QED
  BY <1>1, <1>2, <1>3, PTL

-----------------------------------------------------------------------------
(* The buffer of a gateway.  A row is marked as completed by name, without  *)
(* a look at it, so that it is true rests on the sender (Delivered); that   *)
(* an accepted reading was stored rests on the call having one reading.     *)
RowState == [st : {"absent", "pending", "sending", "completed"}, lapsed : BOOLEAN, old : BOOLEAN]
RowStates == [BufferReadings -> RowState]
Sender == [pc : {"idle", "room", "claim", "send", "settle"}, batch : SUBSET BufferReadings,
           ok : BOOLEAN]
BufferTyped == bufferRow \in RowStates
SendersTyped ==
    /\ bufferCall \in Sender /\ bufferReplay \in Sender
    /\ bufferCall.pc = "room" => \E m \in BufferReadings : bufferCall.batch = {m}

Delivered == \A s \in Buffer!Senders : s.ok => s.batch \subseteq received
Retained == promised \subseteq Buffer!Stored \cup received \cup bufferGaps \cup reported
Completed == \A m \in BufferReadings : bufferRow[m].st = "completed" => m \in received

BInv == BufferTyped /\ SendersTyped /\ Delivered /\ Retained /\ Completed

LEMMA BufferInit ==
    ASSUME Buffer!Init
    PROVE  BInv
  BY DEF Buffer!Init, Buffer!Absent, Buffer!Idle, Buffer!Senders, BInv, BufferTyped, Delivered,
         SendersTyped, RowStates, RowState, Sender, Retained, Completed

\* A row that goes was completed or has a gap; one that is completed was at
\* the broker; nothing else is asked of a step.
LEMMA RowsMove ==
    ASSUME BInv, promised' = promised,
           BufferTyped',
           received \subseteq received', reported \subseteq reported',
           bufferGaps \subseteq bufferGaps' \cup reported',
           \A m \in BufferReadings :
              /\ bufferRow'[m].st = "absent" /\ bufferRow[m].st \notin {"absent", "completed"}
                   => m \in bufferGaps'
              /\ bufferRow'[m].st = "completed" /\ bufferRow[m].st # "completed"
                   => m \in received'
    PROVE  Retained' /\ Completed'
<1>1. Completed'
  BY DEF BInv, Completed
<1>2. Retained'
  BY DEF BInv, Retained, Completed, Buffer!Stored, BufferTyped, RowStates
<1> QED
  BY <1>1, <1>2

\* What a claim, a mark and an aging do to a row.
LEMMA RowFields ==
    ASSUME NEW r \in RowState
    PROVE  /\ [r EXCEPT !.st = "sending", !.lapsed = FALSE] \in RowState
           /\ [r EXCEPT !.st = "sending", !.lapsed = FALSE].st = "sending"
           /\ [r EXCEPT !.st = "pending", !.lapsed = FALSE] \in RowState
           /\ [r EXCEPT !.st = "pending", !.lapsed = FALSE].st = "pending"
           /\ [st |-> "completed", lapsed |-> FALSE, old |-> FALSE] \in RowState
           /\ Buffer!Absent \in RowState
<1>1. /\ [r EXCEPT !.st = "sending", !.lapsed = FALSE] \in RowState
      /\ [r EXCEPT !.st = "sending", !.lapsed = FALSE].st = "sending"
  BY DEF RowState
<1>2. /\ [r EXCEPT !.st = "pending", !.lapsed = FALSE] \in RowState
      /\ [r EXCEPT !.st = "pending", !.lapsed = FALSE].st = "pending"
  BY DEF RowState
<1>3. /\ [st |-> "completed", lapsed |-> FALSE, old |-> FALSE] \in RowState
      /\ Buffer!Absent \in RowState
  BY DEF RowState, Buffer!Absent
<1> QED
  BY <1>1, <1>2, <1>3

LEMMA SendingRows ==
    ASSUME BInv, NEW S, bufferRow' = Buffer!Sending(S),
           UNCHANGED <<promised, received, reported, bufferGaps>>
    PROVE  BufferTyped' /\ Retained' /\ Completed'
<1>1. \A m \in BufferReadings : bufferRow[m] \in RowState
  BY DEF BInv, BufferTyped, RowStates
<1>2. \A m \in BufferReadings : bufferRow'[m] \in RowState
                                /\ bufferRow'[m].st \in {"sending", bufferRow[m].st}
  <2> TAKE m \in BufferReadings
  <2> DEFINE claimed == [bufferRow[m] EXCEPT !.st = "sending", !.lapsed = FALSE]
  <2>1. bufferRow'[m] \in {bufferRow[m], claimed}
    BY DEF Buffer!Sending
  <2>2. claimed \in RowState /\ claimed.st = "sending"
    BY <1>1, RowFields
  <2> HIDE DEF claimed
  <2> QED
    BY <1>1, <2>1, <2>2
<1>3. BufferTyped'
  BY <1>2 DEF Buffer!Sending, BufferTyped, RowStates
<1> QED
  BY <1>2, <1>3, RowsMove

LEMMA MarkedRows ==
    ASSUME BInv, NEW s \in Buffer!Senders, Buffer!Mark(s),
           UNCHANGED <<promised, received, reported, bufferGaps>>
    PROVE  BufferTyped' /\ Retained' /\ Completed'
<1>1. \A m \in BufferReadings : bufferRow[m] \in RowState
  BY DEF BInv, BufferTyped, RowStates
<1>2. \A m \in BufferReadings :
         /\ bufferRow'[m] \in RowState
         /\ \/ bufferRow'[m].st \in {"pending", bufferRow[m].st}
            \/ bufferRow'[m].st = "completed" /\ s.ok /\ m \in s.batch
  <2> TAKE m \in BufferReadings
  <2> DEFINE failed == [bufferRow[m] EXCEPT !.st = "pending", !.lapsed = FALSE]
             done == [st |-> "completed", lapsed |-> FALSE, old |-> FALSE]
  <2>1. \/ bufferRow'[m] \in {bufferRow[m], failed}
        \/ bufferRow'[m] = done /\ s.ok /\ m \in s.batch
    BY DEF Buffer!Mark
  <2>2. failed \in RowState /\ failed.st = "pending" /\ done \in RowState /\ done.st = "completed"
    BY <1>1, RowFields
  <2> HIDE DEF failed, done
  <2> QED
    BY <1>1, <2>1, <2>2
<1>3. BufferTyped'
  BY <1>2 DEF Buffer!Mark, BufferTyped, RowStates
<1>4. s.ok => s.batch \subseteq received
  BY DEF BInv, Delivered
<1> QED
  BY <1>2, <1>3, <1>4, RowsMove

\* A sender that is idle again owes nothing.
LEMMA SendersRest ==
    ASSUME BInv, bufferCall' \in {bufferCall, Buffer!Idle},
           bufferReplay' \in {bufferReplay, Buffer!Idle},
           received' = received
    PROVE  SendersTyped' /\ Delivered'
<1>1. Buffer!Idle \in Sender /\ Buffer!Idle.pc = "idle" /\ ~Buffer!Idle.ok
  BY DEF Buffer!Idle, Sender
<1>2. SendersTyped'
  BY <1>1 DEF BInv, SendersTyped
<1>3. Delivered'
  BY <1>1 DEF BInv, Buffer!Senders, Delivered
<1> QED
  BY <1>2, <1>3

LEMMA CallGoesOn ==
    ASSUME BInv, NEW step \in {"claim", "send"}, bufferCall' = [bufferCall EXCEPT !.pc = step],
           UNCHANGED <<bufferReplay, received>>
    PROVE  SendersTyped' /\ Delivered'
<1>1. SendersTyped'
  BY DEF BInv, Sender, SendersTyped
<1>2. bufferCall'.ok = bufferCall.ok /\ bufferCall'.batch = bufferCall.batch
  BY DEF BInv, SendersTyped, Sender
<1>3. Delivered'
  BY <1>2 DEF BInv, Delivered, Buffer!Senders
<1> QED
  BY <1>1, <1>3

LEMMA CallSteps ==
    ASSUME BInv, \/ \E m \in BufferReadings : Buffer!Enqueue(m)
                 \/ Buffer!Enqueued \/ Buffer!ClaimOwn \/ Buffer!SendOwn \/ Buffer!SettleOwn
    PROVE  BInv'
<1> USE DEF BInv
<1>1. CASE \E m \in BufferReadings : Buffer!Enqueue(m)
  <2> PICK m \in BufferReadings : Buffer!Enqueue(m)
    BY <1>1
  <2>1. BufferTyped'
    BY DEF Buffer!Enqueue, Buffer!Absent, RowStates, RowState, BufferTyped
  <2>4. /\ bufferCall' = [pc |-> "room", batch |-> {m}, ok |-> FALSE]
        /\ UNCHANGED <<bufferReplay, received>>
    BY DEF Buffer!Enqueue, Buffer!Idle
  <2>2. SendersTyped' /\ Delivered'
    <3>1. SendersTyped'
      BY <2>4 DEF Sender, SendersTyped
    <3>2. bufferCall'.ok = FALSE
      BY <2>4
    <3>3. Delivered'
      BY <2>4, <3>2 DEF Delivered, Buffer!Senders
    <3> QED
      BY <3>1, <3>3
  <2>3. Retained' /\ Completed'
    BY <2>1, RowsMove DEF RowStates, RowState, Buffer!Enqueue, Buffer!Absent, BufferTyped
  <2> QED
    BY <2>1, <2>2, <2>3
<1>2. CASE Buffer!Enqueued
  <2>1. BufferTyped'
    BY <1>2 DEF Buffer!Enqueued, RowStates, RowState, BufferTyped
  <2>4. /\ bufferCall' \in {Buffer!Idle, [bufferCall EXCEPT !.pc = "claim"]}
        /\ UNCHANGED <<bufferReplay, received>>
    BY <1>2 DEF Buffer!Enqueued
  <2>2. SendersTyped' /\ Delivered'
    BY <2>4, SendersRest, CallGoesOn
  <2>3. Retained' /\ Completed'
    BY <1>2 DEF Buffer!Enqueued, Buffer!Stored, SendersTyped, Retained, Completed
  <2> QED
    BY <2>1, <2>2, <2>3
<1>3. CASE Buffer!ClaimOwn
  <2>1. SendersTyped' /\ Delivered'
    BY <1>3, SendersRest, CallGoesOn DEF Buffer!ClaimOwn
  <2>2. CASE UNCHANGED bufferRow
    BY <1>3, <2>1, <2>2, RowsMove DEF Buffer!ClaimOwn, BufferTyped
  <2>3. CASE bufferRow' = Buffer!Sending(bufferCall.batch)
    BY <1>3, <2>1, <2>3, SendingRows DEF Buffer!ClaimOwn
  <2> QED
    BY <1>3, <2>2, <2>3 DEF Buffer!ClaimOwn
<1>4. CASE Buffer!SendOwn
  <2>1. BufferTyped'
    BY <1>4 DEF Buffer!SendOwn, RowStates, RowState, BufferTyped
  <2>2. SendersTyped' /\ Delivered'
    BY <1>4 DEF Buffer!SendOwn, Buffer!Send, Buffer!Senders, Sender, SendersTyped, Delivered
  <2>3. Retained' /\ Completed'
    BY <1>4, <2>1, RowsMove DEF RowStates, RowState, Buffer!SendOwn, Buffer!Send, BufferTyped
  <2> QED
    BY <2>1, <2>2, <2>3
<1>5. CASE Buffer!SettleOwn
  <2>1. SendersTyped' /\ Delivered'
    BY <1>5 DEF Buffer!SettleOwn, Buffer!Settle, Buffer!Idle, Buffer!Senders, Sender, SendersTyped,
                Delivered
  <2>2. CASE UNCHANGED bufferRow
    BY <1>5, <2>1, <2>2, RowsMove DEF Buffer!SettleOwn, BufferTyped
  <2>3. CASE Buffer!Mark(bufferCall)
    BY <1>5, <2>1, <2>3, MarkedRows DEF Buffer!SettleOwn, Buffer!Senders
  <2> QED
    BY <1>5, <2>2, <2>3 DEF Buffer!SettleOwn, Buffer!Settle
<1> QED
  BY <1>1, <1>2, <1>3, <1>4, <1>5

LEMMA ReplaySteps ==
    ASSUME BInv, Buffer!ReplayStep
    PROVE  BInv'
<1> USE DEF BInv
<1>1. CASE Buffer!ClaimBatch
  <2> PICK oldest \in SUBSET Buffer!Claimable :
          /\ bufferRow' = Buffer!Sending(oldest)
          /\ bufferReplay' = [Buffer!Idle EXCEPT !.pc = "send", !.batch = oldest]
    BY <1>1 DEF Buffer!ClaimBatch
  <2>1. oldest \subseteq BufferReadings
    BY DEF Buffer!Claimable, Buffer!Stored
  <2>2. SendersTyped' /\ Delivered'
    BY <1>1, <2>1 DEF Buffer!ClaimBatch, Buffer!Idle, Buffer!Senders, Sender, SendersTyped,
                      Delivered
  <2> QED
    BY <1>1, <2>2, SendingRows DEF Buffer!ClaimBatch
<1>2. CASE Buffer!SendBatch
  <2>1. BufferTyped'
    BY <1>2 DEF Buffer!SendBatch, RowStates, RowState, BufferTyped
  <2>2. SendersTyped' /\ Delivered'
    BY <1>2 DEF Buffer!SendBatch, Buffer!Send, Buffer!Senders, Sender, SendersTyped, Delivered
  <2>3. Retained' /\ Completed'
    BY <1>2, <2>1, RowsMove DEF RowStates, RowState, Buffer!SendBatch, Buffer!Send, BufferTyped
  <2> QED
    BY <2>1, <2>2, <2>3
<1>3. CASE Buffer!SettleBatch
  <2>1. SendersTyped' /\ Delivered'
    BY <1>3 DEF Buffer!SettleBatch, Buffer!Settle, Buffer!Idle, Buffer!Senders, Sender,
                SendersTyped, Delivered
  <2>2. CASE UNCHANGED bufferRow
    BY <1>3, <2>1, <2>2, RowsMove DEF Buffer!SettleBatch, BufferTyped
  <2>3. CASE Buffer!Mark(bufferReplay)
    BY <1>3, <2>1, <2>3, MarkedRows DEF Buffer!SettleBatch, Buffer!Senders
  <2> QED
    BY <1>3, <2>2, <2>3 DEF Buffer!SettleBatch, Buffer!Settle
<1> QED
  BY <1>1, <1>2, <1>3 DEF Buffer!ReplayStep

LEMMA SweepSteps ==
    ASSUME BInv, \/ Buffer!EnforceCapacity \/ Buffer!DeleteCompleted \/ Buffer!ExpireTelemetry
                 \/ Buffer!Swept
    PROVE  BInv'
<1> USE DEF BInv
<1>1. CASE Buffer!EnforceCapacity
  <2> DEFINE m == Buffer!Least(Buffer!Evictable)
  <2>1. /\ bufferRow' = [bufferRow EXCEPT ![m] = Buffer!Absent]
        /\ bufferGaps' = IF bufferRow[m].st = "completed" THEN bufferGaps ELSE bufferGaps \cup {m}
        /\ UNCHANGED <<offered, reported, received, promised, bufferCall, bufferReplay>>
    BY <1>1 DEF Buffer!EnforceCapacity, Buffer!Evict
  <2> HIDE DEF m
  <2>2. BufferTyped'
    BY <2>1 DEF Buffer!Absent, RowStates, RowState, BufferTyped
  <2>3. SendersTyped' /\ Delivered'
    BY <2>1 DEF Buffer!Senders, Sender, SendersTyped, Delivered
  <2>4. Retained' /\ Completed'
    BY <2>1, <2>2, RowsMove DEF RowStates, RowState, Buffer!Absent, BufferTyped
  <2> QED
    BY <2>2, <2>3, <2>4
<1>2. CASE Buffer!DeleteCompleted
  <2>1. BufferTyped'
    BY <1>2 DEF Buffer!DeleteCompleted, Buffer!Absent, RowStates, RowState, BufferTyped
  <2>2. SendersTyped' /\ Delivered'
    BY <1>2 DEF Buffer!DeleteCompleted, Buffer!Senders, Sender, SendersTyped, Delivered
  <2>3. Retained' /\ Completed'
    BY <1>2, <2>1, RowsMove DEF RowStates, RowState, Buffer!DeleteCompleted, Buffer!Absent,
                                BufferTyped
  <2> QED
    BY <2>1, <2>2, <2>3
<1>3. CASE Buffer!ExpireTelemetry
  <2>1. BufferTyped'
    BY <1>3 DEF Buffer!ExpireTelemetry, Buffer!Absent, RowStates, RowState, BufferTyped
  <2>2. SendersTyped' /\ Delivered'
    BY <1>3 DEF Buffer!ExpireTelemetry, Buffer!Senders, Sender, SendersTyped, Delivered
  <2>3. Retained' /\ Completed'
    BY <1>3, <2>1, RowsMove DEF RowStates, RowState, Buffer!ExpireTelemetry, Buffer!Absent,
                                Buffer!Stored, BufferTyped
  <2> QED
    BY <2>1, <2>2, <2>3
<1>4. CASE Buffer!Swept
  BY <1>4 DEF Buffer!Swept, Buffer!Senders, Buffer!Stored, BufferTyped, SendersTyped, Delivered,
              Retained, Completed
<1> QED
  BY <1>1, <1>2, <1>3, <1>4

LEMMA BufferKeeps ==
    ASSUME BInv, [Buffer!Next]_(Buffer!vars)
    PROVE  BInv'
<1> USE DEF BInv
<1>1. CASE \E m \in BufferReadings : Buffer!Lapse(m) \/ Buffer!Age(m)
  <2> PICK m \in BufferReadings : Buffer!Lapse(m) \/ Buffer!Age(m)
    BY <1>1
  <2>1. BufferTyped'
    BY DEF Buffer!Lapse, Buffer!Age, RowStates, RowState, BufferTyped
  <2>2. SendersTyped' /\ Delivered'
    BY DEF Buffer!Lapse, Buffer!Age, Buffer!Senders, Sender, SendersTyped, Delivered
  <2>3. Retained' /\ Completed'
    BY <2>1, RowsMove DEF RowStates, RowState, Buffer!Lapse, Buffer!Age, BufferTyped
  <2> QED
    BY <2>1, <2>2, <2>3
<1>2. CASE \E m \in BufferReadings : Buffer!ReportGap(m) \/ Buffer!GapForwarded(m)
  <2> PICK m \in BufferReadings : Buffer!ReportGap(m) \/ Buffer!GapForwarded(m)
    BY <1>2
  <2>1. BufferTyped'
    BY DEF Buffer!ReportGap, Buffer!GapForwarded, RowStates, RowState, BufferTyped
  <2>2. SendersTyped' /\ Delivered'
    BY DEF Buffer!ReportGap, Buffer!GapForwarded, Buffer!Senders, Sender, SendersTyped, Delivered
  <2>3. Retained' /\ Completed'
    BY <2>1, RowsMove DEF RowStates, RowState, Buffer!ReportGap, Buffer!GapForwarded, BufferTyped
  <2> QED
    BY <2>1, <2>2, <2>3
<1>3. CASE Buffer!Connect \/ Buffer!ConnectionLost \/ Buffer!Crash
  <2>1. BufferTyped'
    BY <1>3 DEF Buffer!Connect, Buffer!ConnectionLost, Buffer!Crash, RowStates, RowState,
                BufferTyped
  <2>2. SendersTyped' /\ Delivered'
    BY <1>3, SendersRest DEF Buffer!Connect, Buffer!ConnectionLost, Buffer!Crash
  <2>3. Retained' /\ Completed'
    BY <1>3, <2>1, RowsMove DEF RowStates, RowState, Buffer!Connect, Buffer!ConnectionLost,
                                Buffer!Crash, BufferTyped
  <2> QED
    BY <2>1, <2>2, <2>3
<1>4. CASE UNCHANGED Buffer!vars
  BY <1>4 DEF Buffer!vars, Buffer!Senders, Buffer!Stored, BufferTyped, SendersTyped, Delivered,
              Retained, Completed
<1> QED
  BY <1>1, <1>2, <1>3, <1>4, CallSteps, ReplaySteps, SweepSteps
     DEF Buffer!Next, Buffer!CallStep, Buffer!SweepStep

LEMMA BufferRetains ==
    ASSUME BInv
    PROVE  Buffer!NothingLost
  BY DEF BInv, Retained, Completed, Buffer!NothingLost

\* An accepted reading is in the buffer, at the broker, or recorded as a gap,
\* whatever its size and however many readings and batches there are
\* (Store.Enqueue, recordGap, MarkCompleted, replayDurable).
THEOREM BufferLosesNothing == Buffer!Spec => []Buffer!NothingLost
<1>1. Buffer!Init => BInv
  BY BufferInit
<1>2. BInv /\ [Buffer!Next]_(Buffer!vars) => BInv'
  BY BufferKeeps
<1>3. BInv => Buffer!NothingLost
  BY BufferRetains
<1> QED
  BY <1>1, <1>2, <1>3, PTL DEF Buffer!Spec

-----------------------------------------------------------------------------
(* The projection to ThingsBoard.  A delivery ends when the version noted   *)
(* is not older, or when its own is noted, so everything rests on what was  *)
(* written before a version is noted (Projected).  Of an entity, whose        *)
(* projections take turns, who holds the lock has a version newer than the  *)
(* one noted, and what it has written is there still (Turns).               *)
Busy == {"object", "detail", "note"}

NativeType ==
    /\ locked \in BOOLEAN /\ current \in Native!Versions
    /\ nativeRow \in [Native!Versions -> {"none", "waiting", "gone"}]
    /\ nativeWorker \in [Native!Versions -> {"idle", "enter", "finish"} \cup Busy]
    /\ mapping \in 0..current /\ object \in 0..current /\ detail \in 0..current
    /\ best \in [object : 0..MaxVersion, detail : 0..MaxVersion]
    /\ \A v \in Native!Versions : nativeRow[v] # "none" \/ nativeWorker[v] # "idle" => v <= current

Shown(v) == best.object >= v /\ best.detail >= v
Projected ==
    /\ Shown(mapping)
    /\ \A v \in Native!Versions :
          /\ nativeWorker[v] = "detail" => best.object >= v
          /\ nativeWorker[v] \in {"note", "finish"} \/ nativeRow[v] = "gone" => Shown(v)

Turns ==
    locked =>
      /\ object >= mapping /\ detail >= mapping
      /\ \A v \in Native!Versions :
            /\ nativeWorker[v] \in Busy => holder = v /\ mapping < v
            /\ nativeWorker[v] \in {"detail", "note"} => object = v
            /\ nativeWorker[v] = "note" => detail = v
            /\ nativeWorker[v] = "finish" \/ nativeRow[v] = "gone" => mapping >= v

NInv == NativeType /\ Projected /\ Turns

LEMMA NativeInit ==
    ASSUME Native!ProjectionConstants, Native!Init
    PROVE  NInv
<1> USE DEF Native!ProjectionConstants, Native!Init, Native!Versions
<1>1. NativeType
  BY DEF NativeType, Busy
<1>2. Projected /\ Turns
  BY DEF Projected, Shown, Turns, Busy
<1> QED
  BY <1>1, <1>2 DEF NInv

\* What a projection has gone to, and every other one where it was.
LEMMA Gone ==
    ASSUME NativeType, NEW v \in Native!Versions, NEW step, Native!Goto(v, step)
    PROVE  /\ nativeWorker'[v] = step
           /\ \A w \in Native!Versions \ {v} : nativeWorker'[w] = nativeWorker[w]
  BY DEF NativeType, Native!Goto

LEMMA NativeKeeps ==
    ASSUME Native!ProjectionConstants, NInv, [Native!Next]_(Native!vars)
    PROVE  NInv'
<1> USE DEF NInv, Native!ProjectionConstants, Native!Versions
<1>1. CASE Native!Enqueue
  <2>1. NativeType'
    BY <1>1 DEF Native!Enqueue, NativeType
  <2>2. Projected' /\ Turns'
    BY <1>1 DEF Native!Enqueue, NativeType, Projected, Shown, Turns
  <2> QED
    BY <2>1, <2>2
<1>2. CASE Native!ReconcileDefinitions
  <2>1. NativeType'
    BY <1>2 DEF Native!ReconcileDefinitions, NativeType
  <2>2. Projected'
    BY <1>2 DEF Native!ReconcileDefinitions, NativeType, Projected, Shown, Busy
  <2>3. Turns'
    BY <1>2 DEF Native!ReconcileDefinitions, NativeType, Turns
  <2> QED
    BY <2>1, <2>2, <2>3
<1>3. CASE Native!Crash
  <2>1. NativeType'
    BY <1>3 DEF Native!Crash, NativeType
  <2>2. Projected' /\ Turns'
    BY <1>3 DEF Native!Crash, NativeType, Projected, Shown, Turns, Busy
  <2> QED
    BY <2>1, <2>2
<1>4. CASE \E v \in Native!Versions : Native!Take(v) \/ Native!Check(v)
  <2> PICK v \in Native!Versions : Native!Take(v) \/ Native!Check(v)
    BY <1>4
  <2>1. CASE Native!Take(v)
    <3>1. NativeType'
      BY <2>1 DEF Native!Take, Native!Goto, NativeType
    <3>2. Projected' /\ Turns'
      BY <2>1, Gone DEF Native!Take, NativeType, Projected, Shown, Turns, Busy
    <3> QED
      BY <3>1, <3>2
  <2>2. CASE Native!Check(v)
    <3>1. NativeType'
      BY <2>2 DEF Native!Check, Native!Goto, NativeType, Busy
    <3>2. Projected'
      BY <2>2, Gone DEF Native!Check, Native!Outdated, NativeType, Projected, Shown
    <3>3. Turns'
      BY <2>2, Gone DEF Native!Check, Native!Outdated, NativeType, Turns, Busy
    <3> QED
      BY <3>1, <3>2, <3>3
  <2> QED
    BY <2>1, <2>2
<1>5. CASE \E v \in Native!Versions : Native!PutObject(v) \/ Native!PutDetail(v)
  <2> PICK v \in Native!Versions : Native!PutObject(v) \/ Native!PutDetail(v)
    BY <1>5
  <2> USE DEF Native!WriteObject, Native!WriteDetail, Native!Larger
  <2>1. CASE Native!PutObject(v)
    <3>1. NativeType'
      BY <2>1 DEF Native!PutObject, Native!Goto, NativeType, Busy
    <3>2. Projected' /\ Turns'
      BY <2>1, Gone DEF Native!PutObject, NativeType, Projected, Shown, Turns, Busy
    <3> QED
      BY <3>1, <3>2
  <2>2. CASE Native!PutDetail(v)
    <3>1. NativeType'
      BY <2>2 DEF Native!PutDetail, Native!Goto, NativeType, Busy
    <3>2. Projected' /\ Turns'
      BY <2>2, Gone DEF Native!PutDetail, NativeType, Projected, Shown, Turns, Busy
    <3> QED
      BY <3>1, <3>2
  <2> QED
    BY <2>1, <2>2
<1>6. CASE \E v \in Native!Versions : Native!Note(v) \/ Native!CompleteProjection(v)
  <2> PICK v \in Native!Versions : Native!Note(v) \/ Native!CompleteProjection(v)
    BY <1>6
  <2>1. CASE Native!Note(v)
    <3>1. NativeType'
      BY <2>1 DEF Native!Note, Native!Goto, NativeType, Busy
    <3>2. Projected' /\ Turns'
      BY <2>1, Gone DEF Native!Note, Native!Leave, NativeType, Projected, Shown, Turns, Busy
    <3> QED
      BY <3>1, <3>2
  <2>2. CASE Native!CompleteProjection(v)
    <3>1. NativeType'
      BY <2>2 DEF Native!CompleteProjection, Native!Goto, NativeType
    <3>2. Projected' /\ Turns'
      BY <2>2, Gone DEF Native!CompleteProjection, NativeType, Projected, Shown, Turns, Busy
    <3> QED
      BY <3>1, <3>2
  <2> QED
    BY <2>1, <2>2
<1>7. CASE \E v \in Native!Versions : Native!Fail(v)
  <2> PICK v \in Native!Versions : Native!Fail(v)
    BY <1>7
  <2> USE DEF Native!WriteObject, Native!WriteDetail, Native!Larger
  <2>1. NativeType'
    BY SMTT(30) DEF Native!Fail, Native!Goto, NativeType
  <2>2. Projected'
    BY Gone DEF Native!Fail, NativeType, Projected, Shown, Busy
  <2>3. Turns'
    BY Gone DEF Native!Fail, Native!Leave, NativeType, Turns, Busy
  <2> QED
    BY <2>1, <2>2, <2>3
<1>8. CASE UNCHANGED Native!vars
  BY <1>8 DEF Native!vars, NativeType, Projected, Shown, Turns
<1> QED
  BY <1>1, <1>2, <1>3, <1>4, <1>5, <1>6, <1>7, <1>8 DEF Native!Next

\* What ThingsBoard shows follows from the invariant.
LEMMA NativeShows ==
    ASSUME Native!ProjectionConstants, NInv
    PROVE  Native!DeliveredWasShown /\ Native!NotOlderThanNoted /\ Native!NewestShown
<1> USE DEF NInv, Native!ProjectionConstants, Native!Versions
<1>1. Native!DeliveredWasShown
  BY DEF Projected, Shown, Native!DeliveredWasShown
<1>2. Native!NotOlderThanNoted
  BY DEF Turns, Native!NotOlderThanNoted
<1>3. Native!NewestShown
  <2> SUFFICES ASSUME locked, \A v \in 1..current : nativeRow[v] = "gone"
               PROVE  object = current /\ detail = current
    BY DEF Native!NewestShown
  <2>1. current \in 1..current /\ current \in Native!Versions
    BY DEF NativeType
  <2>2. mapping >= current
    BY <2>1 DEF Turns
  <2> QED
    BY <2>2 DEF NativeType, Turns
<1> QED
  BY <1>1, <1>2, <1>3

\* A delivery to ThingsBoard ends only after both parts of its version, or of
\* a newer one, were written; of an entity, nothing older than what is noted
\* is shown, and in the end its newest version (projectDelivery,
\* Adapter.EnsureEntity, publishDefinition).
THEOREM NewestIsShown ==
    Native!ProjectionConstants =>
      (Native!Spec => [](/\ Native!DeliveredWasShown /\ Native!NotOlderThanNoted
                         /\ Native!NewestShown))
<1> SUFFICES ASSUME Native!ProjectionConstants
             PROVE  Native!Spec => [](/\ Native!DeliveredWasShown /\ Native!NotOlderThanNoted
                                      /\ Native!NewestShown)
  OBVIOUS
<1>1. Native!Init => NInv
  BY NativeInit
<1>2. NInv /\ [Native!Next]_(Native!vars) => NInv'
  BY NativeKeeps
<1>3. NInv => /\ Native!DeliveredWasShown /\ Native!NotOlderThanNoted /\ Native!NewestShown
  BY NativeShows
<1> QED
  BY <1>1, <1>2, <1>3, PTL DEF Native!Spec

-----------------------------------------------------------------------------
(* The connector of MQTT devices.  An event is acknowledged from a queue    *)
(* that outlives the connector's configuration only in the messages already *)
(* sent, so all of them count (Acknowledged), and an event counts as stored *)
(* because its configuration is never 0 once it was received (Identified).  *)
(* An answer is true because only the device commanded is heard (Told).     *)
Results == Mqtt!Statuses \cup {None, "RESULT_UNKNOWN", "FAILURE"}
CallState == [pc : {"idle", "publish", "wait", "retry", "done"}, attempt : Nat, answer : Results]
PendingState == [in : BOOLEAN, answer : Mqtt!Statuses \cup {None}]
Messages == Mqtt!Replies \cup {Mqtt!Event(m) : m \in Events} \cup {Mqtt!Order(c) : c \in Commands}
            \cup {Mqtt!Ack(m) : m \in Events}
OfDevices == Mqtt!Upward \cup {Mqtt!Reading}

CallsTyped ==
    /\ mqttCall \in [Commands -> CallState]
    /\ mqttPending \in [Commands -> PendingState]
    /\ did \in [Commands -> Mqtt!Statuses \cup {None}]
EventsTyped ==
    /\ event \in [Events -> [state : {"new", "sent", "acked"}, sends : Nat]]
    /\ eventOutbox \in [Events -> Nat]
    /\ acks \in Seq(Events) /\ config \in 1..MaxConfigs
QueuesTyped ==
    /\ routed \subseteq Mqtt!Upward /\ upstream \in Seq(OfDevices)
    /\ handled \in OfDevices \cup {None}
MqttTyped == CallsTyped /\ EventsTyped /\ QueuesTyped /\ wire \subseteq Messages

HasConfig(x) == x.kind = "event" => x.config # 0
Identified ==
    /\ \A x \in routed : HasConfig(x)
    /\ \A i \in 1..Len(upstream) : HasConfig(upstream[i])
    /\ handled # None => HasConfig(handled)

Acknowledged ==
    /\ \A i \in 1..Len(acks) : eventOutbox[acks[i]] # 0
    /\ \A x \in wire : x.kind = "ack" => eventOutbox[x.id] # 0
    /\ \A m \in Events : event[m].state = "acked" => eventOutbox[m] # 0

Told ==
    /\ \A x \in wire : x.kind = "reply" /\ x.device = Target[x.id] => did[x.id] = x.status
    /\ \A c \in Commands :
          /\ mqttPending[c].answer \in Mqtt!Statuses => did[c] = mqttPending[c].answer
          /\ mqttCall[c].answer \in Mqtt!Statuses => did[c] = mqttCall[c].answer

MInv == MqttTyped /\ Identified /\ Acknowledged /\ Told

LEMMA MqttInit ==
    ASSUME Mqtt!MqttConstants, Mqtt!Init
    PROVE  MInv
<1> USE DEF Mqtt!Init, Mqtt!MqttConstants
<1>1. MqttTyped
  BY DEF MqttTyped, CallsTyped, EventsTyped, QueuesTyped, CallState, PendingState, Results,
         Mqtt!NotPending
<1>2. Identified /\ Acknowledged
  BY DEF Identified, Acknowledged
<1>3. Told
  BY DEF Told, Mqtt!NotPending
<1> QED
  BY <1>1, <1>2, <1>3 DEF MInv

\* What the messages are made of.
LEMMA Fields ==
    /\ \A m : Mqtt!Ack(m).kind = "ack" /\ Mqtt!Ack(m).id = m
    /\ \A m : Mqtt!Order(m).kind = "command" /\ Mqtt!Order(m).id = m
    /\ \A m : /\ Mqtt!Event(m).kind = "event" /\ Mqtt!Event(m).id = m
             /\ \A k : [Mqtt!Event(m) EXCEPT !.config = k]
                         = [kind |-> "event", id |-> m, config |-> k]
    /\ \A c, d, s : /\ Mqtt!Reply(c, d, s).kind = "reply" /\ Mqtt!Reply(c, d, s).id = c
                   /\ Mqtt!Reply(c, d, s).device = d /\ Mqtt!Reply(c, d, s).status = s
<1>1. \A m : Mqtt!Ack(m).kind = "ack" /\ Mqtt!Ack(m).id = m
  BY DEF Mqtt!Ack
<1>2. \A m : Mqtt!Order(m).kind = "command" /\ Mqtt!Order(m).id = m
  BY DEF Mqtt!Order
<1>3. \A m : /\ Mqtt!Event(m).kind = "event" /\ Mqtt!Event(m).id = m
             /\ \A k : [Mqtt!Event(m) EXCEPT !.config = k]
                         = [kind |-> "event", id |-> m, config |-> k]
  BY DEF Mqtt!Event
<1>4. \A c, d, s : /\ Mqtt!Reply(c, d, s).kind = "reply" /\ Mqtt!Reply(c, d, s).id = c
                   /\ Mqtt!Reply(c, d, s).device = d /\ Mqtt!Reply(c, d, s).status = s
  BY DEF Mqtt!Reply
<1> QED
  BY <1>1, <1>2, <1>3, <1>4

\* What a handler finds in a message, and what it offers of it.
LEMMA Heard ==
    ASSUME Mqtt!MqttConstants, config \in 1..MaxConfigs, NEW x \in Messages
    PROVE  /\ x.kind = "reply" =>
                 x \in Mqtt!Upward /\ x.id \in Commands /\ x.status \in Mqtt!Statuses
           /\ x.kind = "event" =>
                 /\ [x EXCEPT !.config = config] \in Mqtt!Upward
                 /\ [x EXCEPT !.config = config].kind = "event"
                 /\ [x EXCEPT !.config = config].config = config
<1>1. CASE x \in Mqtt!Replies
  BY <1>1, Fields DEF Mqtt!Replies, Mqtt!Upward
<1>2. CASE \E m \in Events : x = Mqtt!Event(m)
  <2> PICK m \in Events : x = Mqtt!Event(m)
    BY <1>2
  <2>1. /\ x.kind = "event"
        /\ [x EXCEPT !.config = config] = [kind |-> "event", id |-> m, config |-> config]
    BY Fields
  <2>2. [kind |-> "event", id |-> m, config |-> config] \in Mqtt!Upward
    BY DEF Mqtt!Upward, Mqtt!MqttConstants
  <2> QED
    BY <2>1, <2>2
<1>3. CASE (\E c \in Commands : x = Mqtt!Order(c)) \/ (\E m \in Events : x = Mqtt!Ack(m))
  BY <1>3, Fields
<1> QED
  BY <1>1, <1>2, <1>3 DEF Messages

\* A step that leaves events and queues alone, of which only the wire counts.
LEMMA EventsRest ==
    ASSUME MInv, UNCHANGED <<event, routed, upstream, handled, eventOutbox, acks, config>>,
           \A x \in wire' : x.kind = "ack" => x \in wire
    PROVE  EventsTyped' /\ QueuesTyped' /\ Identified' /\ Acknowledged'
  BY DEF MInv, MqttTyped, EventsTyped, QueuesTyped, Identified, HasConfig, Acknowledged

\* A step that leaves the calls alone, of which only the wire counts.
LEMMA CallsRest ==
    ASSUME MInv, UNCHANGED <<mqttCall, mqttPending, did>>,
           \A x \in wire' : x.kind = "reply" => x \in wire \/ x.device # Target[x.id]
    PROVE  CallsTyped' /\ Told'
  BY DEF MInv, MqttTyped, CallsTyped, Told

LEMMA CommandSteps ==
    ASSUME Mqtt!MqttConstants, MInv, Mqtt!CommandStep
    PROVE  MInv'
<1> USE DEF MInv, MqttTyped
<1> PICK c \in Commands : \/ Mqtt!BeginCall(c) \/ Mqtt!PublishCommand(c) \/ Mqtt!PublishFails(c)
                          \/ Mqtt!Answered(c) \/ Mqtt!TimedOut(c)
  BY DEF Mqtt!CommandStep
<1>0. \A o \in Commands : mqttCall[o] \in CallState /\ mqttPending[o] \in PendingState
  BY DEF CallsTyped
<1>1. /\ UNCHANGED <<did, event, routed, upstream, handled, eventOutbox, acks, config>>
      /\ wire' \in {wire, wire \cup {Mqtt!Order(c)}}
  BY DEF Mqtt!BeginCall, Mqtt!PublishCommand, Mqtt!PublishFails, Mqtt!Answered, Mqtt!TimedOut
<1>2. wire' \subseteq Messages /\ \A x \in wire' : x.kind # "command" => x \in wire
  BY <1>1, Fields DEF Messages
<1>3. EventsTyped' /\ QueuesTyped' /\ Identified' /\ Acknowledged'
  BY <1>1, <1>2, EventsRest
<1>4. /\ CallsTyped'
      /\ \A o \in Commands :
            /\ mqttCall'[o].answer \in {mqttCall[o].answer, mqttPending[o].answer, "RESULT_UNKNOWN",
                                      "FAILURE"}
            /\ mqttPending'[o].answer \in {mqttPending[o].answer, None}
  <2> USE DEF CallsTyped, CallState, PendingState, Results, Mqtt!NotPending
  <2>1. CASE Mqtt!BeginCall(c)
    BY <2>1, <1>0 DEF Mqtt!BeginCall
  <2>2. CASE Mqtt!PublishCommand(c)
    BY <2>2, <1>0 DEF Mqtt!PublishCommand
  <2>3. CASE Mqtt!PublishFails(c)
    <3> DEFINE k == mqttCall[c]
               n == IF c \notin Idempotent
                    THEN [k EXCEPT !.pc = "done", !.answer = "RESULT_UNKNOWN"]
                    ELSE IF k.attempt < 2 THEN [k EXCEPT !.pc = "retry"]
                    ELSE [k EXCEPT !.pc = "done", !.answer = "FAILURE"]
    <3>1. /\ mqttCall' = [mqttCall EXCEPT ![c] = n] /\ UNCHANGED did
          /\ mqttPending' = [mqttPending EXCEPT ![c] = Mqtt!NotPending]
      BY <2>3 DEF Mqtt!PublishFails
    <3>2. n \in CallState /\ n.answer \in {k.answer, "RESULT_UNKNOWN", "FAILURE"}
      BY <1>0
    <3>3. Mqtt!NotPending \in PendingState /\ Mqtt!NotPending.answer = None
      OBVIOUS
    <3> HIDE DEF n, Mqtt!NotPending, CallState, PendingState
    <3> QED
      BY <3>1, <3>2, <3>3
  <2>4. CASE Mqtt!Answered(c) \/ Mqtt!TimedOut(c)
    <3> PICK s \in {mqttPending[c].answer, "RESULT_UNKNOWN"} :
            /\ mqttCall' = [mqttCall EXCEPT ![c] = [@ EXCEPT !.pc = "done", !.answer = s]]
            /\ mqttPending' = [mqttPending EXCEPT ![c] = Mqtt!NotPending]
            /\ UNCHANGED did
      BY <2>4 DEF Mqtt!Answered, Mqtt!TimedOut
    <3> DEFINE n == [mqttCall[c] EXCEPT !.pc = "done", !.answer = s]
    <3>1. n \in CallState /\ n.answer = s
      BY <1>0
    <3>2. mqttCall' = [mqttCall EXCEPT ![c] = n]
      OBVIOUS
    <3>3. Mqtt!NotPending \in PendingState /\ Mqtt!NotPending.answer = None
      OBVIOUS
    <3> HIDE DEF n, Mqtt!NotPending, CallState, PendingState
    <3> QED
      BY <3>1, <3>2, <3>3
  <2> QED
    BY <2>1, <2>2, <2>3, <2>4
<1>5. /\ "RESULT_UNKNOWN" \notin Mqtt!Statuses /\ "FAILURE" \notin Mqtt!Statuses
      /\ None \notin Mqtt!Statuses
  BY DEF Mqtt!Statuses, Mqtt!MqttConstants
<1>6. \A x \in wire' : x.kind = "reply" => x \in wire
  BY <1>2
<1>7. Told'
  <2>1. \A x \in wire' : x.kind = "reply" /\ x.device = Target[x.id] => did'[x.id] = x.status
    BY <1>1, <1>6 DEF Told
  <2>2. ASSUME NEW o \in Commands
        PROVE  /\ mqttPending'[o].answer \in Mqtt!Statuses => did'[o] = mqttPending'[o].answer
               /\ mqttCall'[o].answer \in Mqtt!Statuses => did'[o] = mqttCall'[o].answer
    <3>0. did' = did /\ Told
      BY <1>1
    <3>1. /\ mqttPending[o].answer \in Mqtt!Statuses => did[o] = mqttPending[o].answer
          /\ mqttCall[o].answer \in Mqtt!Statuses => did[o] = mqttCall[o].answer
      BY <3>0 DEF Told
    <3>2. /\ mqttCall'[o].answer \in {mqttCall[o].answer, mqttPending[o].answer, "RESULT_UNKNOWN",
                                     "FAILURE"}
          /\ mqttPending'[o].answer \in {mqttPending[o].answer, None}
      BY <1>4
    <3> HIDE DEF MInv
    <3> QED
      BY <3>0, <3>1, <3>2, <1>5
  <2> QED
    BY <2>1, <2>2 DEF Told
<1> QED
  BY <1>2, <1>3, <1>4, <1>7

LEMMA DeviceSteps ==
    ASSUME Mqtt!MqttConstants, MInv, Mqtt!DeviceStep
    PROVE  MInv'
<1> USE DEF MInv, MqttTyped
<1>1. CASE \E c \in Commands : Mqtt!Execute(c)
  <2> PICK c \in Commands : Mqtt!Execute(c)
    BY <1>1
  <2> DEFINE reply == Mqtt!Reply(c, Target[c], did'[c])
  <2>1. /\ did' \in [Commands -> Mqtt!Statuses \cup {None}] /\ did'[c] # None
        /\ \A o \in Commands : o # c \/ did[o] # None => did'[o] = did[o]
        /\ wire' = (wire \ {Mqtt!Order(c)}) \cup {reply}
        /\ UNCHANGED <<mqttCall, mqttPending, event, routed, upstream, handled, eventOutbox, acks,
                       config>>
    BY DEF Mqtt!Execute
  <2>2. /\ reply.kind = "reply" /\ reply.id = c /\ reply.status = did'[c]
        /\ reply \in Mqtt!Replies
    BY <2>1, Fields DEF Mqtt!Replies, Mqtt!MqttConstants
  <2> HIDE DEF reply
  <2>3. wire' \subseteq Messages
    BY <2>1, <2>2 DEF Messages
  <2>4. EventsTyped' /\ QueuesTyped' /\ Identified' /\ Acknowledged'
    BY <2>1, <2>2, EventsRest
  <2>5. CallsTyped'
    BY <2>1 DEF CallsTyped
  <2>6. \A o \in Commands : did[o] \in Mqtt!Statuses => did'[o] = did[o]
    BY <2>1 DEF Mqtt!MqttConstants
  <2>7. Told'
    <3>1. ASSUME NEW x \in wire', x.kind = "reply", x.device = Target[x.id]
          PROVE  did'[x.id] = x.status
      <4>1. CASE x = reply
        BY <2>2, <4>1
      <4>2. CASE x \in wire
        <5>1. did[x.id] = x.status
          BY <3>1, <4>2 DEF Told
        <5>2. x.id \in Commands /\ x.status \in Mqtt!Statuses
          BY <3>1, <4>2, Heard DEF EventsTyped
        <5> QED
          BY <5>1, <5>2, <2>6
      <4> QED
        BY <2>1, <4>1, <4>2
    <3>2. \A o \in Commands :
             /\ mqttPending'[o].answer \in Mqtt!Statuses => did'[o] = mqttPending'[o].answer
             /\ mqttCall'[o].answer \in Mqtt!Statuses => did'[o] = mqttCall'[o].answer
      BY <2>1, <2>6 DEF Told
    <3> QED
      BY <3>1, <3>2 DEF Told
  <2> QED
    BY <2>3, <2>4, <2>5, <2>7
<1>2. CASE \E c \in Commands, d \in Devices : Mqtt!Misreply(c, d)
  <2> PICK c \in Commands, d \in Devices : Mqtt!Misreply(c, d)
    BY <1>2
  <2>1. PICK s \in Mqtt!Statuses : wire' = wire \cup {Mqtt!Reply(c, d, s)}
    BY DEF Mqtt!Misreply
  <2> DEFINE reply == Mqtt!Reply(c, d, s)
  <2>2. reply.kind = "reply" /\ reply.device # Target[reply.id] /\ reply \in Mqtt!Replies
    BY Fields DEF Mqtt!Misreply, Mqtt!Replies
  <2> HIDE DEF reply
  <2>3. wire' = wire \cup {reply}
    BY <2>1 DEF reply
  <2>4. wire' \subseteq Messages
    BY <2>2, <2>3 DEF Messages
  <2>5. EventsTyped' /\ QueuesTyped' /\ Identified' /\ Acknowledged'
    BY <2>2, <2>3, EventsRest DEF Mqtt!Misreply
  <2>6. CallsTyped' /\ Told'
    BY <2>2, <2>3, CallsRest DEF Mqtt!Misreply
  <2> QED
    BY <2>4, <2>5, <2>6
<1>3. CASE \E m \in Events : Mqtt!Send(m)
  <2> PICK m \in Events : Mqtt!Send(m)
    BY <1>3
  <2>1. wire' \subseteq Messages /\ \A x \in wire' : x.kind # "event" => x \in wire
    BY Fields DEF Mqtt!Send, Messages
  <2>2. CallsTyped' /\ Told'
    BY <2>1, CallsRest DEF Mqtt!Send
  <2>3. EventsTyped'
    BY DEF Mqtt!Send, EventsTyped
  <2>4. QueuesTyped' /\ Identified'
    BY DEF Mqtt!Send, QueuesTyped, Identified, HasConfig
  <2>5. \A o \in Events : event'[o].state = "acked" => event[o].state = "acked"
    BY DEF Mqtt!Send, EventsTyped
  <2>6. Acknowledged'
    BY <2>1, <2>5 DEF Mqtt!Send, Acknowledged
  <2> QED
    BY <2>1, <2>2, <2>3, <2>4, <2>6
<1>4. CASE \E m \in Events : Mqtt!Acked(m)
  <2> PICK m \in Events : Mqtt!Acked(m)
    BY <1>4
  <2>1. wire' \subseteq wire
    BY DEF Mqtt!Acked
  <2>2. CallsTyped' /\ Told'
    BY <2>1, CallsRest DEF Mqtt!Acked
  <2>3. EventsTyped'
    BY DEF Mqtt!Acked, EventsTyped
  <2>4. QueuesTyped' /\ Identified'
    BY DEF Mqtt!Acked, QueuesTyped, Identified, HasConfig
  <2>5. \A o \in Events : event'[o].state = "acked" => event[o].state = "acked" \/ o = m
    BY DEF Mqtt!Acked, EventsTyped
  <2>6. eventOutbox[m] # 0
    BY Fields DEF Mqtt!Acked, Acknowledged
  <2>7. Acknowledged'
    BY <2>1, <2>5, <2>6 DEF Mqtt!Acked, Acknowledged
  <2> QED
    BY <2>1, <2>2, <2>3, <2>4, <2>7
<1>5. CASE \E x \in wire : Mqtt!Lose(x)
  <2>1. wire' \subseteq wire
    BY <1>5 DEF Mqtt!Lose
  <2>2. CallsTyped' /\ Told'
    BY <1>5, <2>1, CallsRest DEF Mqtt!Lose
  <2>3. EventsTyped' /\ QueuesTyped' /\ Identified' /\ Acknowledged'
    BY <1>5, <2>1, EventsRest DEF Mqtt!Lose
  <2> QED
    BY <2>1, <2>2, <2>3
<1> QED
  BY <1>1, <1>2, <1>3, <1>4, <1>5 DEF Mqtt!DeviceStep

\* A handler hears a message.
LEMMA ReceiveStep ==
    ASSUME Mqtt!MqttConstants, MInv, NEW x \in wire, Mqtt!Receive(x)
    PROVE  MInv'
<1> USE DEF MInv, MqttTyped
<1> DEFINE y == IF x.kind = "event" THEN [x EXCEPT !.config = config] ELSE x
<1>1. /\ wire' = wire \ {x} /\ routed' = routed \cup {y} /\ x.kind \in {"reply", "event"}
      /\ mqttPending' = IF x.kind = "reply" /\ Mqtt!Mine(x) /\ mqttPending[x.id].answer = None
                        THEN [mqttPending EXCEPT ![x.id].answer = x.status] ELSE mqttPending
      /\ UNCHANGED <<mqttCall, did, event, upstream, handled, eventOutbox, acks, config>>
  BY DEF Mqtt!Receive
<1>2. config \in 1..MaxConfigs /\ x \in Messages
  BY DEF EventsTyped
<1>3. y \in Mqtt!Upward /\ HasConfig(y)
  BY <1>1, <1>2, Heard DEF HasConfig, Mqtt!MqttConstants
<1> HIDE DEF y
<1>4. QueuesTyped' /\ Identified'
  BY <1>1, <1>3 DEF QueuesTyped, Identified, HasConfig
<1>5. EventsTyped' /\ Acknowledged'
  BY <1>1 DEF EventsTyped, Acknowledged
<1>6. CallsTyped' /\ Told'
  <2>1. CASE mqttPending' = mqttPending
    BY <1>1, <2>1, CallsRest
  <2>2. CASE /\ x.kind = "reply" /\ Mqtt!Mine(x)
             /\ mqttPending' = [mqttPending EXCEPT ![x.id].answer = x.status]
    <3>1. x.id \in Commands /\ x.status \in Mqtt!Statuses /\ did[x.id] = x.status
      BY <1>2, <2>2, Heard DEF Mqtt!Mine, Told
    <3>2. \A o \in Commands : mqttPending[o] \in PendingState
      BY DEF CallsTyped
    <3>3. mqttPending' \in [Commands -> PendingState]
      BY <2>2, <3>1, <3>2 DEF CallsTyped, PendingState
    <3>4. \A o \in Commands : mqttPending'[o].answer = IF o = x.id THEN x.status
                                                      ELSE mqttPending[o].answer
      BY <2>2, <3>1, <3>2 DEF CallsTyped, PendingState
    <3>5. CallsTyped'
      BY <1>1, <3>3 DEF CallsTyped
    <3>6. Told'
      BY <1>1, <3>1, <3>4 DEF Told
    <3> QED
      BY <3>5, <3>6
  <2> QED
    BY <1>1, <2>1, <2>2
<1> QED
  BY <1>1, <1>4, <1>5, <1>6

LEMMA MqttQueueSteps ==
    ASSUME Mqtt!MqttConstants, MInv,
           \/ \E x \in routed : Mqtt!Offer(x)
           \/ Mqtt!OfferReading \/ Mqtt!Take
    PROVE  MInv'
<1> USE DEF MInv, MqttTyped
<1>1. \A x \in OfDevices : x.kind = "reading" => HasConfig(x)
  BY DEF HasConfig
<1>2. Mqtt!Reading.kind = "reading" /\ Mqtt!Upward \subseteq OfDevices /\ Mqtt!Reading \in OfDevices
  BY DEF Mqtt!Reading, OfDevices
<1>3. CallsTyped' /\ Told' /\ EventsTyped' /\ Acknowledged' /\ wire' \subseteq Messages
  <2>1. UNCHANGED <<mqttCall, mqttPending, wire, did, event, eventOutbox, acks, config>>
    BY DEF Mqtt!Offer, Mqtt!OfferReading, Mqtt!Take
  <2>2. CallsTyped' /\ Told'
    BY <2>1, CallsRest
  <2> QED
    BY <2>1, <2>2 DEF EventsTyped, Acknowledged
<1>4. QueuesTyped' /\ Identified'
  <2>1. CASE \E x \in routed : Mqtt!Offer(x)
    <3> PICK x \in routed : Mqtt!Offer(x)
      BY <2>1
    <3>1. /\ x \in OfDevices /\ HasConfig(x) /\ upstream' = Append(upstream, x)
          /\ routed' \subseteq routed /\ handled' = handled
      BY <1>2 DEF Mqtt!Offer, QueuesTyped, Identified
    <3> QED
      BY <3>1 DEF QueuesTyped, Identified, HasConfig
  <2>2. CASE Mqtt!OfferReading
    BY <1>1, <1>2, <2>2 DEF Mqtt!OfferReading, QueuesTyped, Identified, HasConfig
  <2>3. CASE Mqtt!Take
    <3>1. /\ Head(upstream) = upstream[1] /\ upstream[1] \in OfDevices /\ 1 \in 1..Len(upstream)
          /\ Tail(upstream) \in Seq(OfDevices) /\ Len(upstream) \in Nat
          /\ Len(Tail(upstream)) = Len(upstream) - 1
          /\ \A i \in 1..Len(upstream) - 1 : Tail(upstream)[i] = upstream[i + 1]
      BY <2>3 DEF Mqtt!Take, QueuesTyped
    <3>2. handled' = upstream[1] /\ upstream' = Tail(upstream) /\ routed' = routed
      BY <2>3, <3>1 DEF Mqtt!Take
    <3>3. \A i \in 1..Len(upstream') : HasConfig(upstream'[i])
      <4> TAKE i \in 1..Len(upstream')
      <4>1. i + 1 \in 1..Len(upstream) /\ upstream'[i] = upstream[i + 1]
        BY <3>1, <3>2
      <4> QED
        BY <4>1 DEF Identified
    <3> QED
      BY <3>1, <3>2, <3>3 DEF QueuesTyped, Identified, HasConfig
  <2> QED
    BY <2>1, <2>2, <2>3
<1> QED
  BY <1>3, <1>4

\* The manager stores an event with its configuration, which is not 0.
LEMMA PublishSteps ==
    ASSUME Mqtt!MqttConstants, MInv, Mqtt!Publish
    PROVE  MInv'
<1> USE DEF MInv, MqttTyped
<1>1. /\ UNCHANGED <<mqttCall, mqttPending, wire, did, event, routed, upstream, config>>
      /\ handled' = None
  BY DEF Mqtt!Publish
<1>2. CallsTyped' /\ Told'
  BY <1>1, CallsRest
<1>3. QueuesTyped' /\ Identified'
  BY <1>1 DEF QueuesTyped, Identified, HasConfig
<1>4. EventsTyped' /\ Acknowledged'
  <2>1. CASE handled.kind = "event"
    <3>1. /\ handled.id \in Events /\ handled.config \in Nat \ {0}
      <4>1. handled \in OfDevices /\ HasConfig(handled)
        BY DEF Mqtt!Publish, QueuesTyped, Identified
      <4>2. \E m \in Events, k \in 0..MaxConfigs :
               handled = [kind |-> "event", id |-> m, config |-> k]
        BY <2>1, <4>1, Fields DEF OfDevices, Mqtt!Upward, Mqtt!Replies, Mqtt!Reading
      <4> QED
        BY <2>1, <4>1, <4>2 DEF HasConfig, Mqtt!MqttConstants
    <3> DEFINE e == handled.id
               k == handled.config
    <3>2. /\ eventOutbox' = [eventOutbox EXCEPT ![e] = k]
          /\ acks' \in {acks, Append(acks, e)}
      BY <2>1 DEF Mqtt!Publish
    <3> HIDE DEF e, k
    <3>3. e \in Events /\ k \in Nat \ {0}
      BY <3>1 DEF e, k
    <3>4. EventsTyped'
      <4>1. eventOutbox' \in [Events -> Nat]
        BY <3>2, <3>3 DEF EventsTyped
      <4>2. acks' \in Seq(Events)
        <5>1. acks \in Seq(Events)
          BY DEF EventsTyped
        <5>2. Append(acks, e) \in Seq(Events)
          BY <3>3, <5>1
        <5> QED
          BY <3>2, <5>1, <5>2
      <4> QED
        BY <1>1, <4>1, <4>2 DEF EventsTyped
    <3>5. \A m \in Events : eventOutbox[m] # 0 \/ m = e => eventOutbox'[m] # 0
      BY <3>2, <3>3 DEF EventsTyped
    <3>6. \A i \in 1..Len(acks') : acks'[i] \in Events /\ eventOutbox'[acks'[i]] # 0
      <4>1. CASE acks' = acks
        BY <4>1, <3>5 DEF Acknowledged, EventsTyped
      <4>2. CASE acks' = Append(acks, e)
        <5> TAKE i \in 1..Len(acks')
        <5>1. /\ acks \in Seq(Events) /\ Len(acks) \in Nat
              /\ acks'[i] = IF i \in 1..Len(acks) THEN acks[i] ELSE e
          BY <3>3, <4>2 DEF EventsTyped
        <5>2. i \in 1..Len(acks) => acks[i] \in Events /\ eventOutbox[acks[i]] # 0
          BY <5>1 DEF Acknowledged
        <5> QED
          BY <5>1, <5>2, <3>3, <3>5
      <4> QED
        BY <3>2, <4>1, <4>2
    <3>7. \A x \in wire : x.kind = "ack" => x.id \in Events
      BY Fields DEF Messages, Mqtt!Replies
    <3>8. Acknowledged'
      BY <1>1, <3>5, <3>6, <3>7 DEF Acknowledged
    <3> QED
      BY <3>4, <3>8
  <2>2. CASE handled.kind # "event"
    BY <1>1, <2>2 DEF Mqtt!Publish, EventsTyped, Acknowledged
  <2> QED
    BY <2>1, <2>2
<1> QED
  BY <1>1, <1>2, <1>3, <1>4

LEMMA AckSteps ==
    ASSUME Mqtt!MqttConstants, MInv, Mqtt!PublishAck \/ Mqtt!Replace
    PROVE  MInv'
<1> USE DEF MInv, MqttTyped
<1>1. CASE Mqtt!PublishAck
  <2>1. /\ Head(acks) = acks[1] /\ acks[1] \in Events /\ 1 \in 1..Len(acks)
        /\ Tail(acks) \in Seq(Events) /\ Len(acks) \in Nat /\ Len(Tail(acks)) = Len(acks) - 1
        /\ \A i \in 1..Len(acks) - 1 : Tail(acks)[i] = acks[i + 1]
    BY <1>1 DEF Mqtt!PublishAck, EventsTyped
  <2>2. /\ wire' = wire \cup {Mqtt!Ack(acks[1])} /\ acks' = Tail(acks)
        /\ UNCHANGED <<mqttCall, mqttPending, did, event, routed, upstream, handled, eventOutbox,
                       config>>
    BY <1>1, <2>1 DEF Mqtt!PublishAck
  <2>3. wire' \subseteq Messages /\ \A x \in wire' : x.kind = "reply" => x \in wire
    BY <2>1, <2>2, Fields DEF Messages
  <2>4. CallsTyped' /\ Told'
    BY <2>2, <2>3, CallsRest
  <2>5. EventsTyped' /\ QueuesTyped' /\ Identified'
    BY <2>1, <2>2 DEF EventsTyped, QueuesTyped, Identified, HasConfig
  <2>6. \A i \in 1..Len(acks') : eventOutbox[acks'[i]] # 0
    <3> TAKE i \in 1..Len(acks')
    <3>1. i + 1 \in 1..Len(acks) /\ acks'[i] = acks[i + 1]
      BY <2>1, <2>2
    <3> QED
      BY <3>1 DEF Acknowledged
  <2>7. \A x \in wire' : x.kind = "ack" => eventOutbox[x.id] # 0
    BY <2>1, <2>2, Fields DEF Acknowledged
  <2>8. Acknowledged'
    BY <2>2, <2>6, <2>7 DEF Acknowledged
  <2> QED
    BY <2>3, <2>4, <2>5, <2>8
<1>2. CASE Mqtt!Replace
  <2>1. /\ config' = config + 1 /\ config < MaxConfigs /\ routed' = {} /\ acks' = <<>>
        /\ mqttPending' = [c \in Commands |-> Mqtt!NotPending]
        /\ UNCHANGED <<mqttCall, wire, did, event, upstream, handled, eventOutbox>>
    BY <1>2 DEF Mqtt!Replace
  <2>2. QueuesTyped' /\ Identified'
    BY <2>1 DEF QueuesTyped, Identified, HasConfig
  <2>3. EventsTyped'
    <3>1. config' \in 1..MaxConfigs
      BY <2>1 DEF EventsTyped, Mqtt!MqttConstants
    <3>2. acks' \in Seq(Events)
      BY <2>1
    <3>3. event' \in [Events -> [state : {"new", "sent", "acked"}, sends : Nat]]
      BY <2>1 DEF EventsTyped
    <3>4. eventOutbox' \in [Events -> Nat]
      BY <2>1 DEF EventsTyped
    <3> HIDE DEF MInv, MqttTyped
    <3> QED
      BY <3>1, <3>2, <3>3, <3>4 DEF EventsTyped
  <2>4. Acknowledged'
    BY <2>1 DEF Acknowledged
  <2>5. CallsTyped'
    BY <2>1 DEF CallsTyped, PendingState, Mqtt!NotPending
  <2>6. Told'
    BY <2>1 DEF Told, Mqtt!NotPending, Mqtt!MqttConstants
  <2> QED
    BY <2>1, <2>2, <2>3, <2>4, <2>5, <2>6
<1> QED
  BY <1>1, <1>2

LEMMA MqttKeeps ==
    ASSUME Mqtt!MqttConstants, MInv, [Mqtt!Next]_(Mqtt!vars)
    PROVE  MInv'
<1>1. CASE \E x \in wire : Mqtt!Receive(x)
  BY <1>1, ReceiveStep
<1>2. CASE \/ \E x \in routed : Mqtt!Offer(x)
           \/ Mqtt!OfferReading \/ Mqtt!Take
  BY <1>2, MqttQueueSteps
<1>3. CASE Mqtt!Refused \/ UNCHANGED Mqtt!vars
  BY <1>3 DEF Mqtt!Refused, Mqtt!vars, MInv, MqttTyped, CallsTyped, EventsTyped, QueuesTyped,
              Identified, HasConfig, Acknowledged, Told
<1> QED
  BY <1>1, <1>2, <1>3, CommandSteps, DeviceSteps, PublishSteps, AckSteps
     DEF Mqtt!Next, Mqtt!HandlerStep, Mqtt!ManagerStep

LEMMA MqttSound ==
    ASSUME MInv
    PROVE  Mqtt!AckedIsStored /\ Mqtt!AnswerTrue
<1>1. Mqtt!AckedIsStored
  BY Fields DEF MInv, Acknowledged, Mqtt!AckedIsStored
<1>2. Mqtt!AnswerTrue
  BY DEF MInv, Told, Mqtt!AnswerTrue
<1> QED
  BY <1>1, <1>2

\* An event that its device takes for committed is stored, and a command that
\* is answered by its device has been dealt with as answered (runtime.Publish,
\* the loop of the connector manager, routePayload).
THEOREM MqttIsTrue ==
    Mqtt!MqttConstants => (Mqtt!Spec => [](Mqtt!AckedIsStored /\ Mqtt!AnswerTrue))
<1> SUFFICES ASSUME Mqtt!MqttConstants
             PROVE  Mqtt!Spec => [](Mqtt!AckedIsStored /\ Mqtt!AnswerTrue)
  OBVIOUS
<1>1. Mqtt!Init => MInv
  BY MqttInit
<1>2. MInv /\ [Mqtt!Next]_(Mqtt!vars) => MInv'
  BY MqttKeeps
<1>3. MInv => Mqtt!AckedIsStored /\ Mqtt!AnswerTrue
  BY MqttSound
<1> QED
  BY <1>1, <1>2, <1>3, PTL DEF Mqtt!Spec

=============================================================================
