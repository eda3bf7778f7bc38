---------------------------- MODULE ReplayBuffer ----------------------------
(***************************************************************************)
(* Readings on their way to the MQTT broker through the continuous buffer  *)
(* of a gateway, a table outbound_messages.  A publication stores its      *)
(* reading, claims it and sends it at once when the broker is connected;   *)
(* the replay loop claims batches of what is left.  A claim is a lease.    *)
(* When the buffer is full, and when a reading is too old, readings are    *)
(* given up and recorded as gaps, which travel through the durable outbox. *)
(* A reading is a number, its place in the order of creation.              *)
(***************************************************************************)
EXTENDS Naturals, FiniteSets

CONSTANTS
    Readings,       \* a set of numbers
    Capacity,       \* readings the buffer may hold (MaxSizeMB)
    Batch,          \* readings in one batch of the replay
    MaxFaults       \* bound: crashes, lost connections, failed calls, repetitions

VARIABLES
    row,            \* table outbound_messages: status, lease and age of a reading
    gaps,           \* table buffer_gaps
    reported,       \* gaps in the durable outbox
    received,       \* history: readings the broker has
    offered,        \* history: readings published
    promised,       \* history: readings the buffer has accepted
    call,           \* Adapter.publishReliable, one at a time (Runtime.publishMu)
    replay,         \* Adapter.replayLoop
    sweep,          \* Store.Cleanup
    linked,         \* the broker is connected
    faults

vars == <<row, gaps, reported, received, offered, promised, call, replay, sweep, linked,
          faults>>

Absent == [st |-> "absent", lapsed |-> FALSE, old |-> FALSE]
Stored == {m \in Readings : row[m].st # "absent"}

(* A sender (the call or the replay): what it has claimed and, once it has  *)
(* tried to send it, whether the broker acknowledged.                       *)
Idle == [pc |-> "idle", batch |-> {}, ok |-> FALSE]

Fault == faults < MaxFaults /\ faults' = faults + 1

Least(S) == CHOOSE m \in S : \A n \in S : m <= n

(* The store's mutex, held by Enqueue and by Cleanup.                       *)
Unlocked == call.pc \notin {"room"} /\ sweep = "idle"

-----------------------------------------------------------------------------
(* Store.Enqueue: a known identifier is left as it is.  A publication is    *)
(* repeated when it failed, here or in a later part.                        *)
Enqueue(m) ==
    /\ call.pc = "idle" /\ Unlocked
    /\ offered' = offered \cup {m}
    /\ IF m \in offered THEN Fault ELSE UNCHANGED faults
    /\ row' = [row EXCEPT ![m] = IF @ = Absent THEN [@ EXCEPT !.st = "pending"] ELSE @]
    /\ call' = [Idle EXCEPT !.pc = "room", !.batch = {m}]
    /\ UNCHANGED <<gaps, reported, received, promised, replay, sweep, linked>>

(* Fault: a reading is given up without a record.                           *)
EvictSilently(m) == row' = [row EXCEPT ![m] = Absent] /\ UNCHANGED gaps

(* One transaction: the gap of a reading nobody acknowledged, and the row.  *)
Evict(m) ==
    /\ row' = [row EXCEPT ![m] = Absent]
    /\ gaps' = IF row[m].st = "completed" THEN gaps ELSE gaps \cup {m}

Full == Cardinality(Stored) > Capacity

(* What may be given up: never a reading being sent, completed ones first.  *)
Evictable ==
    LET completed == {m \in Stored : row[m].st = "completed"}
        pending == {m \in Stored : row[m].st = "pending"}
    IN  IF completed # {} THEN completed ELSE pending

(* enforceCapacity, inside Enqueue or Cleanup.                              *)
EnforceCapacity ==
    /\ call.pc = "room" \/ sweep = "room"
    /\ Full /\ Evictable # {}
    /\ Evict(Least(Evictable))
    /\ UNCHANGED <<offered, reported, received, promised, call, replay, sweep, linked, faults>>

(* The end of Enqueue: it fails when everything is being sent or when it    *)
(* has given up its own reading, and else the publication goes on.          *)
Enqueued ==
    /\ call.pc = "room" /\ (Full => Evictable = {})
    /\ IF Full \/ call.batch \cap Stored = {}
       THEN call' = Idle /\ UNCHANGED promised
       ELSE /\ promised' = promised \cup call.batch
            /\ call' = IF linked THEN [call EXCEPT !.pc = "claim"] ELSE Idle
    /\ UNCHANGED <<offered, row, gaps, reported, received, replay, sweep, linked, faults>>

Sending(S) ==
    [m \in Readings |-> IF m \in S THEN [row[m] EXCEPT !.st = "sending", !.lapsed = FALSE]
                                   ELSE row[m]]

(* Fault: a lease that ended with its holder is never taken over.           *)
ClaimablePending == {m \in Stored : row[m].st = "pending"}

Claimable == {m \in Stored : \/ row[m].st = "pending"
                             \/ row[m].st = "sending" /\ row[m].lapsed}

(* ClaimByMessageID                                                         *)
ClaimOwn ==
    /\ call.pc = "claim"
    /\ IF call.batch \subseteq Claimable
       THEN row' = Sending(call.batch) /\ call' = [call EXCEPT !.pc = "send"]
       ELSE call' = Idle /\ UNCHANGED row
    /\ UNCHANGED <<offered, gaps, reported, received, promised, replay, sweep, linked, faults>>

(* ClaimPending: the oldest ones.                                           *)
ClaimBatch ==
    /\ replay.pc = "idle" /\ linked /\ Claimable # {}
    /\ LET oldest == {m \in Claimable : Cardinality({n \in Claimable : n < m}) < Batch}
       IN  /\ row' = Sending(oldest)
           /\ replay' = [Idle EXCEPT !.pc = "send", !.batch = oldest]
    /\ UNCHANGED <<offered, gaps, reported, received, promised, call, sweep, linked, faults>>

(* publishBatch: a message to the broker and its acknowledgement.  A send   *)
(* that fails may have reached the broker.                                  *)
Send(s, next) ==
    \/ /\ linked
       /\ received' = received \cup s.batch
       /\ next = [s EXCEPT !.pc = "settle", !.ok = TRUE]
       /\ UNCHANGED faults
    \/ /\ ~linked
       /\ next = [s EXCEPT !.pc = "settle"]
       /\ UNCHANGED <<received, faults>>
    \/ /\ linked /\ Fault
       /\ received' \in {received, received \cup s.batch}
       /\ next = [s EXCEPT !.pc = "settle"]

SendOwn ==
    /\ call.pc = "send" /\ Send(call, call')
    /\ UNCHANGED <<offered, row, gaps, reported, promised, replay, sweep, linked>>
SendBatch ==
    /\ replay.pc = "send" /\ Send(replay, replay')
    /\ UNCHANGED <<offered, row, gaps, reported, promised, call, sweep, linked>>

(* MarkCompleted and MarkFailed name the rows and ask for nothing else: a   *)
(* holder whose lease has ended overwrites what a later one did.            *)
Mark(s) ==
    row' = [m \in Readings |->
              IF m \notin s.batch \cap Stored THEN row[m]
              ELSE IF s.ok THEN [st |-> "completed", lapsed |-> FALSE, old |-> FALSE]
              ELSE [row[m] EXCEPT !.st = "pending", !.lapsed = FALSE]]

(* A mark that fails leaves the reading to the end of its lease.            *)
Settle(s, next) ==
    /\ s.pc = "settle"
    /\ next = Idle
    /\ \/ Mark(s) /\ UNCHANGED faults
       \/ Fault /\ UNCHANGED row

SettleOwn ==
    /\ Settle(call, call')
    /\ UNCHANGED <<offered, gaps, reported, received, promised, replay, sweep, linked>>
SettleBatch ==
    /\ Settle(replay, replay')
    /\ UNCHANGED <<offered, gaps, reported, received, promised, call, sweep, linked>>

-----------------------------------------------------------------------------
(* Cleanup: completed rows past the retention, *)
DeleteCompleted ==
    /\ sweep = "idle" /\ Unlocked
    /\ \E m \in Stored : row[m].old
    /\ row' = [m \in Readings |-> IF row[m].st = "completed" /\ row[m].old THEN Absent
                                                                          ELSE row[m]]
    /\ sweep' = "expire"
    /\ UNCHANGED <<offered, gaps, reported, received, promised, call, replay, linked, faults>>

(* then every other row past it, those being sent included, each with its   *)
(* gap, in one transaction, *)
ExpireTelemetry ==
    /\ sweep = "expire"
    /\ LET expired == {m \in Stored : row[m].old /\ row[m].st # "completed"}
       IN  /\ row' = [m \in Readings |-> IF m \in expired THEN Absent ELSE row[m]]
           /\ gaps' = gaps \cup expired
    /\ sweep' = "room"
    /\ UNCHANGED <<offered, reported, received, promised, call, replay, linked, faults>>

(* then the capacity.                                                       *)
Swept ==
    /\ sweep = "room" /\ (Full => Evictable = {})
    /\ sweep' = "idle"
    /\ UNCHANGED <<offered, row, gaps, reported, received, promised, call, replay, linked, faults>>

(* replayDurable: a gap is published and then deleted; publication is       *)
(* idempotent and waits for the call in progress.                           *)
ReportGap(m) ==
    /\ m \in gaps \ reported /\ call.pc = "idle"
    /\ reported' = reported \cup {m}
    /\ UNCHANGED <<offered, row, gaps, received, promised, call, replay, sweep, linked, faults>>
GapForwarded(m) ==
    /\ m \in gaps \cap reported
    /\ gaps' = gaps \ {m}
    /\ UNCHANGED <<offered, row, reported, received, promised, call, replay, sweep, linked, faults>>

-----------------------------------------------------------------------------
(* The lease of a claim ends; the retention of a row ends.                  *)
Lapse(m) ==
    /\ row[m].st = "sending" /\ ~row[m].lapsed
    /\ row' = [row EXCEPT ![m].lapsed = TRUE]
    /\ UNCHANGED <<offered, gaps, reported, received, promised, call, replay, sweep, linked, faults>>
Age(m) ==
    /\ m \in Stored /\ ~row[m].old
    /\ row' = [row EXCEPT ![m].old = TRUE]
    /\ UNCHANGED <<offered, gaps, reported, received, promised, call, replay, sweep, linked, faults>>

Connect ==
    /\ ~linked /\ linked' = TRUE
    /\ UNCHANGED <<offered, row, gaps, reported, received, promised, call, replay, sweep, faults>>
ConnectionLost ==
    /\ linked /\ Fault /\ linked' = FALSE
    /\ UNCHANGED <<offered, row, gaps, reported, received, promised, call, replay, sweep>>
Crash ==
    /\ Fault
    /\ call' = Idle /\ replay' = Idle /\ sweep' = "idle" /\ linked' = FALSE
    /\ UNCHANGED <<offered, row, gaps, reported, received, promised>>

Init ==
    /\ row = [m \in Readings |-> Absent]
    /\ gaps = {} /\ reported = {} /\ received = {} /\ offered = {} /\ promised = {}
    /\ call = Idle /\ replay = Idle /\ sweep = "idle"
    /\ linked = FALSE /\ faults = 0

CallStep == Enqueued \/ ClaimOwn \/ SendOwn \/ SettleOwn \/ (call.pc = "room" /\ EnforceCapacity)
ReplayStep == ClaimBatch \/ SendBatch \/ SettleBatch
SweepStep == ExpireTelemetry \/ Swept \/ (sweep = "room" /\ EnforceCapacity)

Next ==
    \/ \E m \in Readings : Enqueue(m) \/ ReportGap(m) \/ GapForwarded(m) \/ Lapse(m) \/ Age(m)
    \/ CallStep \/ ReplayStep
    \/ DeleteCompleted \/ SweepStep
    \/ Connect \/ ConnectionLost \/ Crash

(* The goroutines run, time passes, and the client reconnects by itself.    *)
Fairness ==
    /\ WF_vars(CallStep) /\ WF_vars(ReplayStep) /\ WF_vars(SweepStep)
    /\ WF_vars(Connect)
    /\ \A m \in Readings : WF_vars(Lapse(m)) /\ WF_vars(ReportGap(m))

Spec == Init /\ [][Next]_vars /\ Fairness

-----------------------------------------------------------------------------
Senders == {call, replay}

TypeOK ==
    /\ row \in [Readings -> [st : {"absent", "pending", "sending", "completed"},
                             lapsed : BOOLEAN, old : BOOLEAN]]
    /\ gaps \cup reported \cup received \cup offered \cup promised \subseteq Readings
    /\ \A s \in Senders : s.pc \in {"idle", "room", "claim", "send", "settle"}
    /\ Cardinality(replay.batch) <= Batch
    /\ sweep \in {"idle", "expire", "room"} /\ linked \in BOOLEAN /\ faults \in 0 .. MaxFaults

(* Nothing is lost between the buffer and the broker: an accepted reading   *)
(* is in the buffer, at the broker, or recorded as a gap, whatever leases,  *)
(* evictions, expiry and crashes do, and a row counts as completed only     *)
(* when the broker has its reading (recordGap in one transaction with the   *)
(* deletion; MarkCompleted after the acknowledgement).                      *)
NothingLost ==
    /\ promised \subseteq Stored \cup received \cup gaps \cup reported
    /\ \A m \in Readings : row[m].st = "completed" => m \in received

(* An accepted reading is delivered or reported missing in the end, a crash *)
(* with a claim in hand included (the leases of ClaimPending).              *)
DeliveredOrReported ==
    \A m \in Readings : m \in promised ~> m \in received \cup reported
=============================================================================
