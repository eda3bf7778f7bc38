------------------------------- MODULE Outbox -------------------------------
(***************************************************************************)
(* Events, states and command responses on their way from the durable      *)
(* outbox of a gateway to the database of the edge: the bridge polls the   *)
(* messages that are not acknowledged, stores a batch in one transaction,  *)
(* or one message at a time when the batch fails, and acknowledges each    *)
(* message after its transaction.  The row of a message is known by its    *)
(* place in the outbox, which is the order of its sequence number.         *)
(***************************************************************************)
EXTENDS Naturals, Sequences, FiniteSets

CONSTANTS
    Ids,            \* message identifiers
    Body,           \* contents; equal contents have equal digests
    Device,         \* Device[id]: the device a message names, or None
    Devices,
    Limit,          \* messages in one poll
    MaxFaults,      \* bound: failed transactions and calls, abandoned polls
    MaxChanges,     \* bound: changes of the approval of a device
    None

ASSUME OutboxAssumption ==
    /\ Device \in [Ids -> Devices \cup {None}] /\ None \notin Devices \cup Body
    /\ Limit \in Nat \ {0} /\ MaxFaults \in Nat /\ MaxChanges \in Nat

VARIABLES
    outbox,     \* table durable_outbox of the gateway
    approved,   \* devices approved at this edge
    changes,
    inbox,      \* table inbox of the edge: body of the message or None
    applied,    \* history: how often the content of a message was written
    worker,     \* Bridge.PollPending
    net,        \* acknowledgements whose caller gave up waiting
    faults

vars == <<outbox, approved, changes, inbox, applied, worker, net, faults>>

(* The messages of the call of AcceptBatch in progress, and the batch to    *)
(* take one by one if it fails, or the messages left to be taken so.        *)
Idle == [pc |-> "idle", turn |-> {}, rest |-> {}, single |-> FALSE, failed |-> FALSE]

Unacknowledged == {i \in DOMAIN outbox : ~outbox[i].acked}

(* The rows a poll returns: the first ones in order of sequence.            *)
Pending == {i \in Unacknowledged :
              Cardinality({j \in Unacknowledged : j < i}) < Limit}

First(S) == CHOOSE i \in S : \A j \in S : i <= j

(* prepare refuses a message without device or of a device not approved.    *)
Acceptable(i) == Device[outbox[i].id] \in approved

Fault == faults < MaxFaults /\ faults' = faults + 1

-----------------------------------------------------------------------------
(* Fault: a second message of an identifier replaces the first.             *)
EnqueueOver(id, body) ==
    /\ IF \E i \in DOMAIN outbox : outbox[i].id = id
       THEN outbox' = [i \in DOMAIN outbox |->
                         IF outbox[i].id = id THEN [outbox[i] EXCEPT !.body = body]
                                              ELSE outbox[i]]
       ELSE outbox' = Append(outbox, [id |-> id, body |-> body, acked |-> FALSE])
    /\ UNCHANGED <<approved, changes, inbox, applied, worker, net, faults>>

(* Enqueue takes a message of a new identifier.  A repetition is a success, *)
(* and another content under a known identifier a conflict: neither changes *)
(* the row, acknowledged or not.                                            *)
Enqueue(id, body) ==
    /\ \A i \in DOMAIN outbox : outbox[i].id # id
    /\ outbox' = Append(outbox, [id |-> id, body |-> body, acked |-> FALSE])
    /\ UNCHANGED <<approved, changes, inbox, applied, worker, net, faults>>

(* The status of a device changes, *)
ChangeDevice(d) ==
    /\ changes < MaxChanges /\ changes' = changes + 1
    /\ approved' = IF d \in approved THEN approved \ {d} ELSE approved \cup {d}
    /\ UNCHANGED <<outbox, inbox, applied, worker, net, faults>>

(* Fault: a poll without limit.                                             *)
PollAll ==
    /\ worker.pc = "idle" /\ Unacknowledged # {}
    /\ worker' = [Idle EXCEPT !.pc = "prepare", !.turn = Unacknowledged]
    /\ UNCHANGED <<outbox, approved, changes, inbox, applied, net, faults>>

(* and the bridge polls every 200 ms.                                       *)
Poll ==
    /\ worker.pc = "idle" /\ Pending # {}
    /\ worker' = [Idle EXCEPT !.pc = "prepare", !.turn = Pending]
    /\ UNCHANGED <<outbox, approved, changes, inbox, applied, net, faults>>

(* The next call of AcceptBatch, for one of these messages.                 *)
NextSingle(messages) ==
    IF messages = {} THEN Idle
    ELSE [Idle EXCEPT !.pc = "prepare", !.turn = {First(messages)},
                      !.rest = messages \ {First(messages)}, !.single = TRUE]

(* Fault: nothing follows a batch that failed.                              *)
GiveUpAfter(batch, ok) == IF worker.single THEN NextSingle(worker.rest) ELSE Idle

(* AcceptBatch returns: a batch that failed is taken one by one.            *)
After(batch, ok) ==
    IF worker.single THEN NextSingle(worker.rest)
    ELSE IF ok THEN Idle ELSE NextSingle(batch)

(* Messages are prepared one after the other, outside of the transaction.   *)
Prepare ==
    /\ worker.pc = "prepare"
    /\ worker' = IF \A i \in worker.turn : Acceptable(i)
                 THEN [worker EXCEPT !.pc = "ingest",
                                     !.rest = IF worker.single THEN @ ELSE worker.turn]
                 ELSE After(worker.turn, FALSE)
    /\ UNCHANGED <<outbox, approved, changes, inbox, applied, net, faults>>

New(i) == inbox[outbox[i].id] = None

Conflicts(i) == inbox[outbox[i].id] \notin {None, outbox[i].body}

(* Fault: the content of a message is written whether it is new or not.     *)
WriteAlways ==
    /\ inbox' = [id \in Ids |->
                   IF \E i \in worker.turn : outbox[i].id = id
                   THEN outbox[CHOOSE i \in worker.turn : outbox[i].id = id].body
                   ELSE inbox[id]]
    /\ applied' = [id \in Ids |->
                     IF \E i \in worker.turn : outbox[i].id = id
                     THEN applied[id] + 1 ELSE applied[id]]

(* The transaction of IngestMessages.                                       *)
Write ==
    /\ inbox' = [id \in Ids |->
                   IF \E i \in worker.turn : outbox[i].id = id
                   THEN outbox[CHOOSE i \in worker.turn : outbox[i].id = id].body
                   ELSE inbox[id]]
    /\ applied' = [id \in Ids |->
                     IF \E i \in worker.turn : outbox[i].id = id /\ New(i)
                     THEN applied[id] + 1 ELSE applied[id]]

(* Fault: the messages are acknowledged although the transaction failed.    *)
IngestUnchecked ==
    /\ worker.pc = "ingest"
    /\ worker' = [worker EXCEPT !.pc = "ack"]
    /\ \/ Write /\ UNCHANGED faults
       \/ Fault /\ UNCHANGED <<inbox, applied>>
    /\ UNCHANGED <<outbox, approved, changes, net>>

(* It fails as a whole on a conflict, or for reasons of its own, and an     *)
(* error may hide that it was committed.                                    *)
Ingest ==
    /\ worker.pc = "ingest"
    /\ \/ /\ \A i \in worker.turn : ~Conflicts(i)
          /\ Write
          /\ \/ worker' = [worker EXCEPT !.pc = "ack"] /\ UNCHANGED faults
             \/ worker' = After(worker.turn, FALSE) /\ Fault
       \/ /\ \/ Fault
             \/ (\E i \in worker.turn : Conflicts(i)) /\ UNCHANGED faults
          /\ worker' = After(worker.turn, FALSE)
          /\ UNCHANGED <<inbox, applied>>
    /\ UNCHANGED <<outbox, approved, changes, net>>

(* Acknowledge: the row with this identifier and this digest.               *)
Acknowledge(ack) ==
    outbox' = [i \in DOMAIN outbox |->
                 IF outbox[i].id = ack[1] /\ outbox[i].body = ack[2]
                 THEN [outbox[i] EXCEPT !.acked = TRUE] ELSE outbox[i]]

(* The bridge acknowledges what it stored, in order.  A call that fails may *)
(* be carried out at once, later, or never, and the batch is then repeated. *)
SendAck ==
    /\ worker.pc = "ack" /\ worker.turn # {}
    /\ LET i == First(worker.turn)
           ack == <<outbox[i].id, outbox[i].body>>
       IN \/ /\ Acknowledge(ack)
             /\ worker' = [worker EXCEPT !.turn = @ \ {i}]
             /\ UNCHANGED <<net, faults>>
          \/ /\ Fault
             /\ net' = net \cup {ack}
             /\ worker' = [worker EXCEPT !.turn = @ \ {i}, !.failed = TRUE]
             /\ UNCHANGED outbox
    /\ UNCHANGED <<approved, changes, inbox, applied>>

EndOfTurn ==
    /\ worker.pc = "ack" /\ worker.turn = {}
    /\ worker' = After(worker.rest, ~worker.failed)
    /\ UNCHANGED <<outbox, approved, changes, inbox, applied, net, faults>>

LateAck ==
    /\ \E ack \in net : Acknowledge(ack) /\ net' = net \ {ack}
    /\ UNCHANGED <<approved, changes, inbox, applied, worker, faults>>

(* The time of the poll is over, or the edge restarts.                      *)
Abandon ==
    /\ worker.pc # "idle" /\ Fault
    /\ worker' = Idle
    /\ UNCHANGED <<outbox, approved, changes, inbox, applied, net>>

-----------------------------------------------------------------------------
Init ==
    /\ outbox = <<>> /\ approved \in SUBSET Devices /\ changes = 0
    /\ inbox = [id \in Ids |-> None] /\ applied = [id \in Ids |-> 0]
    /\ worker = Idle /\ net = {} /\ faults = 0

Work == Poll \/ Prepare \/ Ingest \/ SendAck \/ EndOfTurn

Next == \/ \E id \in Ids, body \in Body : Enqueue(id, body)
        \/ \E d \in Devices : ChangeDevice(d)
        \/ Work \/ LateAck \/ Abandon

(* The loop of the bridge goes on.  A delayed acknowledgement need not ever *)
(* arrive; what fails is bounded by MaxFaults.                              *)
Spec == Init /\ [][Next]_vars /\ WF_vars(Work)

-----------------------------------------------------------------------------
TypeOK ==
    /\ outbox \in Seq([id : Ids, body : Body, acked : BOOLEAN])
    /\ approved \subseteq Devices /\ changes \in 0 .. MaxChanges
    /\ inbox \in [Ids -> Body \cup {None}] /\ applied \in [Ids -> Nat]
    /\ worker \in [pc : {"idle", "prepare", "ingest", "ack"},
                   turn : SUBSET DOMAIN outbox, rest : SUBSET DOMAIN outbox,
                   single : BOOLEAN, failed : BOOLEAN]
    /\ Cardinality(worker.turn \cup worker.rest) <= Limit
    /\ net \subseteq Ids \X Body
    /\ faults \in 0 .. MaxFaults

(* The gateway forgets the payload of a message only when the edge has      *)
(* committed exactly this content, whatever calls were lost or late.        *)
AckedIsStored ==
    \A i \in DOMAIN outbox : outbox[i].acked => inbox[outbox[i].id] = outbox[i].body

(* However often a message is delivered, its content is written once.       *)
AppliedOnce == \A id \in Ids : applied[id] <= 1

(* Messages that the edge cannot take at the moment.                        *)
Stuck == {i \in Unacknowledged : ~Acceptable(i)}

Arrived(i) == i \in DOMAIN outbox /\ outbox[i].acked

(* A message of an approved device is delivered in the end, with and behind *)
(* messages that the edge refuses, as long as these do not fill a poll.     *)
DeliveredAmongRefused ==
    \A i \in 1 .. Cardinality(Ids) :
        <>[](i \in DOMAIN outbox /\ Acceptable(i) /\ Cardinality(Stuck) < Limit)
            => <>Arrived(i)

(* A message of an approved device is delivered in the end.                 *)
DeliveryContinues ==
    \A i \in 1 .. Cardinality(Ids) :
        <>[](i \in DOMAIN outbox /\ Acceptable(i)) => <>Arrived(i)
=============================================================================
