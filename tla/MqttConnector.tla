---------------------------- MODULE MqttConnector ----------------------------
(***************************************************************************)
(* The connector of MQTT devices (connector/mqttdevice) and the loop of    *)
(* the connector manager that publishes what all connectors send upstream  *)
(* (connector/manager.go).  A command is published to its device and waits *)
(* for the answer of the device; an identified event is acknowledged to    *)
(* its device once it is stored (runtime.Publish, state/outbox.go), and    *)
(* sent again until then.  The manager may replace the connector by one    *)
(* with another configuration.                                             *)
(***************************************************************************)
EXTENDS Naturals, Sequences, FiniteSets

CONSTANTS
    Commands, Target,   \* commands, and the device of each one
    Idempotent,         \* commands the service sends again when they fail
    Devices,
    Events, Source,     \* identified events, and the device of each one
    Capacity,           \* of the channel upstream
    AckCapacity,        \* of the queue of acknowledgements (256)
    Ordered,            \* MQTT 5: one handler at a time
    Neighbour,          \* whether another connector sends a reading
    MaxConfigs,         \* bound: configurations of the connector
    MaxSends,           \* bound: how often a device sends an event
    MaxFaults,          \* bound: lost messages, failed writes, wrong answers
    None

VARIABLES
    call,       \* of each command, SendCommand as the command service calls it
    pending,    \* of each command, whether it is in c.pending, and the answer
    wire,       \* messages that the broker holds, for the devices and from them
    did,        \* of each command, what its device has done with it
    event,      \* of each event, what its device knows and how often it sent it
    routed,     \* messages from devices that a handler offers to the channel
    upstream,   \* the channel to the manager
    current,    \* the message that the manager publishes
    outbox,     \* of each event, the configuration it was stored with, or 0
    acks,       \* the queue of acknowledgements
    config,     \* the configuration of the connector
    neighbour,  \* the reading of the other connector
    faults

vars == <<call, pending, wire, did, event, routed, upstream, current, outbox, acks, config,
          neighbour, faults>>

(* Statuses a device answers with; other words count as FAILURE.            *)
Statuses == {"SUCCESS", "REJECTED"}

MqttConstants ==
    /\ Target \in [Commands -> Devices] /\ Source \in [Events -> Devices]
    /\ Idempotent \subseteq Commands /\ None \notin Statuses
    /\ MaxConfigs \in Nat \ {0}

Order(c) == [kind |-> "command", id |-> c]
Reply(c, d, s) == [kind |-> "reply", id |-> c, device |-> d, status |-> s]
Event(m) == [kind |-> "event", id |-> m, config |-> 0]
Ack(m) == [kind |-> "ack", id |-> m]
Reading == [kind |-> "reading"]
Replies == {Reply(c, d, s) : c \in Commands, d \in Devices, s \in Statuses}
Upward == Replies \cup {[kind |-> "event", id |-> m, config |-> k] :
                            m \in Events, k \in 0..MaxConfigs}

TypeOK ==
    /\ call \in [Commands -> [pc : {"idle", "publish", "wait", "retry", "done"},
                              attempt : 0..2,
                              answer : Statuses \cup {None, "RESULT_UNKNOWN", "FAILURE"}]]
    /\ pending \in [Commands -> [in : BOOLEAN, answer : Statuses \cup {None}]]
    /\ wire \subseteq Upward \cup {Order(c) : c \in Commands} \cup {Ack(m) : m \in Events}
    /\ did \in [Commands -> Statuses \cup {None}]
    /\ event \in [Events -> [state : {"new", "sent", "acked"}, sends : 0..MaxSends]]
    /\ routed \subseteq Upward
    /\ Len(upstream) <= Capacity
    /\ current \in Upward \cup {None, Reading}
    /\ outbox \in [Events -> 0..MaxConfigs]
    /\ Len(acks) <= AckCapacity /\ config \in 1..MaxConfigs
    /\ neighbour \in {"new", "offered", "published"} /\ faults \in 0..MaxFaults

NotPending == [in |-> FALSE, answer |-> None]

Init ==
    /\ call = [c \in Commands |-> [pc |-> "idle", attempt |-> 0, answer |-> None]]
    /\ pending = [c \in Commands |-> NotPending]
    /\ wire = {} /\ did = [c \in Commands |-> None]
    /\ event = [m \in Events |-> [state |-> "new", sends |-> 0]]
    /\ routed = {} /\ upstream = <<>> /\ current = None
    /\ outbox = [m \in Events |-> 0] /\ acks = <<>> /\ config = 1
    /\ neighbour = IF Neighbour THEN "new" ELSE "published"
    /\ faults = 0

Fault == faults < MaxFaults /\ faults' = faults + 1
-----------------------------------------------------------------------------
(* SendCommand takes a place in the map of pending commands ...             *)
BeginCall(c) ==
    /\ call[c].pc \in {"idle", "retry"} /\ ~pending[c].in
    /\ call' = [call EXCEPT ![c].pc = "publish", ![c].attempt = @ + 1]
    /\ pending' = [pending EXCEPT ![c].in = TRUE]
    /\ UNCHANGED <<wire, did, event, routed, upstream, current, outbox, acks, config,
                   neighbour, faults>>

(* ... publishes the command and waits ...                                  *)
PublishCommand(c) ==
    /\ call[c].pc = "publish"
    /\ call' = [call EXCEPT ![c].pc = "wait"]
    /\ wire' = wire \cup {Order(c)}
    /\ UNCHANGED <<pending, did, event, routed, upstream, current, outbox, acks, config,
                   neighbour, faults>>

(* ... or fails with an error, after the broker took it or not.  The command*)
(* service sends an idempotent command again.                               *)
PublishFails(c) ==
    /\ call[c].pc = "publish" /\ Fault
    /\ wire' \in {wire, wire \cup {Order(c)}}
    /\ pending' = [pending EXCEPT ![c] = NotPending]
    /\ call' = [call EXCEPT ![c] =
           IF c \notin Idempotent THEN [@ EXCEPT !.pc = "done", !.answer = "RESULT_UNKNOWN"]
           ELSE IF @.attempt < 2 THEN [@ EXCEPT !.pc = "retry"]
           ELSE [@ EXCEPT !.pc = "done", !.answer = "FAILURE"]]
    /\ UNCHANGED <<did, event, routed, upstream, current, outbox, acks, config, neighbour>>

(* The answer of the device, or none in time.                               *)
Answered(c) ==
    /\ call[c].pc = "wait" /\ pending[c].answer # None
    /\ call' = [call EXCEPT ![c].pc = "done", ![c].answer = pending[c].answer]
    /\ pending' = [pending EXCEPT ![c] = NotPending]
    /\ UNCHANGED <<wire, did, event, routed, upstream, current, outbox, acks, config,
                   neighbour, faults>>

TimedOut(c) ==
    /\ call[c].pc = "wait"
    /\ call' = [call EXCEPT ![c].pc = "done", ![c].answer = "RESULT_UNKNOWN"]
    /\ pending' = [pending EXCEPT ![c] = NotPending]
    /\ UNCHANGED <<wire, did, event, routed, upstream, current, outbox, acks, config,
                   neighbour, faults>>

(* The device carries a command out, or refuses to, and answers; a command  *)
(* it knows it answers again.  A device with a fault may give the answer to *)
(* a command that is not its own.                                           *)
Execute(c) ==
    /\ Order(c) \in wire
    /\ did' \in [Commands -> Statuses \cup {None}]
    /\ \A o \in Commands : o # c \/ did[o] # None => did'[o] = did[o]
    /\ did'[c] # None
    /\ wire' = (wire \ {Order(c)}) \cup {Reply(c, Target[c], did'[c])}
    /\ UNCHANGED <<call, pending, event, routed, upstream, current, outbox, acks, config,
                   neighbour, faults>>

Misreply(c, d) ==
    /\ Fault /\ d # Target[c] /\ call[c].pc = "wait"
    /\ \E s \in Statuses : wire' = wire \cup {Reply(c, d, s)}
    /\ UNCHANGED <<call, pending, did, event, routed, upstream, current, outbox, acks, config,
                   neighbour>>

(* A device sends an event until it is acknowledged.                        *)
Send(m) ==
    /\ event[m].state # "acked" /\ event[m].sends < MaxSends
    /\ event' = [event EXCEPT ![m] = [state |-> "sent", sends |-> @.sends + 1]]
    /\ wire' = wire \cup {Event(m)}
    /\ UNCHANGED <<call, pending, did, routed, upstream, current, outbox, acks, config,
                   neighbour, faults>>

Acked(m) ==
    /\ Ack(m) \in wire
    /\ wire' = wire \ {Ack(m)}
    /\ event' = [event EXCEPT ![m].state = "acked"]
    /\ UNCHANGED <<call, pending, did, routed, upstream, current, outbox, acks, config,
                   neighbour, faults>>

Lose(x) ==
    /\ Fault /\ wire' = wire \ {x}
    /\ UNCHANGED <<call, pending, did, event, routed, upstream, current, outbox, acks, config,
                   neighbour>>
-----------------------------------------------------------------------------
(* routePayload gives the answer of the device commanded to the call that   *)
(* waits, unless there is one already, and offers every message upstream;   *)
(* an event carries the identity its device has in the configuration.       *)
Mine(x) == pending[x.id].in /\ Target[x.id] = x.device
Receive(x) ==
    /\ x \in wire /\ x.kind \in {"reply", "event"}
    /\ Ordered => routed = {}
    /\ wire' = wire \ {x}
    /\ routed' = routed \cup {IF x.kind = "event" THEN [x EXCEPT !.config = config] ELSE x}
    /\ pending' = IF x.kind = "reply" /\ Mine(x) /\ pending[x.id].answer = None
                  THEN [pending EXCEPT ![x.id].answer = x.status] ELSE pending
    /\ UNCHANGED <<call, did, event, upstream, current, outbox, acks, config, neighbour, faults>>

Offer(x) ==
    /\ x \in routed /\ Len(upstream) < Capacity
    /\ upstream' = Append(upstream, x) /\ routed' = routed \ {x}
    /\ UNCHANGED <<call, pending, wire, did, event, current, outbox, acks, config, neighbour,
                   faults>>

OfferReading ==
    /\ neighbour = "new" /\ Len(upstream) < Capacity
    /\ upstream' = Append(upstream, Reading) /\ neighbour' = "offered"
    /\ UNCHANGED <<call, pending, wire, did, event, routed, current, outbox, acks, config,
                   faults>>

(* The loop of the manager takes a message ...                              *)
Take ==
    /\ current = None /\ upstream # <<>>
    /\ current' = Head(upstream) /\ upstream' = Tail(upstream)
    /\ UNCHANGED <<call, pending, wire, did, event, routed, outbox, acks, config, neighbour,
                   faults>>

(* ... and publishes it.  An event is stored first, which is refused when   *)
(* the same id is there with other content.                                 *)
Storable(x) == x.kind = "event" => outbox[x.id] \in {0, x.config}
Publish ==
    /\ current # None /\ Storable(current)
    /\ IF current.kind = "event"
       THEN /\ outbox' = [outbox EXCEPT ![current.id] = current.config]
            /\ acks' = IF Len(acks) < AckCapacity THEN Append(acks, current.id) ELSE acks
       ELSE UNCHANGED <<outbox, acks>>
    /\ neighbour' = IF current.kind = "reading" THEN "published" ELSE neighbour
    /\ current' = None
    /\ UNCHANGED <<call, pending, wire, did, event, routed, upstream, config, faults>>

(* A message that cannot be published is tried again, every 100 ms; nothing *)
(* else is published meanwhile, and nobody learns of it.                    *)
Refused ==
    /\ current # None /\ Fault
    /\ UNCHANGED <<call, pending, wire, did, event, routed, upstream, current, outbox, acks,
                   config, neighbour>>

PublishAck ==
    /\ acks # <<>>
    /\ wire' = wire \cup {Ack(Head(acks))} /\ acks' = Tail(acks)
    /\ UNCHANGED <<call, pending, did, event, routed, upstream, current, outbox, config,
                   neighbour, faults>>

(* ApplyConnector: the connector is stopped and a new one takes its place,  *)
(* with no pending commands and an empty queue.  The calls of the old one   *)
(* wait for their time to run out.                                          *)
Replace ==
    /\ config < MaxConfigs
    /\ config' = config + 1
    /\ routed' = {} /\ acks' = <<>> /\ pending' = [c \in Commands |-> NotPending]
    /\ UNCHANGED <<call, wire, did, event, upstream, current, outbox, neighbour, faults>>

CommandStep ==
    \E c \in Commands :
        BeginCall(c) \/ PublishCommand(c) \/ PublishFails(c) \/ Answered(c) \/ TimedOut(c)
DeviceStep ==
    \/ \E c \in Commands : Execute(c) \/ \E d \in Devices : Misreply(c, d)
    \/ \E m \in Events : Send(m) \/ Acked(m)
    \/ \E x \in wire : Lose(x)
HandlerStep == \/ \E x \in wire : Receive(x)
               \/ \E x \in routed : Offer(x)
ManagerStep == Take \/ Publish
Next ==
    \/ CommandStep \/ DeviceStep \/ HandlerStep \/ OfferReading \/ ManagerStep \/ Refused
    \/ PublishAck \/ Replace

(* The goroutine of the manager and those of the connectors go on.          *)
Fairness ==
    /\ WF_vars(ManagerStep) /\ WF_vars(OfferReading) /\ WF_vars(PublishAck)
    /\ WF_vars(\E x \in routed : Offer(x))
Spec == Init /\ [][Next]_vars /\ Fairness
-----------------------------------------------------------------------------
(* An event that its device takes for committed is stored.                  *)
AckedIsStored ==
    \A m \in Events : event[m].state = "acked" \/ Ack(m) \in wire => outbox[m] # 0

(* A command that is answered by its device has been dealt with as answered.*)
AnswerTrue ==
    \A c \in Commands : call[c].answer \in Statuses => did[c] = call[c].answer

(* What another connector offers is published in the end, whatever the      *)
(* devices of this one send.                                                *)
NeighbourServed == neighbour = "offered" ~> neighbour = "published"
=============================================================================
