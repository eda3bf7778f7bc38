--------------------------- MODULE TelemetryFeed ---------------------------
(***************************************************************************)
(* The way of a continuous reading through the gateway: the collection     *)
(* queue of the connector manager, Runtime.Publish with the reporting      *)
(* strategy, one bounded queue for each subscribed stream, and the         *)
(* journal of gaps that accounts for the readings a queue gave up.         *)
(* Readings are numbered in the order in which they are collected.  One    *)
(* reading carries one value of one point.  Streams of consumers without   *)
(* an identifier (a missed reading is not recorded for them) are left out. *)
(***************************************************************************)
EXTENDS Naturals, Sequences

CONSTANTS
    MaxReadings,    \* bound: readings collected
    Value,          \* Value[m]: the value that reading m carries
    Mode,           \* reporting strategy in force
    Consumers,      \* identifiers of business consumers
    Streams,        \* calls of SubscribeTelemetry, each used once
    Owner,          \* Owner[s]: consumer of stream s
    UpstreamSize,   \* capacity of the collection queue
    Warning,        \* queue length at which backpressure starts
    Recovery,       \* queue length at which backpressure ends
    StreamSize,     \* capacity of the queue of a stream
    MaxFaults,      \* bound: failures of the journal or the sink, and restarts
    None

Readings == 1 .. MaxReadings

(* The values that the constants can have.                                 *)
FeedConstants ==
    /\ MaxReadings \in Nat /\ UpstreamSize \in Nat /\ StreamSize \in Nat \ {0}
    /\ Warning \in Nat /\ Recovery \in Nat /\ Recovery < Warning
    /\ MaxFaults \in Nat
    /\ Mode \in {"ON_RECEIVED", "ON_CHANGE", "ON_REPORT_PERIOD",
                 "ON_CHANGE_OR_REPORT_PERIOD"}
    /\ Owner \in [Streams -> Consumers]
    /\ None \notin Readings

VARIABLES
    collected,  \* number of readings collected so far
    upstream,   \* Manager.upstream
    bpActive,   \* Manager.bpActive
    policy,     \* backpressure policy
    pub,        \* the loop of Manager.Start and the Publish it is in
    last,       \* value the strategy engine remembers
    sub,        \* Runtime.subscribers
    stream,     \* the goroutine of each stream and the message it holds
    consumers,  \* Runtime.consumers
    saved,      \* table telemetry_consumers
    gaps,       \* journal of gaps: pairs of a scope and a reading
    phase,      \* life of the runtime
    faults,
    handed,     \* history: pairs of a consumer and a reading given to a stream
    owed,       \* history: pairs of a consumer and a published reading
    swallowed,  \* history: let through by the strategy, then filtered on a retry
    forgotten   \* history: pairs in the memory of a process that crashed

journalVars == <<saved, gaps>>
historyVars == <<handed, owed, swallowed, forgotten>>
vars == <<collected, upstream, bpActive, policy, pub, last, sub, stream,
          consumers, journalVars, phase, faults, historyVars>>

ToSet(q) == {q[i] : i \in DOMAIN q}

Idle == [pc |-> "idle", msg |-> None, todo |-> {}, active |-> {}, at |-> None,
         through |-> FALSE]

NoSub == [in |-> FALSE, stopped |-> FALSE, ch |-> <<>>]

(* The collection queue drops a reading for every consumer. *)
Scopes == Consumers \cup {"collection_queue"}

(* Publish holds the read lock of Runtime.mu: nobody registers a consumer,  *)
(* adds a subscription or removes one.                                      *)
Locked == pub.pc \in {"deliver", "full", "wait"}

(* The context of the runtime is the one of every journal call in Publish.  *)
RuntimeAlive == phase \in {"running", "stopping"}

Stopped(s) == sub[s].stopped \/ ~RuntimeAlive

Queued(s) == {<<Owner[s], m>> : m \in ToSet(sub[s].ch)}

-----------------------------------------------------------------------------
(* A connector collects the next reading; it waits while the queue is full. *)
Collect ==
    /\ phase = "running" /\ collected < MaxReadings /\ Len(upstream) < UpstreamSize
    /\ collected' = collected + 1
    /\ upstream' = Append(upstream, collected + 1)
    /\ UNCHANGED <<bpActive, policy, pub, last, sub, stream, consumers, journalVars,
                   phase, faults, historyVars>>

(* RecordGap: one transaction, which fails with the runtime's context or    *)
(* for a reason of its own.                                                 *)
Recorded(lost) == /\ RuntimeAlive
                  /\ gaps' = gaps \cup lost
                  /\ UNCHANGED faults

NotRecorded == /\ \/ ~RuntimeAlive /\ UNCHANGED faults
                  \/ RuntimeAlive /\ faults < MaxFaults /\ faults' = faults + 1
               /\ UNCHANGED gaps

(* Manager.Start takes a reading; *)
Take ==
    /\ pub.pc = "idle" /\ upstream # <<>>
    /\ pub' = [Idle EXCEPT !.pc = "taken", !.msg = Head(upstream)]
    /\ upstream' = Tail(upstream)
    /\ UNCHANGED <<collected, bpActive, policy, last, sub, stream, consumers,
                   journalVars, phase, faults, historyVars>>

(* observes the queue, which may be filling again, and under the policy     *)
(* BP_DROP_OLDEST gives the reading up if the gap can be recorded.          *)
Observe ==
    /\ pub.pc = "taken"
    /\ bpActive' = (\/ Len(upstream) >= Warning
                    \/ bpActive /\ Len(upstream) > Recovery)
    /\ LET kept == pub' = [pub EXCEPT !.pc = "publish"] /\ UNCHANGED owed
           drops == bpActive' /\ policy = "BP_DROP_OLDEST"
       IN \/ ~drops /\ kept /\ UNCHANGED <<gaps, faults>>
          \/ drops /\ NotRecorded /\ kept
          \/ /\ drops /\ Recorded({<<"collection_queue", pub.msg>>})
             /\ owed' = owed \cup {<<c, pub.msg>> : c \in saved}
             /\ pub' = Idle
    /\ UNCHANGED <<collected, upstream, policy, last, sub, stream, consumers, saved,
                   phase, handed, swallowed, forgotten>>

(* The strategy: the first reading and a changed one, or a period is over.  *)
Allows(m, elapsed) ==
    \/ Mode = "ON_RECEIVED"
    \/ Mode \in {"ON_CHANGE", "ON_CHANGE_OR_REPORT_PERIOD"} /\ last # Value[m]
    \/ Mode \in {"ON_REPORT_PERIOD", "ON_CHANGE_OR_REPORT_PERIOD"} /\ elapsed

(* Publish returns an error: the manager logs "publish deferred" and tries  *)
(* again, unless the application stops.                                     *)
Deferred == pub' = IF phase = "running"
                   THEN [Idle EXCEPT !.pc = "retry", !.msg = pub.msg, !.through = TRUE]
                   ELSE Idle

(* The beginning of Publish.  A filtered reading is done.  The upstream     *)
(* sink, called after the strategy, may fail.                               *)
Publish ==
    /\ pub.pc \in {"publish", "retry"} /\ RuntimeAlive
    /\ \E elapsed \in BOOLEAN :
          \/ /\ ~Allows(pub.msg, elapsed)
             /\ pub' = Idle
             /\ swallowed' = swallowed \cup
                   {<<c, pub.msg>> : c \in {d \in saved : pub.through}}
             /\ UNCHANGED <<last, faults>>
          \/ /\ Allows(pub.msg, elapsed)
             /\ last' = Value[pub.msg]
             /\ \/ /\ pub' = [pub EXCEPT !.pc = "deliver",
                                         !.todo = {s \in Streams : sub[s].in}]
                   /\ UNCHANGED faults
                \/ faults < MaxFaults /\ faults' = faults + 1 /\ Deferred
             /\ UNCHANGED swallowed
    /\ UNCHANGED <<collected, upstream, bpActive, policy, sub, stream, consumers,
                   journalVars, phase, handed, owed, forgotten>>

(* Publish fails at once after the runtime's context ended; a deferred      *)
(* reading is not tried again once the application stops.                   *)
GiveUp ==
    /\ \/ pub.pc \in {"publish", "retry"} /\ ~RuntimeAlive
       \/ pub.pc = "retry" /\ phase # "running"
    /\ pub' = Idle
    /\ UNCHANGED <<collected, upstream, bpActive, policy, last, sub, stream, consumers,
                   journalVars, phase, faults, historyVars>>

(* One turn of the loop over the subscribers, in any order.  The queue of a *)
(* stopped one is emptied into the journal of gaps.                         *)
DrainStopped(s) ==
    /\ pub.pc = "deliver" /\ s \in pub.todo /\ Stopped(s)
    /\ \/ /\ sub[s].ch = <<>> \/ RuntimeAlive
          /\ gaps' = gaps \cup Queued(s)
          /\ sub' = [sub EXCEPT ![s].ch = <<>>]
          /\ pub' = [pub EXCEPT !.todo = @ \ {s}]
          /\ UNCHANGED faults
       \/ sub[s].ch # <<>> /\ NotRecorded /\ Deferred /\ UNCHANGED sub
    /\ UNCHANGED <<collected, upstream, bpActive, policy, last, stream, consumers, saved,
                   phase, historyVars>>

(* Fault: a subscription takes a reading whether its queue has room or not. *)
PutUnbounded(s) ==
    /\ pub.pc = "deliver" /\ s \in pub.todo /\ ~Stopped(s)
    /\ sub' = [sub EXCEPT ![s].ch = Append(@, pub.msg)]
    /\ pub' = [pub EXCEPT !.todo = @ \ {s}, !.active = @ \cup {Owner[s]}]
    /\ UNCHANGED <<collected, upstream, bpActive, policy, last, stream, consumers,
                   journalVars, phase, faults, historyVars>>

(* A subscription that was alive when it was looked at gets the reading if  *)
(* its queue has room.                                                      *)
Put(s) ==
    /\ pub.pc = "deliver" /\ s \in pub.todo /\ ~Stopped(s)
    /\ LET going == [pub EXCEPT !.todo = @ \ {s}, !.active = @ \cup {Owner[s]}]
       IN IF Len(sub[s].ch) < StreamSize
          THEN /\ sub' = [sub EXCEPT ![s].ch = Append(@, pub.msg)]
               /\ pub' = going
          ELSE /\ pub' = [going EXCEPT !.pc = "full", !.at = s]
               /\ UNCHANGED sub
    /\ UNCHANGED <<collected, upstream, bpActive, policy, last, stream, consumers,
                   journalVars, phase, faults, historyVars>>

(* Fault: the next action with the error of the gap journal ignored.        *)
DropAnyway(s) ==
    /\ pub.pc = "full" /\ pub.at = s
    /\ LET ch == sub[s].ch
       IN \/ /\ policy = "BP_BLOCK" \/ ch = <<>>
             /\ UNCHANGED <<sub, gaps, faults>>
          \/ /\ policy = "BP_DROP_OLDEST" /\ ch # <<>>
             /\ Recorded({<<Owner[s], Head(ch)>>}) \/ NotRecorded
             /\ sub' = [sub EXCEPT ![s].ch = Tail(ch)]
    /\ pub' = [pub EXCEPT !.pc = "wait"]
    /\ UNCHANGED <<collected, upstream, bpActive, policy, last, stream, consumers, saved,
                   phase, historyVars>>

(* The queue was full.  BP_DROP_OLDEST takes the oldest reading out, or     *)
(* puts it back at the end when its gap cannot be recorded; the reader may  *)
(* have emptied the queue meanwhile.                                        *)
MakeRoom(s) ==
    /\ pub.pc = "full" /\ pub.at = s
    /\ LET ch == sub[s].ch
       IN \/ /\ policy = "BP_BLOCK" \/ ch = <<>>
             /\ pub' = [pub EXCEPT !.pc = "wait"]
             /\ UNCHANGED <<sub, gaps, faults>>
          \/ /\ policy = "BP_DROP_OLDEST" /\ ch # <<>>
             /\ \/ /\ Recorded({<<Owner[s], Head(ch)>>})
                   /\ sub' = [sub EXCEPT ![s].ch = Tail(ch)]
                   /\ pub' = [pub EXCEPT !.pc = "wait"]
                \/ /\ NotRecorded
                   /\ sub' = [sub EXCEPT ![s].ch = Append(Tail(ch), Head(ch))]
                   /\ Deferred
    /\ UNCHANGED <<collected, upstream, bpActive, policy, last, stream, consumers, saved,
                   phase, historyVars>>

(* Publish waits for room, for the end of the subscription, which makes the *)
(* reading a gap, or for the end of the runtime.                            *)
Wait(s) ==
    /\ pub.pc = "wait" /\ pub.at = s
    /\ LET going == [pub EXCEPT !.pc = "deliver", !.at = None]
       IN \/ /\ Len(sub[s].ch) < StreamSize
             /\ sub' = [sub EXCEPT ![s].ch = Append(@, pub.msg)]
             /\ pub' = going
             /\ UNCHANGED <<gaps, faults>>
          \/ /\ Stopped(s)
             /\ \/ Recorded({<<Owner[s], pub.msg>>}) /\ pub' = going
                \/ NotRecorded /\ Deferred
             /\ UNCHANGED sub
    /\ UNCHANGED <<collected, upstream, bpActive, policy, last, stream, consumers, saved,
                   phase, historyVars>>

(* A consumer without a live subscription is told of the gap instead.       *)
RecordAbsent(c) ==
    /\ pub.pc = "deliver" /\ pub.todo = {} /\ c \in consumers \ pub.active
    /\ \/ Recorded({<<c, pub.msg>>}) /\ pub' = [pub EXCEPT !.active = @ \cup {c}]
       \/ NotRecorded /\ Deferred
    /\ UNCHANGED <<collected, upstream, bpActive, policy, last, sub, stream, consumers,
                   saved, phase, historyVars>>

Published ==
    /\ pub.pc = "deliver" /\ pub.todo = {} /\ consumers \subseteq pub.active
    /\ pub' = Idle
    /\ owed' = owed \cup {<<c, pub.msg>> : c \in saved}
    /\ UNCHANGED <<collected, upstream, bpActive, policy, last, sub, stream, consumers,
                   journalVars, phase, faults, handed, swallowed,
                   forgotten>>

-----------------------------------------------------------------------------
(* A stream registers its consumer for good, *)
Register(s) ==
    /\ stream[s].pc = "new" /\ ~Locked
    /\ \/ /\ RuntimeAlive
          /\ saved' = saved \cup {Owner[s]}
          /\ consumers' = consumers \cup {Owner[s]}
          /\ stream' = [stream EXCEPT ![s].pc = "open"]
          /\ UNCHANGED faults
       \/ /\ NotRecorded
          /\ stream' = [stream EXCEPT ![s].pc = "end"]
          /\ UNCHANGED <<saved, consumers>>
    /\ UNCHANGED <<collected, upstream, bpActive, policy, pub, last, sub, gaps,
                   phase, historyVars>>

(* then subscribes, removing stopped subscriptions with an empty queue.     *)
Subscribe(s) ==
    /\ stream[s].pc = "open" /\ ~Locked
    /\ IF phase = "closed"
       THEN stream' = [stream EXCEPT ![s].pc = "end"] /\ UNCHANGED sub
       ELSE /\ stream' = [stream EXCEPT ![s].pc = "recv"]
            /\ sub' = [t \in Streams |->
                         IF t = s THEN [NoSub EXCEPT !.in = TRUE]
                         ELSE IF sub[t].in /\ Stopped(t) /\ sub[t].ch = <<>>
                              THEN [sub[t] EXCEPT !.in = FALSE] ELSE sub[t]]
    /\ UNCHANGED <<collected, upstream, bpActive, policy, pub, last, consumers,
                   journalVars, phase, faults, historyVars>>

(* The goroutine of a stream takes a reading and sends it.  The client may  *)
(* never take it, and may disconnect.                                       *)
Receive(s) ==
    /\ stream[s].pc = "recv" /\ sub[s].ch # <<>>
    /\ stream' = [stream EXCEPT ![s] = [pc |-> "send", hand |-> Head(sub[s].ch)]]
    /\ sub' = [sub EXCEPT ![s].ch = Tail(@)]
    /\ handed' = handed \cup {<<Owner[s], Head(sub[s].ch)>>}
    /\ UNCHANGED <<collected, upstream, bpActive, policy, pub, last, consumers,
                   journalVars, phase, faults, owed, swallowed,
                   forgotten>>

Sent(s) ==
    /\ stream[s].pc = "send"
    /\ \E pc \in {"recv", "stop"} :
          stream' = [stream EXCEPT ![s] = [pc |-> pc, hand |-> None]]
    /\ UNCHANGED <<collected, upstream, bpActive, policy, pub, last, sub, consumers,
                   journalVars, phase, faults, historyVars>>

(* The call ends, or the queue was closed and is empty.                     *)
Disconnect(s) ==
    /\ stream[s].pc = "recv"
    /\ stream' = [stream EXCEPT ![s].pc = "stop"]
    /\ UNCHANGED <<collected, upstream, bpActive, policy, pub, last, sub, consumers,
                   journalVars, phase, faults, historyVars>>

(* Fault: the function that ends a subscription asks for the lock first.    *)
StopUnderLock(s) ==
    /\ stream[s].pc = "stop" /\ ~Locked
    /\ stream' = [stream EXCEPT ![s].pc = "drain"]
    /\ sub' = [sub EXCEPT ![s].stopped = TRUE]
    /\ UNCHANGED <<collected, upstream, bpActive, policy, pub, last, consumers,
                   journalVars, phase, faults, historyVars>>

(* The function that ends a subscription: the context first, *)
Stop(s) ==
    /\ stream[s].pc = "stop"
    /\ stream' = [stream EXCEPT ![s].pc = "drain"]
    /\ sub' = [sub EXCEPT ![s].stopped = TRUE]
    /\ UNCHANGED <<collected, upstream, bpActive, policy, pub, last, consumers,
                   journalVars, phase, faults, historyVars>>

(* then, under the lock and with a context of its own, the queue.  When the *)
(* gap cannot be recorded the subscription stays until the next Publish.    *)
Drain(s) ==
    /\ stream[s].pc = "drain" /\ ~Locked
    /\ stream' = [stream EXCEPT ![s].pc = "end"]
    /\ \/ /\ sub[s].in
          /\ gaps' = gaps \cup Queued(s)
          /\ sub' = [sub EXCEPT ![s].in = FALSE, ![s].ch = <<>>]
          /\ UNCHANGED faults
       \/ /\ sub[s].in /\ sub[s].ch # <<>>
          /\ faults < MaxFaults /\ faults' = faults + 1
          /\ UNCHANGED <<gaps, sub>>
       \/ ~sub[s].in /\ UNCHANGED <<gaps, sub, faults>>
    /\ UNCHANGED <<collected, upstream, bpActive, policy, pub, last, consumers, saved,
                   phase, historyVars>>

-----------------------------------------------------------------------------
(* The application stops: the workers are told, *)
Shutdown ==
    /\ phase = "running"
    /\ phase' = "stopping"
    /\ UNCHANGED <<collected, upstream, bpActive, policy, pub, last, sub, stream,
                   consumers, journalVars, faults, historyVars>>

(* Fault: Close waits for the Publish in progress before it ends the        *)
(* context.                                                                 *)
CancelAfterPublish ==
    /\ phase = "stopping" /\ ~Locked
    /\ phase' = "cancelled"
    /\ UNCHANGED <<collected, upstream, bpActive, policy, pub, last, sub, stream,
                   consumers, journalVars, faults, historyVars>>

(* Runtime.Close ends the runtime's context, *)
CancelRuntime ==
    /\ phase = "stopping"
    /\ phase' = "cancelled"
    /\ UNCHANGED <<collected, upstream, bpActive, policy, pub, last, sub, stream,
                   consumers, journalVars, faults, historyVars>>

(* waits for the Publish in progress, and turns what the queues hold into   *)
(* gaps.  A queue that cannot be recorded is reported as an error and lost. *)
Close ==
    /\ phase = "cancelled" /\ ~Locked
    /\ phase' = "closed"
    /\ \E failed \in SUBSET {s \in Streams : sub[s].in /\ sub[s].ch # <<>>} :
          LET drained == {s \in Streams : sub[s].in} \ failed
          IN /\ IF failed = {} THEN UNCHANGED faults
                               ELSE faults < MaxFaults /\ faults' = faults + 1
             /\ gaps' = gaps \cup UNION {Queued(s) : s \in drained}
             /\ forgotten' = forgotten \cup UNION {Queued(s) : s \in failed}
             /\ sub' = [s \in Streams |->
                          [sub[s] EXCEPT !.in = FALSE,
                                         !.ch = IF s \in drained THEN <<>> ELSE @]]
    /\ UNCHANGED <<collected, upstream, bpActive, policy, pub, last, stream, consumers,
                   saved, handed, owed, swallowed>>

(* The process ends, after Close or by a crash, and starts again: the       *)
(* queues and the memory of the strategy are gone, the registered consumers *)
(* are loaded from the journal.                                             *)
Restart ==
    /\ faults < MaxFaults /\ faults' = faults + 1
    /\ phase' = "running"
    /\ upstream' = <<>> /\ bpActive' = FALSE /\ pub' = Idle /\ last' = None
    /\ sub' = [s \in Streams |-> NoSub]
    /\ stream' = [s \in Streams |->
                    [pc |-> IF stream[s].pc = "new" THEN "new" ELSE "end", hand |-> None]]
    /\ consumers' = saved
    /\ forgotten' = IF phase = "closed" THEN forgotten
                    ELSE forgotten \cup UNION {Queued(s) : s \in Streams}
    /\ UNCHANGED <<collected, policy, journalVars, handed, owed, swallowed>>

-----------------------------------------------------------------------------
Init ==
    /\ collected = 0 /\ upstream = <<>> /\ bpActive = FALSE
    /\ policy \in {"BP_BLOCK", "BP_DROP_OLDEST"}
    /\ pub = Idle /\ last = None
    /\ sub = [s \in Streams |-> NoSub]
    /\ stream = [s \in Streams |-> [pc |-> "new", hand |-> None]]
    /\ consumers = {} /\ saved = {} /\ gaps = {}
    /\ phase = "running" /\ faults = 0
    /\ handed = {} /\ owed = {} /\ swallowed = {} /\ forgotten = {}

PublishStep == \/ Take \/ Observe \/ Publish \/ GiveUp \/ Published
               \/ \E s \in Streams : DrainStopped(s) \/ Put(s) \/ MakeRoom(s) \/ Wait(s)
               \/ \E c \in Consumers : RecordAbsent(c)

StreamStep(s) == Register(s) \/ Subscribe(s) \/ Receive(s) \/ Stop(s) \/ Drain(s)

Closing == CancelRuntime \/ Close

Next == \/ Collect \/ PublishStep \/ Shutdown \/ Closing \/ Restart
        \/ \E s \in Streams : StreamStep(s) \/ Sent(s) \/ Disconnect(s)

(* Goroutines are scheduled.  That a client takes a reading, or             *)
(* disconnects, is not assumed.                                             *)
Fairness == /\ WF_vars(PublishStep)
            /\ WF_vars(Closing)
            /\ WF_vars(\E s \in Streams : Receive(s) \/ Stop(s))

Spec == Init /\ [][Next]_vars /\ Fairness

-----------------------------------------------------------------------------
Pairs == Consumers \X Readings

TypeOK ==
    /\ collected \in 0 .. MaxReadings
    /\ upstream \in Seq(Readings) /\ Len(upstream) <= UpstreamSize
    /\ bpActive \in BOOLEAN /\ policy \in {"BP_BLOCK", "BP_DROP_OLDEST"}
    /\ pub \in [pc : {"idle", "taken", "publish", "retry", "deliver", "full", "wait"},
                msg : Readings \cup {None}, todo : SUBSET Streams,
                active : SUBSET Consumers, at : Streams \cup {None},
                through : BOOLEAN]
    /\ last \in {Value[m] : m \in Readings} \cup {None}
    /\ sub \in [Streams -> [in : BOOLEAN, stopped : BOOLEAN, ch : Seq(Readings)]]
    /\ \A s \in Streams : Len(sub[s].ch) <= StreamSize
    /\ stream \in [Streams -> [pc : {"new", "open", "recv", "send", "stop", "drain", "end"},
                               hand : Readings \cup {None}]]
    /\ consumers \subseteq Consumers /\ saved \subseteq Consumers
    /\ gaps \subseteq Scopes \X Readings
    /\ phase \in {"running", "stopping", "cancelled", "closed"}
    /\ faults \in 0 .. MaxFaults
    /\ handed \subseteq Pairs /\ owed \subseteq Pairs
    /\ swallowed \subseteq Pairs /\ forgotten \subseteq Pairs

(* What became of a reading: a stream took it, it waits in a queue, the     *)
(* consumer is told that it is missing, or a crash took it.                 *)
Kept(c, m) ==
    \/ <<c, m>> \in handed \cup gaps \cup forgotten
    \/ <<"collection_queue", m>> \in gaps
    \/ \E s \in Streams : Owner[s] = c /\ m \in ToSet(sub[s].ch)

(* No reading is lost silently: every reading whose publication succeeded,  *)
(* or that the collection queue gave up, while a consumer was registered    *)
(* reaches a stream of this consumer, or the consumer learns of a gap -     *)
(* across backpressure, disconnects, failed gap records, and a shutdown or  *)
(* restart of the gateway.                                                  *)
Accounted == \A p \in owed : Kept(p[1], p[2])

(* A reading that the strategy let through is not dropped silently either   *)
(* when its publication has to be repeated.                                 *)
ChangesDelivered == \A p \in swallowed : Kept(p[1], p[2])

(* Publish holds the lock of the runtime forever only because a client does *)
(* not take the reading it is sent; a stream that ended always sets it free.*)
HeldByReaderOnly == Locked ~> (~Locked \/ \E s \in Streams : stream[s].pc = "send")

(* The runtime always closes, whatever its clients do.                      *)
CloseCompletes == phase = "stopping" ~> phase \in {"closed", "running"}
=============================================================================
