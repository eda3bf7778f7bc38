------------------------- MODULE TelemetryFeed_proofs -------------------------
(***************************************************************************)
(* Proofs about the way of a reading through the gateway: whatever the     *)
(* sizes of the queues, the consumers and their streams, no reading that   *)
(* was published, or given up by the collection queue, is lost silently.   *)
(*                                                                         *)
(* Publish accounts for a reading consumer by consumer, and is overtaken   *)
(* by readers, disconnects and the end of the runtime.  The invariant says *)
(* what it relies on between two of its steps (Accounts), what a queue may *)
(* hold when nobody looks at it any more (Queues), and that the consumers  *)
(* in memory are those of the journal.                                     *)
(***************************************************************************)
EXTENDS TelemetryFeed, TLAPS

Queues ==
    \A s \in Streams :
      /\ stream[s].pc \in {"new", "open"} => ~sub[s].in
      /\ ~sub[s].in /\ phase # "closed" => sub[s].ch = <<>>
      /\ phase = "closed" => ~sub[s].in /\ Queued(s) \subseteq forgotten

Publishing ==
    /\ pub.pc # "idle" => pub.msg \in Readings
    /\ ~Locked => pub.active = {}
    /\ Locked => phase # "closed" /\ \A s \in pub.todo : sub[s].in
    /\ pub.pc \in {"full", "wait"} => pub.at \in Streams /\ sub[pub.at].in

\* Who counts as served has the reading, but for the one whose queue is full.
Accounts ==
    Locked =>
      \A c \in pub.active :
         \/ pub.pc \in {"full", "wait"} /\ c = Owner[pub.at]
         \/ Kept(c, pub.msg)

FInv ==
    /\ TypeOK
    /\ consumers = saved
    /\ Queues
    /\ Publishing
    /\ Accounts
    /\ Accounted

-----------------------------------------------------------------------------
(***************************************************************************)
(* Queues of readings                                                      *)
(***************************************************************************)
\* What Append, Head and Tail leave in a queue.
LEMMA QueueSteps ==
    ASSUME NEW q \in Seq(Readings)
    PROVE  /\ ToSet(q) \subseteq Readings /\ ToSet(<<>>) = {}
           /\ \A m \in Readings : /\ Append(q, m) \in Seq(Readings)
                                  /\ Len(Append(q, m)) = Len(q) + 1
                                  /\ ToSet(Append(q, m)) = ToSet(q) \cup {m}
           /\ q # <<>> => /\ Head(q) \in Readings /\ Tail(q) \in Seq(Readings)
                          /\ Len(Tail(q)) = Len(q) - 1 /\ Len(q) \in Nat \ {0}
                          /\ ToSet(q) = ToSet(Tail(q)) \cup {Head(q)}
<1>1. ToSet(q) \subseteq Readings /\ ToSet(<<>>) = {}
  BY DEF ToSet
<1>2. ASSUME NEW m \in Readings
      PROVE  /\ Append(q, m) \in Seq(Readings) /\ Len(Append(q, m)) = Len(q) + 1
             /\ ToSet(Append(q, m)) = ToSet(q) \cup {m}
  <2>1. /\ Append(q, m) \in Seq(Readings) /\ Len(Append(q, m)) = Len(q) + 1
        /\ Append(q, m)[Len(q) + 1] = m
        /\ \A i \in 1 .. Len(q) : Append(q, m)[i] = q[i]
    OBVIOUS
  <2>2. DOMAIN q = 1 .. Len(q) /\ DOMAIN Append(q, m) = 1 .. Len(q) + 1 /\ Len(q) \in Nat
    BY <2>1
  <2> QED
    BY <2>1, <2>2 DEF ToSet
<1>3. ASSUME q # <<>>
      PROVE  /\ Head(q) \in Readings /\ Tail(q) \in Seq(Readings)
             /\ Len(Tail(q)) = Len(q) - 1 /\ Len(q) \in Nat \ {0}
             /\ ToSet(q) = ToSet(Tail(q)) \cup {Head(q)}
  <2>1. /\ Head(q) \in Readings /\ Tail(q) \in Seq(Readings) /\ Head(q) = q[1]
        /\ Len(Tail(q)) = Len(q) - 1 /\ Len(q) \in Nat \ {0}
        /\ \A i \in 1 .. Len(q) - 1 : Tail(q)[i] = q[i + 1]
    BY <1>3
  <2>2. DOMAIN q = 1 .. Len(q) /\ DOMAIN Tail(q) = 1 .. Len(q) - 1
    BY <2>1
  <2>3. ASSUME NEW i \in 1 .. Len(q) PROVE q[i] \in ToSet(Tail(q)) \cup {Head(q)}
    <3>1. CASE i = 1
      BY <2>1, <3>1
    <3>2. CASE i # 1
      <4>1. i - 1 \in 1 .. Len(q) - 1 /\ q[i] = Tail(q)[i - 1]
        BY <2>1, <3>2
      <4> QED
        BY <2>2, <4>1 DEF ToSet
    <3> QED
      BY <3>1, <3>2
  <2>4. ASSUME NEW i \in 1 .. Len(q) - 1 PROVE Tail(q)[i] \in ToSet(q)
    BY <2>1, <2>2 DEF ToSet
  <2>5. Head(q) \in ToSet(q)
    BY <2>1, <2>2 DEF ToSet
  <2>6. ToSet(q) \subseteq ToSet(Tail(q)) \cup {Head(q)}
    BY <2>2, <2>3 DEF ToSet
  <2>7. ToSet(Tail(q)) \subseteq ToSet(q)
    BY <2>2, <2>4 DEF ToSet
  <2> QED
    BY <2>1, <2>5, <2>6, <2>7
<1> QED
  BY <1>1, <1>2, <1>3

\* A pair that leaves the queues for a journal or a history stays kept.
LEMMA KeptOn ==
    ASSUME gaps \subseteq gaps', handed \subseteq handed', forgotten \subseteq forgotten',
           \A s \in Streams : \A m \in ToSet(sub[s].ch) :
              \/ m \in ToSet(sub'[s].ch)
              \/ <<Owner[s], m>> \in gaps' \cup handed' \cup forgotten',
           NEW c, NEW m, Kept(c, m)
    PROVE  Kept(c, m)'
  BY DEF Kept

-----------------------------------------------------------------------------
(***************************************************************************)
(* Types and bounds: no queue ever holds more than its capacity            *)
(***************************************************************************)
\* What becomes of the fields of the loop that publishes.
PubState == [pc : {"idle", "taken", "publish", "retry", "deliver", "full", "wait"},
             msg : Readings \cup {None}, todo : SUBSET Streams, active : SUBSET Consumers,
             at : Streams \cup {None}, through : BOOLEAN]
SubState == [in : BOOLEAN, stopped : BOOLEAN, ch : Seq(Readings)]

LEMMA IdleType == Idle \in PubState /\ NoSub \in SubState
  BY DEF Idle, PubState, NoSub, SubState

LEMMA DeferredType ==
    ASSUME FInv, Deferred, pub.pc # "idle"
    PROVE  /\ pub' \in PubState /\ pub'.active = {} /\ pub'.pc \in {"idle", "retry"}
           /\ pub'.pc # "idle" => pub'.msg \in Readings
  BY IdleType DEF FInv, TypeOK, Publishing, Deferred, Idle, PubState

LEMMA RecordTyped ==
    ASSUME FeedConstants, FInv, NEW lost \in SUBSET (Scopes \X Readings),
           Recorded(lost) \/ NotRecorded
    PROVE  gaps' \subseteq Scopes \X Readings /\ faults' \in 0 .. MaxFaults
<1>1. gaps \subseteq Scopes \X Readings /\ faults \in 0 .. MaxFaults /\ MaxFaults \in Nat
  BY DEF FInv, TypeOK, FeedConstants
<1> QED
  BY <1>1 DEF Recorded, NotRecorded

LEMMA PublishTyped ==
    ASSUME FeedConstants, FInv, Take \/ Observe \/ Publish \/ GiveUp \/ Published
    PROVE  TypeOK'
<1>1. CASE Take
  <2>1. Head(upstream) \in Readings /\ Tail(upstream) \in Seq(Readings)
        /\ Len(Tail(upstream)) <= UpstreamSize
    BY <1>1, QueueSteps DEF Take, FInv, TypeOK, FeedConstants
  <2> QED
    BY <1>1, <2>1 DEF Take, FInv, TypeOK, Idle, historyVars, journalVars
<1>2. CASE Observe
  <2>0. {<<"collection_queue", pub.msg>>} \in SUBSET (Scopes \X Readings)
    BY <1>2 DEF Observe, FInv, Publishing, Scopes
  <2>1. gaps' \subseteq Scopes \X Readings /\ faults' \in 0 .. MaxFaults
    <3>1. CASE gaps' = gaps /\ faults' = faults
      BY <3>1 DEF FInv, TypeOK
    <3> QED
      BY <1>2, <2>0, <3>1, RecordTyped DEF Observe
  <2>2. owed' \subseteq Pairs
    BY <1>2 DEF Observe, FInv, TypeOK, Publishing, Pairs
  <2>3. bpActive' \in BOOLEAN /\ pub' \in PubState
    BY <1>2, IdleType DEF Observe, FInv, TypeOK, PubState
  <2> QED
    BY <1>2, <2>1, <2>2, <2>3 DEF Observe, FInv, TypeOK, PubState
<1>3. CASE Publish
  <2>0. PICK elapsed \in BOOLEAN :
          \/ /\ pub' = Idle /\ UNCHANGED <<last, faults>>
             /\ swallowed' = swallowed \cup
                   {<<c, pub.msg>> : c \in {d \in saved : pub.through}}
          \/ /\ last' = Value[pub.msg] /\ UNCHANGED swallowed
             /\ \/ /\ pub' = [pub EXCEPT !.pc = "deliver",
                                         !.todo = {s \in Streams : sub[s].in}]
                   /\ UNCHANGED faults
                \/ faults < MaxFaults /\ faults' = faults + 1 /\ Deferred
    BY <1>3 DEF Publish
  <2>1. pub.msg \in Readings /\ pub \in PubState /\ pub.pc # "idle"
    BY <1>3 DEF Publish, FInv, TypeOK, Publishing, PubState
  <2>2. [pub EXCEPT !.pc = "deliver", !.todo = {s \in Streams : sub[s].in}] \in PubState
    BY <2>1 DEF PubState
  <2>3. pub' \in PubState
    BY <2>0, <2>1, <2>2, IdleType, DeferredType
  <2>4. saved \subseteq Consumers /\ swallowed \subseteq Pairs
    BY DEF FInv, TypeOK
  <2>5. swallowed' \subseteq Pairs
    BY <2>0, <2>1, <2>4 DEF Pairs
  <2>6. last' \in {Value[m] : m \in Readings} \cup {None}
    BY <2>0, <2>1 DEF FInv, TypeOK
  <2>7. faults \in 0 .. MaxFaults /\ MaxFaults \in Nat
    BY DEF FInv, TypeOK, FeedConstants
  <2>8. faults' \in 0 .. MaxFaults
    BY <2>0, <2>7
  <2> QED
    BY <1>3, <2>3, <2>5, <2>6, <2>8 DEF Publish, FInv, TypeOK, PubState, journalVars
<1>4. CASE GiveUp
  BY <1>4, IdleType DEF GiveUp, FInv, TypeOK, PubState, historyVars, journalVars
<1>5. CASE Published
  <2>1. owed' \subseteq Pairs
    BY <1>5 DEF Published, FInv, TypeOK, Publishing, Pairs
  <2> QED
    BY <1>5, <2>1, IdleType DEF Published, FInv, TypeOK, PubState, journalVars
<1> QED
  BY <1>1, <1>2, <1>3, <1>4, <1>5

LEMMA DeliverTyped ==
    ASSUME FeedConstants, FInv, NEW s \in Streams,
           DrainStopped(s) \/ Put(s) \/ MakeRoom(s) \/ Wait(s)
    PROVE  TypeOK'
<1>1. /\ pub \in PubState /\ sub \in [Streams -> SubState] /\ sub[s] \in SubState
      /\ sub[s].ch \in Seq(Readings) /\ Len(sub[s].ch) <= StreamSize /\ Owner[s] \in Consumers
      /\ Len(sub[s].ch) \in Nat
      /\ pub.pc \notin {"idle"} => pub.msg \in Readings
      /\ StreamSize \in Nat /\ Len(<<>>) = 0 /\ <<>> \in Seq(Readings)
      /\ gaps \subseteq Scopes \X Readings /\ faults \in 0 .. MaxFaults /\ MaxFaults \in Nat
      /\ \A x \in Streams : Len(sub[x].ch) <= StreamSize
  BY DEF FInv, TypeOK, Publishing, PubState, SubState, FeedConstants
<1>2. ASSUME NEW q \in Seq(Readings), Len(q) <= StreamSize, sub' = [sub EXCEPT ![s].ch = q]
      PROVE  /\ sub' \in [Streams -> SubState]
             /\ \A x \in Streams : Len(sub'[x].ch) <= StreamSize
  <2>1. [sub[s] EXCEPT !.ch = q] \in SubState /\ [sub[s] EXCEPT !.ch = q].ch = q
    BY <1>1 DEF SubState
  <2> QED
    BY <1>1, <1>2, <2>1
<1>3. ASSUME sub' = sub
      PROVE  /\ sub' \in [Streams -> SubState]
             /\ \A x \in Streams : Len(sub'[x].ch) <= StreamSize
  BY <1>1, <1>3
<1>4. SUFFICES /\ pub' \in PubState /\ gaps' \subseteq Scopes \X Readings
               /\ faults' \in 0 .. MaxFaults
               /\ sub' \in [Streams -> SubState]
               /\ \A x \in Streams : Len(sub'[x].ch) <= StreamSize
  BY DEF DrainStopped, Put, MakeRoom, Wait, FInv, TypeOK, PubState, SubState, journalVars,
         historyVars
<1>5. \A m \in Readings : <<Owner[s], m>> \in Scopes \X Readings
  BY <1>1 DEF Scopes
<1>6. CASE DrainStopped(s)
  <2>1. Queued(s) \subseteq Scopes \X Readings
    BY <1>1, <1>5, QueueSteps DEF Queued
  <2>2. CASE /\ gaps' = gaps \cup Queued(s) /\ sub' = [sub EXCEPT ![s].ch = <<>>]
             /\ pub' = [pub EXCEPT !.todo = @ \ {s}] /\ UNCHANGED faults
    <3>1. pub' \in PubState
      BY <1>1, <2>2 DEF PubState
    <3>2. /\ sub' \in [Streams -> SubState]
          /\ \A x \in Streams : Len(sub'[x].ch) <= StreamSize
      <4>1. <<>> \in Seq(Readings) /\ Len(<<>>) <= StreamSize
        BY <1>1
      <4>2. PICK q \in Seq(Readings) : q = <<>>
        BY <4>1
      <4> QED
        BY <1>2, <2>2, <4>1, <4>2
    <3> QED
      BY <1>1, <2>1, <2>2, <3>1, <3>2
  <2>3. CASE NotRecorded /\ Deferred /\ UNCHANGED sub
    <3>1. pub.pc # "idle"
      BY <1>6 DEF DrainStopped
    <3> QED
      BY <1>3, <2>3, <3>1, DeferredType, RecordTyped
  <2> QED
    BY <1>6, <2>2, <2>3 DEF DrainStopped
<1>7. CASE Put(s)
  <2> DEFINE going == [pub EXCEPT !.todo = @ \ {s}, !.active = @ \cup {Owner[s]}]
  <2>1. going \in PubState /\ [going EXCEPT !.pc = "full", !.at = s] \in PubState
    BY <1>1 DEF PubState
  <2>2. gaps' = gaps /\ faults' = faults /\ pub.pc # "idle"
    BY <1>7 DEF Put, journalVars
  <2>3. CASE /\ Len(sub[s].ch) < StreamSize
             /\ sub' = [sub EXCEPT ![s].ch = Append(@, pub.msg)] /\ pub' = going
    <3>1. /\ Append(sub[s].ch, pub.msg) \in Seq(Readings)
          /\ Len(Append(sub[s].ch, pub.msg)) <= StreamSize
      BY <1>1, <2>2, <2>3, QueueSteps
    <3> QED
      BY <1>1, <1>2, <2>1, <2>2, <2>3, <3>1
  <2>4. CASE pub' = [going EXCEPT !.pc = "full", !.at = s] /\ UNCHANGED sub
    BY <1>1, <1>3, <2>1, <2>2, <2>4
  <2> QED
    BY <1>7, <2>3, <2>4 DEF Put
<1>8. CASE MakeRoom(s)
  <2> DEFINE ch == sub[s].ch
  <2>1. [pub EXCEPT !.pc = "wait"] \in PubState /\ pub.pc # "idle"
    BY <1>1, <1>8 DEF PubState, MakeRoom
  <2>2. ch # <<>> =>
          /\ Head(ch) \in Readings
          /\ Tail(ch) \in Seq(Readings) /\ Len(Tail(ch)) <= StreamSize
          /\ Append(Tail(ch), Head(ch)) \in Seq(Readings)
          /\ Len(Append(Tail(ch), Head(ch))) <= StreamSize
    BY <1>1, QueueSteps
  <2>3. CASE pub' = [pub EXCEPT !.pc = "wait"] /\ UNCHANGED <<sub, gaps, faults>>
    BY <1>1, <1>3, <2>1, <2>3
  <2>4. CASE /\ ch # <<>> /\ Recorded({<<Owner[s], Head(ch)>>})
             /\ sub' = [sub EXCEPT ![s].ch = Tail(ch)] /\ pub' = [pub EXCEPT !.pc = "wait"]
    <3>1. {<<Owner[s], Head(ch)>>} \in SUBSET (Scopes \X Readings)
      BY <1>5, <2>2, <2>4
    <3> QED
      BY <1>2, <2>1, <2>2, <2>4, <3>1, RecordTyped
  <2>5. CASE /\ ch # <<>> /\ NotRecorded /\ Deferred
             /\ sub' = [sub EXCEPT ![s].ch = Append(Tail(ch), Head(ch))]
    BY <1>2, <2>1, <2>2, <2>5, DeferredType, RecordTyped
  <2> QED
    BY <1>8, <2>3, <2>4, <2>5 DEF MakeRoom
<1>9. CASE Wait(s)
  <2> DEFINE going == [pub EXCEPT !.pc = "deliver", !.at = None]
  <2>1. going \in PubState /\ pub.pc # "idle"
    BY <1>1, <1>9 DEF PubState, Wait
  <2>2. CASE /\ Len(sub[s].ch) < StreamSize
             /\ sub' = [sub EXCEPT ![s].ch = Append(@, pub.msg)] /\ pub' = going
             /\ UNCHANGED <<gaps, faults>>
    <3>1. /\ Append(sub[s].ch, pub.msg) \in Seq(Readings)
          /\ Len(Append(sub[s].ch, pub.msg)) <= StreamSize
      BY <1>1, <2>1, <2>2, QueueSteps
    <3> QED
      BY <1>1, <1>2, <2>1, <2>2, <3>1
  <2>3. CASE Recorded({<<Owner[s], pub.msg>>}) /\ pub' = going /\ UNCHANGED sub
    <3>1. {<<Owner[s], pub.msg>>} \in SUBSET (Scopes \X Readings)
      BY <1>1, <1>5, <2>1
    <3> QED
      BY <1>3, <2>1, <2>3, <3>1, RecordTyped
  <2>4. CASE NotRecorded /\ Deferred /\ UNCHANGED sub
    BY <1>3, <2>1, <2>4, DeferredType, RecordTyped
  <2> QED
    BY <1>9, <2>2, <2>3, <2>4 DEF Wait
<1> QED
  BY <1>6, <1>7, <1>8, <1>9

StreamState == [pc : {"new", "open", "recv", "send", "stop", "drain", "end"},
                hand : Readings \cup {None}]

LEMMA StreamTyped ==
    ASSUME FeedConstants, FInv, NEW s \in Streams,
           StreamStep(s) \/ Sent(s) \/ Disconnect(s)
    PROVE  TypeOK'
<1>1. /\ sub \in [Streams -> SubState] /\ sub[s] \in SubState
      /\ stream \in [Streams -> StreamState] /\ stream[s] \in StreamState
      /\ sub[s].ch \in Seq(Readings) /\ Len(sub[s].ch) <= StreamSize /\ Owner[s] \in Consumers
      /\ Len(sub[s].ch) \in Nat /\ StreamSize \in Nat
      /\ gaps \subseteq Scopes \X Readings /\ faults \in 0 .. MaxFaults /\ MaxFaults \in Nat
      /\ \A x \in Streams : Len(sub[x].ch) <= StreamSize
      /\ handed \subseteq Pairs /\ consumers \subseteq Consumers /\ saved \subseteq Consumers
  BY DEF FInv, TypeOK, SubState, StreamState, FeedConstants
<1>2. <<>> \in Seq(Readings) /\ Len(<<>>) <= StreamSize
  BY <1>1
<1>3. ASSUME NEW b \in SubState, Len(b.ch) <= StreamSize, sub' = [sub EXCEPT ![s] = b]
      PROVE  /\ sub' \in [Streams -> SubState]
             /\ \A x \in Streams : Len(sub'[x].ch) <= StreamSize
  BY <1>1, <1>3
<1>4. ASSUME sub' = sub
      PROVE  /\ sub' \in [Streams -> SubState]
             /\ \A x \in Streams : Len(sub'[x].ch) <= StreamSize
  BY <1>1, <1>4
<1>5. SUFFICES /\ stream' \in [Streams -> StreamState]
               /\ consumers' \subseteq Consumers /\ saved' \subseteq Consumers
               /\ gaps' \subseteq Scopes \X Readings /\ handed' \subseteq Pairs
               /\ faults' \in 0 .. MaxFaults
               /\ sub' \in [Streams -> SubState]
               /\ \A x \in Streams : Len(sub'[x].ch) <= StreamSize
  BY DEF StreamStep, Sent, Disconnect, Register, Subscribe, Receive, Stop, Drain, FInv, TypeOK,
         SubState, StreamState, journalVars, historyVars
<1>6. stream' \in [Streams -> StreamState]
  <2>1. CASE Receive(s)
    BY <1>1, <2>1, QueueSteps DEF Receive, StreamState
  <2>2. \A pc \in {"open", "recv", "stop", "drain", "end"} :
           [stream EXCEPT ![s].pc = pc] \in [Streams -> StreamState]
    BY <1>1 DEF StreamState
  <2>3. \A pc \in {"recv", "stop"} :
           [stream EXCEPT ![s] = [pc |-> pc, hand |-> None]] \in [Streams -> StreamState]
    BY <1>1 DEF StreamState
  <2>4. CASE Sent(s)
    BY <2>3, <2>4 DEF Sent
  <2>5. CASE Register(s) \/ Subscribe(s)
    BY <2>2, <2>5 DEF Register, Subscribe
  <2>6. CASE Disconnect(s) \/ Stop(s) \/ Drain(s)
    BY <2>2, <2>6 DEF Disconnect, Stop, Drain
  <2> QED
    BY <2>1, <2>4, <2>5, <2>6 DEF StreamStep
<1>7. CASE Register(s)
  <2>1. faults' \in 0 .. MaxFaults /\ gaps' = gaps
    BY <1>1, <1>7 DEF Register, NotRecorded
  <2> QED
    BY <1>1, <1>4, <1>6, <1>7, <2>1 DEF Register, historyVars
<1>8. CASE Subscribe(s)
  <2>1. /\ UNCHANGED <<consumers, saved, gaps, handed, faults>>
    BY <1>8 DEF Subscribe, journalVars, historyVars
  <2>2. CASE UNCHANGED sub
    BY <1>1, <1>4, <1>6, <2>1, <2>2
  <2>3. CASE sub' = [t \in Streams |->
                       IF t = s THEN [NoSub EXCEPT !.in = TRUE]
                       ELSE IF sub[t].in /\ Stopped(t) /\ sub[t].ch = <<>>
                            THEN [sub[t] EXCEPT !.in = FALSE] ELSE sub[t]]
    <3>1. [NoSub EXCEPT !.in = TRUE] \in SubState /\ [NoSub EXCEPT !.in = TRUE].ch = <<>>
      BY <1>2 DEF NoSub, SubState
    <3>2. ASSUME NEW x \in Streams
          PROVE  sub'[x] \in SubState /\ Len(sub'[x].ch) <= StreamSize
      <4>1. /\ [sub[x] EXCEPT !.in = FALSE] \in SubState
            /\ [sub[x] EXCEPT !.in = FALSE].ch = sub[x].ch
        BY <1>1 DEF SubState
      <4> HIDE DEF NoSub
      <4> QED
        BY <1>1, <1>2, <2>3, <3>1, <4>1
    <3>3. sub' \in [Streams -> SubState]
      BY <2>3, <3>2
    <3> QED
      BY <1>1, <1>6, <2>1, <3>2, <3>3
  <2> QED
    BY <1>8, <2>2, <2>3 DEF Subscribe
<1>9. CASE Receive(s)
  <2>1. /\ Head(sub[s].ch) \in Readings /\ Tail(sub[s].ch) \in Seq(Readings)
        /\ Len(Tail(sub[s].ch)) <= StreamSize
    BY <1>1, <1>9, QueueSteps DEF Receive
  <2>2. /\ [sub[s] EXCEPT !.ch = Tail(@)] \in SubState
        /\ [sub[s] EXCEPT !.ch = Tail(@)].ch = Tail(sub[s].ch)
        /\ sub' = [sub EXCEPT ![s] = [sub[s] EXCEPT !.ch = Tail(@)]]
    BY <1>1, <1>9, <2>1 DEF Receive, SubState
  <2>3. handed' \subseteq Pairs /\ UNCHANGED <<gaps, faults, consumers, saved>>
    BY <1>1, <1>9, <2>1 DEF Receive, Pairs, journalVars
  <2> QED
    BY <1>1, <1>3, <1>6, <2>1, <2>2, <2>3
<1>10. CASE Stop(s)
  <2>1. /\ [sub[s] EXCEPT !.stopped = TRUE] \in SubState
        /\ [sub[s] EXCEPT !.stopped = TRUE].ch = sub[s].ch
        /\ sub' = [sub EXCEPT ![s] = [sub[s] EXCEPT !.stopped = TRUE]]
    BY <1>1, <1>10 DEF Stop, SubState
  <2> QED
    BY <1>1, <1>3, <1>6, <1>10, <2>1 DEF Stop, journalVars, historyVars
<1>11. CASE Drain(s)
  <2>1. UNCHANGED <<handed, consumers, saved>>
    BY <1>11 DEF Drain, historyVars
  <2>2. faults' \in 0 .. MaxFaults /\ gaps' \subseteq Scopes \X Readings
    <3>1. Queued(s) \subseteq Scopes \X Readings
      BY <1>1, QueueSteps DEF Queued, Scopes
    <3> QED
      BY <1>1, <1>11, <3>1 DEF Drain
  <2>3. /\ [sub[s] EXCEPT !.in = FALSE, !.ch = <<>>] \in SubState
        /\ [sub[s] EXCEPT !.in = FALSE, !.ch = <<>>].ch = <<>>
    BY <1>1, <1>2 DEF SubState
  <2>4. \/ UNCHANGED sub
        \/ sub' = [sub EXCEPT ![s] = [sub[s] EXCEPT !.in = FALSE, !.ch = <<>>]]
    BY <1>1, <1>11 DEF Drain
  <2> QED
    BY <1>1, <1>2, <1>3, <1>4, <1>6, <2>1, <2>2, <2>3, <2>4
<1>12. CASE Sent(s) \/ Disconnect(s)
  BY <1>1, <1>4, <1>6, <1>12 DEF Sent, Disconnect, journalVars, historyVars
<1> QED
  BY <1>7, <1>8, <1>9, <1>10, <1>11, <1>12 DEF StreamStep

LEMMA LifeTyped ==
    ASSUME FeedConstants, FInv,
           \/ Collect \/ Shutdown \/ Closing \/ Restart
           \/ \E c \in Consumers : RecordAbsent(c)
    PROVE  TypeOK'
<1>1. /\ sub \in [Streams -> SubState] /\ stream \in [Streams -> StreamState]
      /\ gaps \subseteq Scopes \X Readings /\ faults \in 0 .. MaxFaults /\ MaxFaults \in Nat
      /\ \A s \in Streams : Queued(s) \subseteq Pairs
      /\ \A s \in Streams : sub[s] \in SubState /\ Len(sub[s].ch) <= StreamSize
      /\ forgotten \subseteq Pairs /\ <<>> \in Seq(Readings) /\ Len(<<>>) <= StreamSize
      /\ Pairs \subseteq Scopes \X Readings
  BY QueueSteps DEF FInv, TypeOK, SubState, StreamState, FeedConstants, Queued, Pairs, Scopes
<1>2. CASE Collect
  <2>1. collected + 1 \in Readings /\ collected + 1 \in 0 .. MaxReadings
    BY <1>2 DEF Collect, FInv, TypeOK, FeedConstants, Readings
  <2>2. upstream' \in Seq(Readings) /\ Len(upstream') <= UpstreamSize
    BY <1>2, <2>1, QueueSteps DEF Collect, FInv, TypeOK, FeedConstants
  <2> QED
    BY <1>2, <2>1, <2>2 DEF Collect, FInv, TypeOK, journalVars, historyVars
<1>3. CASE Shutdown \/ CancelRuntime
  BY <1>3 DEF Shutdown, CancelRuntime, FInv, TypeOK, journalVars, historyVars
<1>4. ASSUME NEW c \in Consumers, RecordAbsent(c) PROVE TypeOK'
  <2>1. pub.msg \in Readings /\ pub \in PubState /\ pub.pc # "idle"
    BY <1>4 DEF RecordAbsent, FInv, TypeOK, Publishing, PubState
  <2>2. {<<c, pub.msg>>} \in SUBSET (Scopes \X Readings)
    BY <2>1 DEF Scopes
  <2>3. [pub EXCEPT !.active = @ \cup {c}] \in PubState
    BY <2>1 DEF PubState
  <2>4. pub' \in PubState /\ gaps' \subseteq Scopes \X Readings /\ faults' \in 0 .. MaxFaults
    BY <1>4, <2>1, <2>2, <2>3, DeferredType, RecordTyped DEF RecordAbsent
  <2> QED
    BY <1>4, <2>4 DEF RecordAbsent, FInv, TypeOK, PubState, historyVars
<1>5. CASE Close
  <2>1. PICK failed \in SUBSET {s \in Streams : sub[s].in /\ sub[s].ch # <<>>} :
          LET drained == {s \in Streams : sub[s].in} \ failed
          IN /\ IF failed = {} THEN UNCHANGED faults
                               ELSE faults < MaxFaults /\ faults' = faults + 1
             /\ gaps' = gaps \cup UNION {Queued(s) : s \in drained}
             /\ forgotten' = forgotten \cup UNION {Queued(s) : s \in failed}
             /\ sub' = [s \in Streams |->
                          [sub[s] EXCEPT !.in = FALSE,
                                         !.ch = IF s \in drained THEN <<>> ELSE @]]
    BY <1>5 DEF Close
  <2>2. gaps' \subseteq Scopes \X Readings /\ forgotten' \subseteq Pairs
    BY <1>1, <2>1
  <2>3. faults' \in 0 .. MaxFaults
    <3>1. faults' = faults \/ (faults < MaxFaults /\ faults' = faults + 1)
      BY <2>1
    <3>2. faults \in 0 .. MaxFaults /\ MaxFaults \in Nat
      BY <1>1
    <3> QED
      BY <3>1, <3>2
  <2>4. ASSUME NEW s \in Streams
        PROVE  sub'[s] \in SubState /\ Len(sub'[s].ch) <= StreamSize
    <3>1. PICK ch \in {<<>>, sub[s].ch} : sub'[s] = [sub[s] EXCEPT !.in = FALSE, !.ch = ch]
      BY <2>1
    <3> QED
      BY <1>1, <3>1 DEF SubState
  <2>5. sub' \in [Streams -> SubState]
    BY <2>1, <2>4
  <2> QED
    BY <1>5, <2>2, <2>3, <2>4, <2>5 DEF Close, FInv, TypeOK, SubState
<1>6. CASE Restart
  <2>1. NoSub \in SubState /\ NoSub.ch = <<>>
    BY <1>1 DEF NoSub, SubState
  <2>2. faults' \in 0 .. MaxFaults
    BY <1>1, <1>6 DEF Restart
  <2>3. /\ sub' \in [Streams -> SubState]
        /\ \A s \in Streams : Len(sub'[s].ch) <= StreamSize
    <3> HIDE DEF NoSub
    <3> QED
      BY <1>1, <1>6, <2>1 DEF Restart
  <2>4. stream' \in [Streams -> StreamState]
    BY <1>1, <1>6 DEF Restart, StreamState
  <2>5. forgotten' \subseteq Pairs
    BY <1>1, <1>6 DEF Restart
  <2>6. upstream' \in Seq(Readings) /\ Len(upstream') <= UpstreamSize
    BY <1>6 DEF Restart, FeedConstants
  <2> QED
    BY <1>6, <2>2, <2>3, <2>4, <2>5, <2>6, IdleType
    DEF Restart, FInv, TypeOK, SubState, StreamState, PubState, journalVars
<1> QED
  BY <1>2, <1>3, <1>4, <1>5, <1>6 DEF Closing

LEMMA TypeKept ==
    ASSUME FeedConstants, FInv, [Next]_vars
    PROVE  TypeOK'
<1>1. CASE UNCHANGED vars
  BY <1>1 DEF vars, FInv, TypeOK, journalVars, historyVars
<1> QED
  BY <1>1, PublishTyped, DeliverTyped, StreamTyped, LifeTyped DEF Next, PublishStep

-----------------------------------------------------------------------------
(***************************************************************************)
(* What is kept stays kept, in every step                                  *)
(***************************************************************************)
\* Steps that take from no queue.
LEMMA KeptBeside ==
    ASSUME gaps \subseteq gaps', UNCHANGED <<sub, handed, forgotten>>, NEW c, NEW m, Kept(c, m)
    PROVE  Kept(c, m)'
  BY DEF Kept

LEMMA KeptByDelivery ==
    ASSUME FInv, NEW s \in Streams, DrainStopped(s) \/ Put(s) \/ MakeRoom(s) \/ Wait(s)
    PROVE  \A c, m : Kept(c, m) => Kept(c, m)'
<1>1. UNCHANGED <<handed, forgotten>>
  BY DEF DrainStopped, Put, MakeRoom, Wait, historyVars
<1>2. /\ sub \in [Streams -> SubState] /\ sub[s].ch \in Seq(Readings)
      /\ pub.pc # "idle" => pub.msg \in Readings
  BY DEF FInv, TypeOK, SubState, Publishing
<1>3. ASSUME NEW q, sub' = [sub EXCEPT ![s].ch = q], gaps \subseteq gaps',
             \A m \in ToSet(sub[s].ch) : m \in ToSet(q) \/ <<Owner[s], m>> \in gaps'
      PROVE  \A c, m : Kept(c, m) => Kept(c, m)'
  <2>1. ASSUME NEW x \in Streams, NEW m \in ToSet(sub[x].ch)
        PROVE  m \in ToSet(sub'[x].ch) \/ <<Owner[x], m>> \in gaps'
    <3>1. CASE x = s
      <4>1. sub'[s].ch = q
        BY <1>2, <1>3 DEF SubState
      <4> QED
        BY <1>3, <3>1, <4>1
    <3>2. CASE x # s
      BY <1>2, <1>3, <3>2
    <3> QED
      BY <3>1, <3>2
  <2> QED
    BY <1>1, <1>3, <2>1, KeptOn
<1>4. CASE UNCHANGED sub
  <2>1. gaps \subseteq gaps'
    BY DEF DrainStopped, Put, MakeRoom, Wait, Recorded, NotRecorded, journalVars
  <2> QED
    BY <1>1, <1>4, <2>1, KeptBeside
<1>5. CASE DrainStopped(s) /\ sub' # sub
  <2>1. sub' = [sub EXCEPT ![s].ch = <<>>] /\ gaps' = gaps \cup Queued(s)
    BY <1>5 DEF DrainStopped
  <2>2. \A m \in ToSet(sub[s].ch) : <<Owner[s], m>> \in gaps'
    BY <2>1 DEF Queued
  <2> QED
    BY <1>3, <2>1, <2>2
<1>6. CASE (Put(s) \/ Wait(s)) /\ sub' # sub
  <2>1. sub' = [sub EXCEPT ![s].ch = Append(@, pub.msg)] /\ gaps' = gaps /\ pub.pc # "idle"
    BY <1>6 DEF Put, Wait, journalVars
  <2>2. ToSet(Append(sub[s].ch, pub.msg)) = ToSet(sub[s].ch) \cup {pub.msg}
    BY <1>2, <2>1, QueueSteps
  <2> QED
    BY <1>3, <2>1, <2>2
<1>7. CASE MakeRoom(s) /\ sub' # sub
  <2>1. sub[s].ch # <<>>
    BY <1>7 DEF MakeRoom
  <2>2. /\ Head(sub[s].ch) \in Readings /\ Tail(sub[s].ch) \in Seq(Readings)
        /\ ToSet(sub[s].ch) = ToSet(Tail(sub[s].ch)) \cup {Head(sub[s].ch)}
        /\ ToSet(Append(Tail(sub[s].ch), Head(sub[s].ch)))
             = ToSet(Tail(sub[s].ch)) \cup {Head(sub[s].ch)}
    BY <1>2, <2>1, QueueSteps
  <2>3. CASE /\ sub' = [sub EXCEPT ![s].ch = Tail(sub[s].ch)]
             /\ gaps' = gaps \cup {<<Owner[s], Head(sub[s].ch)>>}
    BY <1>3, <2>2, <2>3
  <2>4. CASE /\ sub' = [sub EXCEPT ![s].ch = Append(Tail(sub[s].ch), Head(sub[s].ch))]
             /\ gaps' = gaps
    BY <1>3, <2>2, <2>4
  <2> QED
    BY <1>7, <2>3, <2>4 DEF MakeRoom, Recorded, NotRecorded
<1> QED
  BY <1>4, <1>5, <1>6, <1>7

LEMMA KeptByStreams ==
    ASSUME FInv, NEW s \in Streams, StreamStep(s) \/ Sent(s) \/ Disconnect(s)
    PROVE  \A c, m : Kept(c, m) => Kept(c, m)'
<1>1. forgotten' = forgotten /\ gaps \subseteq gaps' /\ handed \subseteq handed'
  BY DEF StreamStep, Sent, Disconnect, Register, Subscribe, Receive, Stop, Drain, historyVars,
         journalVars
<1>2. sub \in [Streams -> SubState] /\ \A x \in Streams : sub[x].ch \in Seq(Readings)
  BY DEF FInv, TypeOK, SubState
<1>3. SUFFICES ASSUME NEW x \in Streams, NEW m \in ToSet(sub[x].ch)
               PROVE  m \in ToSet(sub'[x].ch) \/ <<Owner[x], m>> \in gaps' \cup handed'
  BY <1>1, KeptOn
<1>4. CASE sub'[x].ch = sub[x].ch
  BY <1>4
<1>5. CASE Subscribe(s) /\ sub'[x].ch # sub[x].ch
  <2>1. stream[s].pc = "open" /\ phase # "closed" /\ x = s
    BY <1>2, <1>5 DEF Subscribe, SubState
  <2>2. sub[x].ch = <<>>
    BY <2>1 DEF FInv, Queues
  <2> QED
    BY <1>2, <2>2, QueueSteps
<1>6. CASE Receive(s) /\ sub'[x].ch # sub[x].ch
  <2>1. x = s /\ sub'[x].ch = Tail(sub[x].ch) /\ sub[x].ch # <<>>
        /\ <<Owner[x], Head(sub[x].ch)>> \in handed'
    BY <1>2, <1>6 DEF Receive, SubState
  <2>2. ToSet(sub[x].ch) = ToSet(Tail(sub[x].ch)) \cup {Head(sub[x].ch)}
    BY <1>2, <2>1, QueueSteps
  <2> QED
    BY <2>1, <2>2
<1>7. CASE Drain(s) /\ sub'[x].ch # sub[x].ch
  <2>1. x = s /\ gaps' = gaps \cup Queued(s)
    BY <1>2, <1>7 DEF Drain, SubState
  <2> QED
    BY <2>1 DEF Queued
<1>8. CASE Register(s) \/ Stop(s) \/ Sent(s) \/ Disconnect(s)
  <2>1. UNCHANGED sub \/ sub' = [sub EXCEPT ![s].stopped = TRUE]
    BY <1>8 DEF Register, Stop, Sent, Disconnect
  <2> QED
    BY SMTT(30), <1>2, <1>4, <2>1 DEF SubState
<1> QED
  BY <1>4, <1>5, <1>6, <1>7, <1>8 DEF StreamStep

LEMMA KeptOverTheEnd ==
    ASSUME FInv, Close \/ Restart
    PROVE  \A c, m : Kept(c, m) => Kept(c, m)'
<1>1. sub \in [Streams -> SubState]
  BY DEF FInv, TypeOK, SubState
<1>2. CASE Close
  <2>1. PICK failed \in SUBSET {s \in Streams : sub[s].in /\ sub[s].ch # <<>>} :
          LET drained == {s \in Streams : sub[s].in} \ failed
          IN /\ gaps' = gaps \cup UNION {Queued(s) : s \in drained}
             /\ forgotten' = forgotten \cup UNION {Queued(s) : s \in failed}
             /\ sub' = [s \in Streams |->
                          [sub[s] EXCEPT !.in = FALSE,
                                         !.ch = IF s \in drained THEN <<>> ELSE @]]
    BY <1>2 DEF Close
  <2>2. ASSUME NEW x \in Streams, NEW m \in ToSet(sub[x].ch)
        PROVE  m \in ToSet(sub'[x].ch) \/ <<Owner[x], m>> \in gaps'
    <3>1. CASE x \in {s \in Streams : sub[s].in} \ failed
      <4>1. <<Owner[x], m>> \in Queued(x)
        BY DEF Queued
      <4> QED
        BY <2>1, <3>1, <4>1
    <3>2. CASE x \notin {s \in Streams : sub[s].in} \ failed
      BY <1>1, <2>1, <3>2 DEF SubState
    <3> QED
      BY <3>1, <3>2
  <2>3. gaps \subseteq gaps' /\ forgotten \subseteq forgotten' /\ handed' = handed
    BY <1>2, <2>1 DEF Close
  <2> QED
    BY <2>2, <2>3, KeptOn
<1>3. CASE Restart
  <2>1. UNCHANGED <<gaps, handed>> /\ forgotten \subseteq forgotten'
    BY <1>3 DEF Restart, journalVars
  <2>2. ASSUME NEW x \in Streams, NEW m \in ToSet(sub[x].ch)
        PROVE  <<Owner[x], m>> \in forgotten'
    <3>1. <<Owner[x], m>> \in Queued(x)
      BY DEF Queued
    <3>2. CASE phase = "closed"
      BY <1>3, <3>1, <3>2 DEF Restart, FInv, Queues
    <3>3. CASE phase # "closed"
      BY <1>3, <3>1, <3>3 DEF Restart
    <3> QED
      BY <3>2, <3>3
  <2> QED
    BY <2>1, <2>2, KeptOn
<1> QED
  BY <1>2, <1>3

\* Steps that move a reading through Publish, or a stream, or the runtime,
\* without a queue.
LEMMA KeptElsewhere ==
    ASSUME \/ Collect \/ Take \/ Observe \/ Publish \/ GiveUp \/ Published \/ Shutdown
           \/ CancelRuntime \/ (\E c \in Consumers : RecordAbsent(c)) \/ UNCHANGED vars
    PROVE  UNCHANGED <<sub, handed, forgotten>> /\ gaps \subseteq gaps'
  BY DEF Collect, Take, Observe, Publish, GiveUp, Published, Shutdown, CancelRuntime,
         RecordAbsent, Recorded, NotRecorded, vars, journalVars, historyVars

LEMMA KeptGrows ==
    ASSUME FInv, [Next]_vars
    PROVE  \A c, m : Kept(c, m) => Kept(c, m)'
<1>1. CASE \/ Collect \/ Take \/ Observe \/ Publish \/ GiveUp \/ Published \/ Shutdown
           \/ CancelRuntime \/ (\E c \in Consumers : RecordAbsent(c)) \/ UNCHANGED vars
  BY <1>1, KeptElsewhere, KeptBeside
<1>2. CASE \E s \in Streams : DrainStopped(s) \/ Put(s) \/ MakeRoom(s) \/ Wait(s)
  BY <1>2, KeptByDelivery
<1>3. CASE \E s \in Streams : StreamStep(s) \/ Sent(s) \/ Disconnect(s)
  BY <1>3, KeptByStreams
<1>4. CASE Close \/ Restart
  BY <1>4, KeptOverTheEnd
<1> QED
  BY <1>1, <1>2, <1>3, <1>4 DEF Next, PublishStep, Closing

-----------------------------------------------------------------------------
(***************************************************************************)
(* The queues, and the consumers in memory                                 *)
(***************************************************************************)
LEMMA QueuesKept ==
    ASSUME FInv, [Next]_vars
    PROVE  Queues'
<1>1. /\ sub \in [Streams -> SubState] /\ stream \in [Streams -> StreamState]
      /\ \A s \in Streams : sub[s].ch \in Seq(Readings)
  BY DEF FInv, TypeOK, SubState, StreamState
<1>2. Queues
  BY DEF FInv
<1>3. CASE UNCHANGED <<sub, stream, phase, forgotten>>
  BY <1>2, <1>3 DEF Queues, Queued
<1>4. CASE Shutdown \/ CancelRuntime
  BY <1>2, <1>4 DEF Queues, Shutdown, CancelRuntime
<1>5. ASSUME NEW s \in Streams, DrainStopped(s) \/ Put(s) \/ MakeRoom(s) \/ Wait(s)
      PROVE  Queues'
  <2>1. sub[s].in /\ phase # "closed"
    BY <1>5 DEF DrainStopped, Put, MakeRoom, Wait, FInv, Publishing, Locked
  <2>2. UNCHANGED <<stream, phase, forgotten>>
    BY <1>5 DEF DrainStopped, Put, MakeRoom, Wait, historyVars
  <2>3. UNCHANGED sub \/ \E q : sub' = [sub EXCEPT ![s].ch = q]
    BY <1>5 DEF DrainStopped, Put, MakeRoom, Wait
  <2>4. \A x \in Streams : sub'[x].in = sub[x].in /\ (x # s => sub'[x] = sub[x])
    BY <1>1, <2>3 DEF SubState
  <2> QED
    BY <1>2, <2>1, <2>2, <2>4 DEF Queues
<1>6. ASSUME NEW s \in Streams, StreamStep(s) \/ Sent(s) \/ Disconnect(s) PROVE Queues'
  <2>1. CASE Register(s)
    <3>1. UNCHANGED <<sub, phase, forgotten>>
      BY <2>1 DEF Register, historyVars
    <3>2. stream[s].pc = "new"
          /\ \A x \in Streams : x # s => stream'[x] = stream[x]
      BY <1>1, <2>1 DEF Register
    <3> QED
      BY <1>2, <3>1, <3>2 DEF Queues, Queued
  <2>2. CASE Subscribe(s)
    <3>1. UNCHANGED <<phase, forgotten>> /\ stream[s].pc = "open"
          /\ stream'[s].pc \notin {"new", "open"}
          /\ \A x \in Streams : x # s => stream'[x] = stream[x]
      BY <1>1, <2>2 DEF Subscribe, historyVars, StreamState
    <3>2. CASE UNCHANGED sub
      BY <1>2, <3>1, <3>2 DEF Queues, Queued
    <3>3. CASE phase # "closed" /\ sub' = [t \in Streams |->
                         IF t = s THEN [NoSub EXCEPT !.in = TRUE]
                         ELSE IF sub[t].in /\ Stopped(t) /\ sub[t].ch = <<>>
                              THEN [sub[t] EXCEPT !.in = FALSE] ELSE sub[t]]
      <4>1. sub'[s].in
        BY <3>3 DEF NoSub
      <4>2. ASSUME NEW x \in Streams, x # s
            PROVE  sub'[x] = sub[x] \/ (~sub'[x].in /\ sub'[x].ch = <<>>)
        BY <1>1, <3>3, <4>2 DEF SubState
      <4> QED
        BY <1>2, <3>1, <3>3, <4>1, <4>2 DEF Queues
    <3> QED
      BY <2>2, <3>2, <3>3 DEF Subscribe
  <2>3. CASE Receive(s)
    <3>1. UNCHANGED <<phase, forgotten>> /\ sub[s].ch # <<>>
          /\ stream[s].pc = "recv" /\ stream'[s].pc = "send"
          /\ \A x \in Streams : x # s => stream'[x] = stream[x]
      BY <1>1, <2>3 DEF Receive
    <3>2. /\ sub'[s].in = sub[s].in /\ sub'[s].ch = Tail(sub[s].ch)
          /\ \A x \in Streams : x # s => sub'[x] = sub[x]
      BY <1>1, <2>3 DEF Receive, SubState
    <3>3. Queued(s)' \subseteq Queued(s)
      BY <1>1, <3>1, <3>2, QueueSteps DEF Queued
    <3>4. \A x \in Streams : x # s => Queued(x)' = Queued(x)
      BY <3>2 DEF Queued
    <3> QED
      BY <1>2, <3>1, <3>2, <3>3, <3>4 DEF Queues
  <2>4. CASE Stop(s) \/ Sent(s) \/ Disconnect(s)
    <3>1. UNCHANGED <<phase, forgotten>>
          /\ stream[s].pc \notin {"new", "open"} /\ stream'[s].pc \notin {"new", "open"}
          /\ \A x \in Streams : x # s => stream'[x] = stream[x]
      BY <1>1, <2>4 DEF Stop, Sent, Disconnect, historyVars, StreamState
    <3>2. \A x \in Streams : sub'[x].in = sub[x].in /\ sub'[x].ch = sub[x].ch
      <4>1. UNCHANGED sub \/ sub' = [sub EXCEPT ![s].stopped = TRUE]
        BY <2>4 DEF Stop, Sent, Disconnect
      <4> QED
        BY <1>1, <4>1 DEF SubState
    <3> QED
      BY <1>2, <3>1, <3>2 DEF Queues, Queued
  <2>5. CASE Drain(s)
    <3>1. UNCHANGED <<phase, forgotten>>
          /\ stream[s].pc = "drain" /\ stream'[s].pc = "end"
          /\ \A x \in Streams : x # s => stream'[x] = stream[x]
      BY <1>1, <2>5 DEF Drain, historyVars, StreamState
    <3>2. CASE UNCHANGED sub
      BY <1>2, <3>1, <3>2 DEF Queues, Queued
    <3>3. CASE sub[s].in /\ sub' = [sub EXCEPT ![s].in = FALSE, ![s].ch = <<>>]
      <4>1. ~sub'[s].in /\ sub'[s].ch = <<>> /\ \A x \in Streams : x # s => sub'[x] = sub[x]
        BY <1>1, <3>3 DEF SubState
      <4>2. phase # "closed"
        BY <1>2, <3>3 DEF Queues
      <4> QED
        BY <1>2, <3>1, <4>1, <4>2 DEF Queues
    <3> QED
      BY <2>5, <3>2, <3>3 DEF Drain
  <2> QED
    BY <1>6, <2>1, <2>2, <2>3, <2>4, <2>5 DEF StreamStep
<1>7. CASE Close
  <2>1. PICK failed \in SUBSET {s \in Streams : sub[s].in /\ sub[s].ch # <<>>} :
          LET drained == {s \in Streams : sub[s].in} \ failed
          IN /\ forgotten' = forgotten \cup UNION {Queued(s) : s \in failed}
             /\ sub' = [s \in Streams |->
                          [sub[s] EXCEPT !.in = FALSE,
                                         !.ch = IF s \in drained THEN <<>> ELSE @]]
    BY <1>7 DEF Close
  <2>2. phase # "closed" /\ phase' = "closed"
    BY <1>7 DEF Close
  <2>3. ASSUME NEW x \in Streams
        PROVE  ~sub'[x].in /\ (sub'[x].ch = <<>> \/ (x \in failed /\ sub'[x].ch = sub[x].ch))
    BY <1>1, <1>2, <2>1, <2>2 DEF SubState, Queues
  <2>4. ASSUME NEW x \in Streams PROVE Queued(x)' \subseteq forgotten'
    <3>1. CASE sub'[x].ch = <<>>
      BY <3>1 DEF Queued, ToSet
    <3>2. CASE x \in failed /\ sub'[x].ch = sub[x].ch
      <4>1. Queued(x)' = Queued(x)
        BY <3>2 DEF Queued
      <4> QED
        BY <2>1, <3>2, <4>1
    <3> QED
      BY <2>3, <3>1, <3>2
  <2> QED
    BY <2>2, <2>3, <2>4 DEF Queues
<1>8. CASE Restart
  BY <1>8 DEF Restart, Queues, NoSub
<1>9. CASE Collect \/ UNCHANGED vars
  BY <1>3, <1>9 DEF Collect, vars, historyVars
<1>10. CASE \/ Take \/ Observe \/ Publish \/ GiveUp \/ Published
            \/ \E c \in Consumers : RecordAbsent(c)
  BY <1>3, <1>10 DEF Take, Observe, Publish, GiveUp, Published, RecordAbsent, historyVars
<1> QED
  BY <1>4, <1>5, <1>6, <1>7, <1>8, <1>9, <1>10 DEF Next, PublishStep, Closing

\* Who registers is registered in the journal and in memory at once.
LEMMA ConsumersKept ==
    ASSUME FInv, [Next]_vars
    PROVE  consumers' = saved'
<1>1. consumers = saved
  BY DEF FInv
<1>2. CASE \E s \in Streams : DrainStopped(s) \/ Put(s) \/ MakeRoom(s) \/ Wait(s)
  BY <1>1, <1>2 DEF DrainStopped, Put, MakeRoom, Wait, journalVars
<1>3. CASE \E s \in Streams : StreamStep(s) \/ Sent(s) \/ Disconnect(s)
  BY <1>1, <1>3 DEF StreamStep, Sent, Disconnect, Register, Subscribe, Receive, Stop, Drain,
                    journalVars
<1>4. CASE \/ Collect \/ Take \/ Observe \/ Publish \/ GiveUp \/ Published \/ Shutdown
           \/ CancelRuntime \/ (\E c \in Consumers : RecordAbsent(c)) \/ UNCHANGED vars
  BY <1>1, <1>4 DEF Collect, Take, Observe, Publish, GiveUp, Published, Shutdown, CancelRuntime,
                    RecordAbsent, vars, journalVars
<1>5. CASE Close \/ Restart
  BY <1>1, <1>5 DEF Close, Restart, journalVars
<1> QED
  BY <1>2, <1>3, <1>4, <1>5 DEF Next, PublishStep, Closing

-----------------------------------------------------------------------------
(***************************************************************************)
(* What Publish relies on between two of its steps                         *)
(***************************************************************************)
\* Steps of others while Publish holds the lock take nothing away from it.
LEMMA UntouchedPublish ==
    ASSUME FInv, [Next]_vars, UNCHANGED pub,
           Locked => /\ phase' # "closed"
                     /\ \A s \in Streams : sub[s].in => sub'[s].in
    PROVE  Publishing' /\ Accounts'
<1>1. Publishing'
  BY DEF FInv, Publishing, Locked, TypeOK
<1>2. Accounts'
  BY KeptGrows DEF FInv, Accounts, Locked
<1> QED
  BY <1>1, <1>2

\* A step of Publish itself that keeps the subscriptions.
LEMMA PublishMoves ==
    ASSUME FInv, [Next]_vars, pub' \in PubState, UNCHANGED phase, phase # "closed",
           NEW m \in Readings, pub'.msg = m,
           \A s \in Streams : sub[s].in => sub'[s].in,
           pub'.pc \in {"deliver", "full", "wait"},
           \A s \in pub'.todo : sub[s].in,
           \A c \in pub'.active :
              \/ pub'.pc \in {"full", "wait"} /\ c = Owner[pub'.at]
              \/ Kept(c, m) \/ Kept(c, m)',
           pub'.pc \in {"full", "wait"} => pub'.at \in Streams /\ sub[pub'.at].in
    PROVE  Publishing' /\ Accounts'
<1>1. \A s \in pub'.todo : s \in Streams
  BY DEF PubState
<1>2. Publishing'
  BY <1>1 DEF Publishing, Locked
<1>3. \A c \in pub'.active :
         (pub'.pc \in {"full", "wait"} /\ c = Owner[pub'.at]) \/ Kept(c, m)'
  BY KeptGrows
<1>4. Accounts'
  BY <1>3 DEF Accounts, Kept
<1> QED
  BY <1>2, <1>4

\* An attempt that is put off, and one that has not begun, owes nothing.
LEMMA PublishRests ==
    ASSUME pub'.pc \notin {"deliver", "full", "wait"}, pub'.active = {},
           pub'.pc # "idle" => pub'.msg \in Readings
    PROVE  Publishing' /\ Accounts'
  BY DEF Publishing, Accounts, Locked

LEMMA PublishKept ==
    ASSUME FeedConstants, FInv, [Next]_vars, PublishStep
    PROVE  Publishing' /\ Accounts'
<1>1. /\ pub \in PubState /\ upstream \in Seq(Readings)
      /\ pub.pc # "idle" => pub.msg \in Readings
      /\ pub.pc \notin {"deliver", "full", "wait"} => pub.active = {}
      /\ Locked => phase # "closed" /\ \A s \in pub.todo : sub[s].in
      /\ pub.pc \in {"full", "wait"} => pub.at \in Streams /\ sub[pub.at].in
      /\ Locked => \A c \in pub.active :
            \/ pub.pc \in {"full", "wait"} /\ c = Owner[pub.at]
            \/ Kept(c, pub.msg)
      /\ Owner \in [Streams -> Consumers] /\ phase \in {"running", "stopping", "cancelled", "closed"}
      /\ sub \in [Streams -> SubState] /\ \A s \in Streams : sub[s].ch \in Seq(Readings)
  BY DEF FInv, TypeOK, Publishing, Accounts, PubState, SubState, FeedConstants, Locked
<1>2. TypeOK'
  BY TypeKept
<1>3. pub' \in PubState
  BY <1>2 DEF TypeOK, PubState
<1>4. Idle.pc = "idle" /\ Idle.active = {}
  BY DEF Idle
<1>5. CASE Take
  <2>1. Head(upstream) \in Readings
    BY <1>1, <1>5, QueueSteps DEF Take
  <2>2. pub'.pc = "taken" /\ pub'.active = {} /\ pub'.msg = Head(upstream)
    BY <1>5 DEF Take, Idle
  <2> QED
    BY <2>1, <2>2, PublishRests
<1>6. CASE Observe \/ GiveUp \/ Published
  BY <1>1, <1>4, <1>6, PublishRests DEF Observe, GiveUp, Published, PubState
<1>7. CASE Publish
  <2>1. CASE pub' = Idle
    BY <1>4, <2>1, PublishRests
  <2>2. CASE pub' = [pub EXCEPT !.pc = "deliver", !.todo = {s \in Streams : sub[s].in}]
    <3>1. phase # "closed" /\ UNCHANGED <<phase, sub>> /\ pub.pc \in {"publish", "retry"}
      BY <1>7 DEF Publish, RuntimeAlive
    <3>2. /\ pub'.pc = "deliver" /\ pub'.todo = {s \in Streams : sub[s].in}
          /\ pub'.active = {} /\ pub'.msg \in Readings
      BY <1>1, <2>2, <3>1 DEF PubState
    <3> QED
      BY <1>1, <1>3, <3>1, <3>2, PublishMoves
  <2>3. CASE Deferred
    BY <1>7, <2>3, DeferredType, PublishRests DEF Publish
  <2> QED
    BY <1>7, <2>1, <2>2, <2>3 DEF Publish
<1>8. ASSUME NEW s \in Streams, DrainStopped(s) \/ Put(s) \/ MakeRoom(s) \/ Wait(s)
      PROVE  Publishing' /\ Accounts'
  <2>0. PICK m : m = pub.msg
    OBVIOUS
  <2>1. pub.pc \in {"deliver", "full", "wait"} /\ Locked /\ UNCHANGED phase
        /\ m \in Readings
    BY <1>1, <1>8, <2>0 DEF DrainStopped, Put, MakeRoom, Wait, Locked
  <2>2. \A x \in Streams : sub[x].in => sub'[x].in
    <3>1. UNCHANGED sub \/ \E q : sub' = [sub EXCEPT ![s].ch = q]
      BY <1>8 DEF DrainStopped, Put, MakeRoom, Wait
    <3> QED
      BY ZenonT(40), <1>1, <3>1 DEF SubState
  <2>3. CASE Deferred
    BY <2>1, <2>3, DeferredType, PublishRests
  <2>4. CASE DrainStopped(s) /\ ~Deferred
    <3>1. pub' = [pub EXCEPT !.todo = @ \ {s}] /\ pub.pc = "deliver"
      BY <2>4 DEF DrainStopped
    <3>2. /\ pub'.pc = "deliver" /\ pub'.todo = pub.todo \ {s} /\ pub'.active = pub.active
          /\ pub'.msg = m
      BY <1>1, <2>0, <3>1 DEF PubState
    <3> QED
      BY <1>1, <1>3, <2>0, <2>1, <2>2, <3>1, <3>2, PublishMoves
  <2>5. CASE Put(s)
    <3> DEFINE going == [pub EXCEPT !.todo = @ \ {s}, !.active = @ \cup {Owner[s]}]
    <3>1. pub.pc = "deliver" /\ s \in pub.todo
      BY <2>5 DEF Put
    <3>2. /\ going.pc = "deliver" /\ going.todo = pub.todo \ {s}
          /\ going.active = pub.active \cup {Owner[s]} /\ going.msg = m
      BY <1>1, <2>0, <3>1 DEF PubState
    <3>3. CASE sub' = [sub EXCEPT ![s].ch = Append(@, pub.msg)] /\ pub' = going
      <4>1. sub'[s].ch = Append(sub[s].ch, pub.msg)
        BY <1>1, <3>3 DEF SubState
      <4>2. m \in ToSet(sub'[s].ch)
        BY <1>1, <2>0, <2>1, <4>1, QueueSteps
      <4>3. Kept(Owner[s], m)'
        BY <4>2 DEF Kept
      <4> HIDE DEF going
      <4> QED
        BY <1>1, <1>3, <2>0, <2>1, <2>2, <3>1, <3>2, <3>3, <4>3, PublishMoves
    <3>4. CASE pub' = [going EXCEPT !.pc = "full", !.at = s]
      <4>1. /\ pub'.pc = "full" /\ pub'.at = s /\ pub'.todo = pub.todo \ {s}
            /\ pub'.active = pub.active \cup {Owner[s]} /\ pub'.msg = m
        BY <1>1, <2>0, <3>4 DEF PubState
      <4> QED
        BY <1>1, <1>3, <2>0, <2>1, <2>2, <3>1, <4>1, PublishMoves
    <3> QED
      BY <2>5, <3>3, <3>4 DEF Put
  <2>6. CASE MakeRoom(s) /\ ~Deferred
    <3>1. pub' = [pub EXCEPT !.pc = "wait"] /\ pub.pc = "full" /\ pub.at = s
      BY <2>6 DEF MakeRoom
    <3>2. /\ pub'.pc = "wait" /\ pub'.todo = pub.todo /\ pub'.active = pub.active
          /\ pub'.msg = m /\ pub'.at = pub.at
      BY <1>1, <2>0, <3>1 DEF PubState
    <3> QED
      BY <1>1, <1>3, <2>0, <2>1, <2>2, <3>1, <3>2, PublishMoves
  <2>7. CASE Wait(s) /\ ~Deferred
    <3>1. pub' = [pub EXCEPT !.pc = "deliver", !.at = None] /\ pub.pc = "wait" /\ pub.at = s
      BY <2>7 DEF Wait
    <3>2. /\ pub'.pc = "deliver" /\ pub'.todo = pub.todo /\ pub'.active = pub.active
          /\ pub'.msg = m
      BY <1>1, <2>0, <3>1 DEF PubState
    <3>3. Kept(Owner[s], m)'
      <4>1. CASE sub' = [sub EXCEPT ![s].ch = Append(@, pub.msg)]
        <5>1. sub'[s].ch = Append(sub[s].ch, pub.msg)
          BY <1>1, <4>1 DEF SubState
        <5>2. m \in ToSet(sub'[s].ch)
          BY <1>1, <2>0, <2>1, <5>1, QueueSteps
        <5> QED
          BY <5>2 DEF Kept
      <4>2. CASE Recorded({<<Owner[s], pub.msg>>})
        BY <2>0, <4>2 DEF Recorded, Kept
      <4> QED
        BY <2>7, <4>1, <4>2 DEF Wait
    <3> QED
      BY <1>1, <1>3, <2>0, <2>1, <2>2, <3>1, <3>2, <3>3, PublishMoves
  <2> QED
    BY <1>8, <2>3, <2>4, <2>5, <2>6, <2>7
<1>9. ASSUME NEW c \in Consumers, RecordAbsent(c) PROVE Publishing' /\ Accounts'
  <2>0. PICK m : m = pub.msg
    OBVIOUS
  <2>1. pub.pc = "deliver" /\ Locked /\ UNCHANGED <<phase, sub>> /\ m \in Readings
    BY <1>1, <1>9, <2>0 DEF RecordAbsent, Locked
  <2>2. CASE Deferred
    BY <2>1, <2>2, DeferredType, PublishRests
  <2>3. CASE Recorded({<<c, pub.msg>>}) /\ pub' = [pub EXCEPT !.active = @ \cup {c}]
    <3>1. /\ pub'.pc = "deliver" /\ pub'.todo = pub.todo /\ pub'.active = pub.active \cup {c}
          /\ pub'.msg = m
      BY <1>1, <2>0, <2>1, <2>3 DEF PubState
    <3>2. Kept(c, m)'
      BY <2>0, <2>3 DEF Recorded, Kept
    <3> QED
      BY <1>1, <1>3, <2>0, <2>1, <3>1, <3>2, PublishMoves
  <2> QED
    BY <1>9, <2>2, <2>3 DEF RecordAbsent
<1> QED
  BY <1>5, <1>6, <1>7, <1>8, <1>9 DEF PublishStep

\* Readers, connectors and the end of the runtime leave Publish what it needs.
LEMMA OthersKeepPublish ==
    ASSUME FeedConstants, FInv, [Next]_vars, ~PublishStep
    PROVE  Publishing' /\ Accounts'
<1>1. sub \in [Streams -> SubState] /\ (phase # "closed" \/ ~Locked)
  BY DEF FInv, TypeOK, SubState, Publishing
<1>2. CASE Restart
  BY <1>2, PublishRests DEF Restart, Idle
<1>3. CASE Collect \/ Shutdown \/ CancelRuntime \/ Close \/ UNCHANGED vars
  <2>1. UNCHANGED pub
    BY <1>3 DEF Collect, Shutdown, CancelRuntime, Close, vars
  <2>2. Locked => phase' # "closed" /\ UNCHANGED sub
    BY <1>3 DEF Collect, Shutdown, CancelRuntime, Close, vars, FInv, Publishing
  <2> QED
    BY <2>1, <2>2, UntouchedPublish
<1>4. ASSUME NEW s \in Streams, StreamStep(s) \/ Sent(s) \/ Disconnect(s)
      PROVE  Publishing' /\ Accounts'
  <2>1. UNCHANGED <<pub, phase>>
    BY <1>4 DEF StreamStep, Sent, Disconnect, Register, Subscribe, Receive, Stop, Drain
  <2>2. ASSUME Locked, NEW x \in Streams, sub[x].in PROVE sub'[x].in
    <3>1. sub \in [Streams -> SubState]
      BY DEF FInv, TypeOK, SubState
    <3>2. \/ UNCHANGED sub \/ sub' = [sub EXCEPT ![s].ch = Tail(@)]
          \/ sub' = [sub EXCEPT ![s].stopped = TRUE]
      BY <1>4, <2>2 DEF StreamStep, Sent, Disconnect, Register, Subscribe, Receive, Stop, Drain
    <3> QED
      BY <2>2, <3>1, <3>2 DEF SubState
  <2>3. Locked => phase # "closed"
    BY DEF FInv, Publishing
  <2> QED
    BY <2>1, <2>2, <2>3, UntouchedPublish
<1> QED
  BY <1>2, <1>3, <1>4 DEF Next, Closing

\* A reading that is done with is kept for every registered consumer.
LEMMA AccountedKept ==
    ASSUME FInv, [Next]_vars
    PROVE  Accounted'
<1>1. ASSUME NEW p \in owed PROVE Kept(p[1], p[2])'
  BY KeptGrows DEF FInv, Accounted
<1>2. CASE owed' = owed
  BY <1>1, <1>2 DEF Accounted
<1>3. CASE Observe /\ owed' # owed
  <2>1. PICK m : m = pub.msg
    OBVIOUS
  <2>2. /\ <<"collection_queue", m>> \in gaps'
        /\ owed' = owed \cup {<<c, m>> : c \in saved}
    BY <1>3, <2>1 DEF Observe, Recorded
  <2>3. \A c : Kept(c, m)'
    BY <2>2 DEF Kept
  <2> QED
    BY <1>1, <2>2, <2>3 DEF Accounted
<1>4. CASE Published
  <2>1. PICK m : m = pub.msg
    OBVIOUS
  <2>2. owed' = owed \cup {<<c, m>> : c \in saved}
    BY <1>4, <2>1 DEF Published
  <2>3. \A c \in saved : Kept(c, m)
    BY <1>4, <2>1 DEF Published, FInv, Accounts, Locked
  <2>4. \A c \in saved : Kept(c, m)'
    BY <2>3, KeptGrows
  <2> QED
    BY <1>1, <2>2, <2>4 DEF Accounted
<1>5. Observe \/ Published \/ owed' = owed
  BY DEF Next, PublishStep, StreamStep, Closing, Collect, Take, Publish, GiveUp, DrainStopped, Put,
         MakeRoom, Wait, RecordAbsent, Register, Subscribe, Receive, Sent, Disconnect, Stop, Drain,
         Shutdown, CancelRuntime, Close, Restart, vars, historyVars
<1> QED
  BY <1>2, <1>3, <1>4, <1>5

LEMMA InitFInv == FeedConstants /\ Init => FInv
<1> SUFFICES ASSUME FeedConstants, Init PROVE FInv
  OBVIOUS
<1>1. <<>> \in Seq(Readings) /\ Len(<<>>) = 0
  OBVIOUS
<1>2. TypeOK
  <2>1. /\ sub \in [Streams -> SubState] /\ stream \in [Streams -> StreamState]
        /\ \A s \in Streams : Len(sub[s].ch) <= StreamSize
    BY <1>1, IdleType DEF Init, StreamState, FeedConstants, NoSub
  <2>2. /\ collected \in 0 .. MaxReadings /\ faults \in 0 .. MaxFaults
        /\ upstream \in Seq(Readings) /\ Len(upstream) <= UpstreamSize
    BY <1>1 DEF Init, FeedConstants
  <2>3. pub \in PubState
    BY IdleType DEF Init
  <2> QED
    BY <2>1, <2>2, <2>3 DEF Init, TypeOK, SubState, StreamState, PubState
<1>3. Queues
  BY DEF Init, Queues, NoSub
<1>4. Publishing /\ Accounts
  BY DEF Init, Publishing, Accounts, Locked, Idle
<1> QED
  BY <1>2, <1>3, <1>4 DEF FInv, Init, Accounted

LEMMA StepKeeps == FeedConstants /\ FInv /\ [Next]_vars => FInv'
<1> SUFFICES ASSUME FeedConstants, FInv, [Next]_vars PROVE FInv'
  OBVIOUS
<1>1. TypeOK'
  BY TypeKept
<1>2. (consumers = saved)'
  BY ConsumersKept
<1>3. Queues'
  BY QueuesKept
<1>4. Publishing' /\ Accounts'
  BY PublishKept, OthersKeepPublish
<1>5. Accounted'
  BY AccountedKept
<1> QED
  BY <1>1, <1>2, <1>3, <1>4, <1>5 DEF FInv

-----------------------------------------------------------------------------
\* What Publish relies on, what the queues hold, and the bounds of the queues.
THEOREM FeedInvariance == FeedConstants => (Spec => []FInv)
<1> SUFFICES ASSUME FeedConstants PROVE Spec => []FInv
  OBVIOUS
<1>1. Init => FInv
  BY InitFInv
<1>2. FInv /\ [Next]_vars => FInv'
  BY StepKeeps
<1> QED
  BY <1>1, <1>2, PTL DEF Spec

\* No reading whose publication succeeded, and none that the collection queue
\* gave up, is lost silently for a consumer that was registered: it reaches a
\* stream of this consumer, or the consumer learns of a gap.
THEOREM AllAccounted == FeedConstants => (Spec => []Accounted)
<1> SUFFICES ASSUME FeedConstants PROVE Spec => []Accounted
  OBVIOUS
<1>1. FInv => Accounted
  BY DEF FInv
<1> QED
  BY <1>1, FeedInvariance, PTL
===============================================================================
