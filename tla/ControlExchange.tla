--------------------------- MODULE ControlExchange ---------------------------
(***************************************************************************)
(* One execution between the cloud and its edge: the cloud approves and    *)
(* dispatches it and asks for interventions, the edge runs it, and both    *)
(* only meet in the exchange, whose response may be lost.  The execution   *)
(* has a document on each side with a version of its own; receipts carry   *)
(* the edge's version to the cloud, operations name the version they are   *)
(* about.  A step on a device of another edge leaves a document there too, *)
(* which sends receipts of its own.                                        *)
(***************************************************************************)
EXTENDS Naturals, FiniteSets

CONSTANTS
    Steps,          \* the plan has the steps 1 .. Steps
    RemoteSteps,    \* those on a device of the other edge
    Operations,     \* identities of interventions
    MaxFaults       \* bound: lost responses and restarts

VARIABLES
    cloud,          \* the execution in the cloud: its status
    known,          \* the steps with a result there
    cursor,         \* receipt_cursor of each edge
    asked,          \* control_operation in the cloud
    edge,           \* the execution on the edge that coordinates it
    other,          \* its copy on the other edge: the version
    ops,            \* control_operation on the edge
    post,           \* a downlink: in the cloud's outbox, in the edge's inbox too, acknowledged
    work,           \* the deliveries of the edge's own outbox
    out,            \* receipts to send
    faults

vars == <<cloud, known, cursor, asked, edge, other, ops, post, work, out, faults>>
cloudVars == <<cloud, known, cursor, asked>>
edgeVars == <<edge, other, ops, work, out>>

Edges == {"coordinator", "owner"}
NoOperation == [action |-> "none", status |-> "none", expected |-> 0, local |-> FALSE]
NoDocument == [version |-> 0, status |-> "none", next |-> 1, command |-> "none",
               resumed |-> FALSE, by |-> {}]

Running == "running"
Terminal == {"completed", "failed", "rejected", "result_unknown", "ready_to_resume",
             "cancelled", "cancelled_result_unknown"}
Finished == {"completed", "rejected", "expired"}
Unknown(e) == e.command \in {"reserved", "unknown"}

(* transitionTable, the interventions                                       *)
Accepts(action, status) ==
    CASE action = "cancel" -> status \in {"awaiting_approval", "approved", "queued",
                                           "running", "result_unknown", "ready_to_resume"}
      [] action = "reconcile" -> status \in {"result_unknown", "cancelled_result_unknown"}
      [] action = "resume" -> status = "ready_to_resume"

(* receiptTransition: which status a receipt may bring.                     *)
StatusFollows(from, r) ==
    \/ from = r.status
    \/ from = "cancelled_result_unknown" /\ r.status = "cancelled"
    \/ from = "result_unknown"
       /\ \/ r.status \in {"ready_to_resume", "completed", "failed", "cancelled",
                           "cancelled_result_unknown"}
          \/ r.resumed /\ r.status \in {"queued", Running}
    \/ from = "ready_to_resume" /\ (r.resumed \/ r.status = "cancelled")
    \/ from = Running /\ r.status \in Terminal
    \/ from \in {"queued", "approved"} /\ r.status \in Terminal \cup {Running}
    \/ from = "approved" /\ r.status = "queued"
    \/ from = "awaiting_approval" /\ r.status \in {"rejected", "cancelled"}

ReceiptTransition(r) == known \subseteq r.steps /\ StatusFollows(cloud, r)

-----------------------------------------------------------------------------
(* The cloud: approval, dispatch and the request for an intervention.       *)
Approve ==
    /\ cloud = "awaiting_approval" /\ cloud' = "approved"
    /\ UNCHANGED <<known, cursor, asked, edgeVars, post, faults>>

(* DispatchVersion: queued with its downlink, or rejected.                  *)
Dispatch ==
    /\ cloud = "approved"
    /\ \/ cloud' = "queued" /\ post' = [post EXCEPT !["plan"] = "sent"]
       \/ cloud' = "rejected" /\ UNCHANGED post
    /\ UNCHANGED <<known, cursor, asked, edgeVars, faults>>

(* SubmitOperation in the cloud, for the version the cloud last heard of.   *)
Submit(o, action) ==
    /\ asked[o].status = "none" /\ ops[o].status = "none" /\ Accepts(action, cloud)
    /\ asked' = [asked EXCEPT ![o] = [action |-> action, status |-> "pending",
                                      expected |-> cursor["coordinator"], local |-> FALSE]]
    /\ post' = [post EXCEPT ![o] = "sent"]
    /\ UNCHANGED <<cloud, known, cursor, edgeVars, faults>>

-----------------------------------------------------------------------------
(* The edge.  A transition of the document and its receipt are one          *)
(* transaction; so are an operation, its outcome and its receipt.           *)
Receipt(n, e) == [from |-> n, kind |-> "execution", id |-> "receipt", version |-> e.version,
                  status |-> e.status, resumed |-> e.resumed, steps |-> 1 .. e.next - 1]
OperationReceipt(o, op) ==
    [from |-> "coordinator", kind |-> "operation", id |-> o,
     version |-> CASE op.status = "started" -> 2 [] OTHER -> 3,
     status |-> op.status, resumed |-> FALSE, steps |-> {}]

Transition(e) ==
    LET next == [e EXCEPT !.version = edge.version + 1]
    IN  edge' = next /\ out' = out \cup {Receipt("coordinator", next)}

(* Run: the delivery of the cloud, or the one a resumption has left.        *)
Accept ==
    /\ "plan" \in work /\ edge.status = "none"
    /\ Transition([edge EXCEPT !.status = "queued"])
Start ==
    /\ work \cap {"plan", "resume"} # {} /\ edge.status = "queued"
    /\ \/ Transition([edge EXCEPT !.status = Running])
       \/ Transition([edge EXCEPT !.status = "rejected"])
Reserve ==
    /\ edge.status = Running /\ edge.command = "none" /\ edge.next <= Steps
    /\ edge.next \in RemoteSteps => other = 0
    /\ Transition([edge EXCEPT !.command = "reserved"])

(* ExecuteRemoteStep: the owner imports the execution, reserves the action  *)
(* and records its result.                                                  *)
RemoteStep ==
    /\ edge.command = "reserved" /\ edge.next \in RemoteSteps /\ other < 3
    /\ other' = IF other = 0 THEN 2 ELSE 3
    /\ out' = out \cup {[Receipt("owner", edge) EXCEPT
                            !.version = other', !.status = Running,
                            !.steps = 1 .. edge.next + other' - 3]}
    /\ UNCHANGED <<cloudVars, edge, ops, post, work, faults>>

(* recordStep: a result that ends the doubt ends the pending cancellation.  *)
Record ==
    /\ edge.command = "reserved" /\ edge.status \in {Running, "cancelled_result_unknown"}
    /\ edge.next \in RemoteSteps => other = 3
    /\ \/ Transition([edge EXCEPT !.command = "unknown"])
       \/ Transition([edge EXCEPT !.command = "none", !.next = edge.next + 1,
              !.status = IF edge.status = Running THEN Running ELSE "cancelled"])
Finish ==
    /\ edge.status = Running
    /\ \/ edge.next > Steps /\ Transition([edge EXCEPT !.status = "completed"])
       \/ edge.command = "unknown" /\ Transition([edge EXCEPT !.status = "result_unknown"])

RunStep ==
    /\ Accept \/ Start \/ Reserve \/ Record \/ Finish
    /\ UNCHANGED <<cloudVars, other, ops, post, work, faults>>

(* consume: the delivery of an execution that has ended, of an operation    *)
(* that has an outcome, is done.                                            *)
Consumed(item) ==
    /\ item \in work
    /\ IF item \in Operations THEN ops[item].status \in Finished
       ELSE edge.status \in Terminal
    /\ work' = work \ {item}
    /\ UNCHANGED <<cloudVars, edge, other, ops, post, out, faults>>

-----------------------------------------------------------------------------
(* SubmitOperation on the edge: it leaves the work to both, the call itself *)
(* and the worker.                                                          *)
SubmitLocal(o, action) ==
    /\ asked[o].status = "none" /\ ops[o].status = "none"
    /\ edge.status # "none" /\ Accepts(action, edge.status)
    /\ ops' = [ops EXCEPT ![o] = [action |-> action, status |-> "pending",
                                  expected |-> edge.version, local |-> TRUE]]
    /\ work' = work \cup {o}
    /\ UNCHANGED <<cloudVars, edge, other, post, out, faults>>

(* What an operation answers goes to the cloud when it came from there.     *)
Answered(o, op) == IF op.local THEN {} ELSE {OperationReceipt(o, op)}

(* claimOperation, or the end of one whose deadline has passed.             *)
Claim(o) ==
    /\ o \in work /\ ops[o].status = "pending"
    /\ \E s \in {"started", "expired"} :
       LET op == [ops[o] EXCEPT !.status = s]
       IN  ops' = [ops EXCEPT ![o] = op] /\ out' = out \cup Answered(o, op)
    /\ UNCHANGED <<cloudVars, edge, other, post, work, faults>>

(* Cancel, Reconcile and Resume, and a cancellation before the start.       *)
Intervened(o) ==
    LET stamped(e) == [e EXCEPT !.by = @ \cup {o}]
        settled == [edge EXCEPT !.command = "none", !.next = edge.next + 1]
    IN  CASE ops[o].action = "cancel" ->
                {stamped([edge EXCEPT !.status =
                    IF Unknown(edge) THEN "cancelled_result_unknown" ELSE "cancelled"])}
          [] ops[o].action = "reconcile" ->
                {stamped(edge),
                 stamped([settled EXCEPT !.status =
                    IF edge.status = "cancelled_result_unknown" THEN "cancelled"
                    ELSE IF settled.next > Steps THEN "completed" ELSE "ready_to_resume"]),
                 stamped([settled EXCEPT !.status =
                    IF edge.status = "cancelled_result_unknown" THEN "cancelled" ELSE "failed"])}
          [] ops[o].action = "resume" ->
                {stamped([edge EXCEPT !.status = "queued", !.resumed = TRUE])}

Current(o) ==
    /\ edge.version = ops[o].expected
    /\ IF edge.status = "none" THEN ops[o].action = "cancel"
       ELSE Accepts(ops[o].action, edge.status)

(* finishOperationTx                                                        *)
FinishOperation(o) == ops' = [ops EXCEPT ![o].status = "completed"]

Process(o) ==
    /\ o \in work /\ ops[o].status = "started"
    /\ IF Current(o)
       THEN \E e \in Intervened(o) :
                /\ edge' = [e EXCEPT !.version = edge.version + 1]
                /\ FinishOperation(o)
                /\ out' = out \cup {Receipt("coordinator", edge')}
                              \cup Answered(o, [ops[o] EXCEPT !.status = "completed"])
                /\ work' = IF ops[o].action = "resume" THEN work \cup {"resume"} ELSE work
       ELSE /\ ops' = [ops EXCEPT ![o].status = "rejected"]
            /\ out' = out \cup Answered(o, [ops[o] EXCEPT !.status = "rejected"])
            /\ UNCHANGED <<edge, work>>
    /\ UNCHANGED <<cloudVars, other, post, faults>>

-----------------------------------------------------------------------------
(* The exchange.  The cloud commits the receipts of a request one by one,   *)
(* those of one millisecond (two that follow each other here) in any order; *)
(* one it cannot commit is refused, stays with the edge and holds up no     *)
(* other.  One whose response is lost stays too.                            *)

Newer(r) == r.version > cursor[r.from]

Shown(r) == /\ cloud' = r.status /\ known' = r.steps
            /\ cursor' = [cursor EXCEPT ![r.from] = r.version]

(* Fault: a receipt that is refused counts as delivered.                    *)
Swallow(r) ==
    IF Newer(r) /\ ReceiptTransition(r) THEN Shown(r) ELSE UNCHANGED <<cloud, known, cursor>>

ReceiveExecution(r) ==
    IF Newer(r)
    THEN ReceiptTransition(r) /\ Shown(r)
    ELSE UNCHANGED <<cloud, known, cursor>>

(* Fault: the end of an operation is overwritten by its start.              *)
AnyOrder(r) == TRUE
(* ReceiveOperationReceipt                                                  *)
NotAnswered(r) == asked[r.id].status \notin Finished

Committed(r) == r.kind = "operation" \/ ~Newer(r) \/ ReceiptTransition(r)
InOrder(r) ==
    \A q \in out : q.from = r.from /\ q.id = r.id /\ Committed(q) => r.version <= q.version + 1

Receive(r) ==
    /\ r \in out /\ InOrder(r)
    /\ CASE r.kind = "execution" -> ReceiveExecution(r) /\ UNCHANGED asked
         [] r.kind = "operation" ->
              /\ asked' = IF NotAnswered(r) THEN [asked EXCEPT ![r.id].status = r.status]
                          ELSE asked
              /\ UNCHANGED <<cloud, known, cursor>>
    /\ \/ out' = out \ {r} /\ UNCHANGED faults
       \/ UNCHANGED out /\ faults < MaxFaults /\ faults' = faults + 1
    /\ UNCHANGED <<edge, other, ops, post, work>>

(* Fault: a downlink that comes again is worked on again.                   *)
Anew(i) == TRUE
NotSeen(i) == post[i] = "sent"

(* A downlink is offered until its acknowledgement has come, so it may come *)
(* twice; the edge keeps a new operation as still open (ProcessOperation).  *)
Deliver(i) ==
    /\ post[i] \in {"sent", "stored"}
    /\ IF NotSeen(i)
       THEN /\ work' = work \cup {i}
            /\ ops' = IF i \in Operations
                      THEN [ops EXCEPT ![i] = [asked[i] EXCEPT !.status = "pending"]] ELSE ops
       ELSE UNCHANGED <<work, ops>>
    /\ post' = [post EXCEPT ![i] = IF @ = "sent" THEN "stored" ELSE "acknowledged"]
    /\ UNCHANGED <<cloudVars, edge, other, out, faults>>

(* The process of the edge ends with a command on its way.                  *)
Restart ==
    /\ faults < MaxFaults /\ faults' = faults + 1
    /\ edge.command = "reserved" /\ edge.status = Running
    /\ Transition([edge EXCEPT !.command = "unknown"])
    /\ UNCHANGED <<cloudVars, other, ops, post, work>>

Init ==
    /\ cloud = "awaiting_approval" /\ known = {}
    /\ cursor = [n \in Edges |-> 0]
    /\ asked = [o \in Operations |-> NoOperation]
    /\ ops = [o \in Operations |-> NoOperation]
    /\ edge = NoDocument /\ other = 0
    /\ post = [i \in Operations \cup {"plan"} |-> "none"]
    /\ work = {} /\ out = {} /\ faults = 0

Actions == {"cancel", "reconcile", "resume"}
Exchange == \/ \E i \in Operations \cup {"plan"} : Deliver(i)
            \/ \E r \in out : Receive(r)
EdgeStep == RunStep \/ RemoteStep \/ \E o \in Operations : Claim(o) \/ Process(o)

Next ==
    \/ Approve \/ Dispatch
    \/ \E o \in Operations, a \in Actions : Submit(o, a) \/ SubmitLocal(o, a)
    \/ EdgeStep
    \/ \E i \in work : Consumed(i)
    \/ Exchange
    \/ Restart

(* The workers of the edge and the exchange run on timers.                  *)
Step == EdgeStep \/ Exchange
Fairness == WF_vars(Step)
Spec == Init /\ [][Next]_vars
FairSpec == Spec /\ Fairness

-----------------------------------------------------------------------------
TypeOK ==
    /\ edge.next \in 1 .. Steps + 1 /\ edge.by \subseteq Operations
    /\ \A n \in Edges : cursor[n] <= (IF n = "owner" THEN other ELSE edge.version)
    /\ \A o \in Operations : asked[o].status = "started" => ops[o].status # "pending"

(* An operation is completed exactly when its transition has been made, on  *)
(* the version it named; the cloud never hears of another outcome           *)
(* (ProcessOperation, finishOperationTx, ReceiveOperationReceipt).          *)
OneOutcome ==
    \A o \in Operations :
        /\ ops[o].status = "completed" <=> o \in edge.by
        /\ asked[o].status \in Finished => asked[o].status = ops[o].status
        /\ o \in edge.by /\ ops[o].action = "cancel" =>
              edge.status \in {"cancelled", "cancelled_result_unknown"}

(* With every receipt delivered the cloud shows the status of the edge,     *)
(* whatever the order they came in (receiveExecutionReceipt).               *)
CloudShowsEdge ==
    edge.version > 0 /\ out = {} => cloud = edge.status

(* The outcome the cloud knows of an operation stands, whatever receipts    *)
(* come late or again (ReceiveOperationReceipt, NotAnswered).               *)
Stand == \A o \in Operations :
           asked[o].status \in Finished => asked'[o].status = asked[o].status
OutcomesStand == [][Stand]_vars

(* Every operation the cloud asks for gets an outcome there.                *)
Pending(o) == asked[o].status = "pending"
Settled(o) == asked[o].status \in Finished
OperationsSettled == \A o \in Operations : Pending(o) ~> Settled(o)

(* Every receipt of an edge is committed in the end.                        *)
ReceiptsSettle == []<>(out = {})
=============================================================================
