---------------------------- MODULE SiteExecution ----------------------------
(***************************************************************************)
(* One coordinated execution of a control plan whose device steps belong   *)
(* to several edges: Platform/internal/control (Run, runStep, recordStep,  *)
(* ExecuteRemoteStep, Cancel) over Platform/internal/coordination (the     *)
(* lease, journal and active buckets of the three-replica NATS store).     *)
(*                                                                         *)
(* A thread is one call in progress on an edge: a runner executes          *)
(* Service.Run or Service.Cancel, a handler serves the steps other         *)
(* coordinators send.  Every database transaction and every key-value      *)
(* operation is one action, so threads interleave between any two of them. *)
(* The clock is abstracted: a lease can run out whenever it is held.       *)
(***************************************************************************)
EXTENDS Naturals, Sequences, FiniteSets

CONSTANTS
    Edges,         \* the edges that take part in the plan (Policy.EdgeIDs)
    Steps,         \* identifiers of all device steps; unique in a plan
    StepEdge,      \* the edge that owns the device of a step
    NormalPlan,    \* Policy.Steps, a sequence of step identifiers
    DegradedPlan,  \* Policy.Degraded, never empty for several edges
    Runners,       \* threads that call Run or Cancel
    Handlers,      \* threads of ServeCommands, one per subscription
    Home,          \* the edge a thread runs on
    Downlink,      \* the runner that serves the downlink of the execution
    CancelEdges,   \* the edges where an operator may ask for a cancellation
    RefusingEdges, \* the edges whose policy, rights or conditions may forbid it
    OutageEdges,   \* the edges that may lose the coordination service
    None,          \* absence of a document, a step, a result or an owner
    MaxClaims,     \* bound: lease claims
    MaxCrashes,    \* bound: process crashes
    MaxVersion     \* bound: version of a local execution document

Threads == Runners \cup Handlers

ASSUME SiteAssumption ==
    /\ Downlink \in Runners
    /\ StepEdge \in [Steps -> Edges]
    /\ Home \in [Threads -> Edges]
    /\ Runners \cap Handlers = {}
    /\ NormalPlan \in Seq(Steps) /\ DegradedPlan \in Seq(Steps)
    /\ None \notin Edges \cup Steps \cup Threads
    /\ None \notin {"SUCCESS", "FAILURE", "RESULT_UNKNOWN", "reserved"}
    /\ MaxClaims \in Nat /\ MaxCrashes \in Nat /\ MaxVersion \in Nat

\* A policy whose steps share an identifier is not accepted (rulecore, compile).
ASSUME PlanAssumption ==
    /\ \A i, j \in DOMAIN NormalPlan : NormalPlan[i] = NormalPlan[j] => i = j
    /\ \A i \in DOMAIN NormalPlan, j \in DOMAIN DegradedPlan : NormalPlan[i] # DegradedPlan[j]

\* FAILURE stands for FAILURE and REJECTED, which the protocol treats alike.
Confirmed == {"SUCCESS", "FAILURE"}
Outcomes == Confirmed \cup {"RESULT_UNKNOWN"}
Running == {"running", "degraded_running"}
Terminal == {"completed", "degraded_completed", "failed", "rejected",
             "result_unknown", "cancelled", "cancelled_result_unknown"}
Statuses == {"queued"} \cup Running \cup Terminal

Execution ==
    [status : Statuses, fence : Nat, coord : Edges \cup {None}, ver : Nat,
     cmd : Steps \cup {None}, steps : [Steps -> Outcomes \cup {None}],
     cancelled : BOOLEAN]

ASSUME NoneAssumption == None \notin Execution

VARIABLES
    lease,      \* the execution's key in the lease bucket; rev counts claims
    journal,    \* the signed checkpoint, None while there is none
    active,     \* whether the active bucket lists the execution
    doc,        \* the execution document in the database of each edge
    act,        \* the action journal of each edge, by step
    sent,       \* how often the command of a step was sent to its device
    thr,        \* the local state of each thread
    net,        \* step requests sent over NATS and not yet received
    crashes     \* crashes so far

vars == <<lease, journal, active, doc, act, sent, thr, net, crashes>>

(***************************************************************************)
(* Documents                                                               *)
(***************************************************************************)
\* Fault: the supplied status is stored instead of queued.
AcceptedAsSupplied ==
    [status |-> "approved", fence |-> 0, coord |-> None, ver |-> 1,
     cmd |-> None, steps |-> [s \in Steps |-> None], cancelled |-> FALSE]

Accepted ==
    [status |-> "queued", fence |-> 0, coord |-> None, ver |-> 1,
     cmd |-> None, steps |-> [s \in Steps |-> None], cancelled |-> FALSE]

\* transitionTable, for the events this module takes.
ValidTransition(from, event, to) ==
    \/ event = "start" /\ <<from, to>> \in
           {<<"queued", "running">>, <<"queued", "degraded_running">>,
            <<"running", "running">>, <<"running", "degraded_running">>,
            <<"degraded_running", "degraded_running">>}
    \/ event = "step" /\
           \/ from = to /\ from \in Running \cup {"cancelled", "cancelled_result_unknown"}
           \/ from = "cancelled_result_unknown" /\ to = "cancelled"
    \/ event = "finish" /\
           \/ from \in Running /\ to \in {"failed", "result_unknown"}
           \/ from = "running" /\ to = "completed"
           \/ from = "degraded_running" /\ to = "degraded_completed"
    \/ event = "reject" /\
           \/ from \in Running \cup {"queued"} /\ to = "rejected"
           \/ from \in Running /\ to = "result_unknown"
    \/ event = "cancel" /\
           \/ from \in Running \cup {"queued"} /\ to = "cancelled"
           \/ from \in Running \cup {"result_unknown"} /\ to = "cancelled_result_unknown"

\* receiptTransition: a document may be replaced by one recovered elsewhere.
ReceiptTransition(previous, next) ==
    /\ previous.cancelled => next.cancelled
    /\ \A s \in Steps : previous.steps[s] \in Confirmed => next.steps[s] = previous.steps[s]
    /\ \/ previous.status = next.status
       \/ previous.status = "cancelled_result_unknown" /\ next.status = "cancelled"
       \/ previous.status = "result_unknown" /\ next.status \in
              {"completed", "degraded_completed", "failed",
               "cancelled", "cancelled_result_unknown"}
       \/ previous.status \in Running /\ next.status \in Terminal \cup {"degraded_running"}
       \/ previous.status = "queued" /\ next.status \in Running \cup Terminal

\* Fault: only the fence is compared.
FenceProgress(previous, next) == previous.fence <= next.fence

CheckpointProgress(previous, next) ==
    /\ previous.fence <= next.fence
    /\ ReceiptTransition(previous, next)
    /\ previous.fence = next.fence =>
           /\ previous.ver <= next.ver
           /\ previous.ver = next.ver => previous = next
           /\ previous.status \in Terminal =>
                  /\ previous.status = "cancelled_result_unknown"
                  /\ next.status \in {"cancelled", "cancelled_result_unknown"}

Unresolved == {"reserved", "RESULT_UNKNOWN"}
UnknownActions(actions) == \E s \in Steps : actions[s] \in Unresolved
\* Fault: degraded steps start without a look at the action journal.
AnyAction(e) == TRUE

NoAction(e) == \A s \in Steps : act[e][s] = None

(***************************************************************************)
(* Threads                                                                 *)
(***************************************************************************)
PCs == {"idle", "claim", "commit", "outage", "start", "ckpt", "index", "step",
        "import", "reserve", "before", "send", "await", "record", "finish",
        "cancel", "exit"}

Idle == [pc |-> "idle", op |-> None, req |-> None, step |-> None, res |-> None,
         mode |-> "normal", rev |-> 0, next |-> "exit", peer |-> None]

Local(t, l) == thr' = [thr EXCEPT ![t] = l]
At(t, label) == thr[t].pc = label

\* The call is over: a runner only has its lease left to give up, a handler
\* answers with res.  An error is answered as an unknown result.
Return(t, l, res) ==
    IF t \in Runners
    THEN IF l.rev = 0 THEN Idle ELSE [Idle EXCEPT !.pc = "exit", !.rev = l.rev]
    ELSE [Idle EXCEPT !.pc = "exit", !.res = res, !.step = l.step, !.rev = l.rev, !.peer = l.peer]

Failed(t, l) == Return(t, l, "RESULT_UNKNOWN")

Goto(t, l, label) ==
    IF label = "exit" THEN Return(t, l, l.res) ELSE [l EXCEPT !.pc = label, !.next = "exit"]

\* Validate succeeds: the lease is held by owner under this fence right now.
Leased(owner, fence) ==
    lease.live /\ lease.owner = owner /\ lease.fence = fence /\ fence # 0

\* After a local commit of l.req: Service.checkpoint, then on to label.
\* Checkpoint first validates the fence.
Proceed(t, l, label) ==
    Local(t, IF l.req.fence > 0 /\ l.req.coord = Home[t]
             THEN IF Leased(l.req.coord, l.req.fence)
                  THEN [l EXCEPT !.pc = "ckpt", !.next = label]
                  ELSE Failed(t, l)
             ELSE Goto(t, l, label))

Plan(mode) == IF mode = "degraded" THEN DegradedPlan ELSE NormalPlan

\* Fault: any recorded result counts as done.
TodoUnlessRecorded(d, mode, e, i) ==
    /\ d.steps[Plan(mode)[i]] = None
    /\ mode = "degraded" => StepEdge[Plan(mode)[i]] = e

\* The i-th step of the plan is still to be done by a runner on edge e.
Todo(d, mode, e, i) ==
    /\ d.steps[Plan(mode)[i]] # "SUCCESS"
    /\ mode = "degraded" => StepEdge[Plan(mode)[i]] = e

(***************************************************************************)
(* Run: take up the execution, acquire its lease, start                    *)
(***************************************************************************)
Adoptable(d) ==
    /\ journal # None
    /\ journal.fence > d.fence \/ (journal.fence = d.fence /\ journal.ver > d.ver)

\* What Run does next with document d, when nothing refuses the execution: a
\* degraded execution stays degraded and needs no lease.
Continue(d) ==
    IF d.status = "degraded_running"
    THEN [Idle EXCEPT !.op = "run", !.req = d, !.pc = "start", !.mode = "degraded"]
    ELSE [Idle EXCEPT !.op = "run", !.req = d, !.pc = "claim"]

\* The downlink is delivered again until Run returns; the recovery loop of any
\* edge takes up an active execution whose lease ran out (Pending, Resume).  A
\* local document that does not exist yet is accepted first.
Begin(r) ==
    LET e == Home[r]
        d == IF doc[e] = None THEN Accepted ELSE doc[e]
        adopted == [journal EXCEPT !.ver = d.ver + 1]
    IN  /\ At(r, "idle")
        /\ r = Downlink \/ (active /\ ~lease.live)
        /\ r # Downlink /\ doc[e] = None => journal # None
        /\ d.status \notin Terminal
        /\ \/ \* nothing newer in the journal, or it cannot be read
              /\ ~Adoptable(d) \/ (d.status = "queued" /\ e \in OutageEdges)
              /\ doc' = [doc EXCEPT ![e] = d]
              /\ Local(r, Continue(d))
           \/ \* the journal cannot be read while steps may be under way
              /\ d.status \in Running
              /\ e \in OutageEdges
              /\ UNCHANGED doc
              /\ Local(r, [Continue(d) EXCEPT !.pc =
                             IF d.status = "running" THEN "outage" ELSE "start"])
           \/ /\ Adoptable(d)
              /\ ReceiptTransition(d, journal)
              /\ doc' = [doc EXCEPT ![e] = adopted]
              /\ IF adopted.status \in Terminal
                 THEN Proceed(r, Continue(adopted), "exit")
                 ELSE Proceed(r, Continue(adopted), Continue(adopted).pc)
           \/ \* the journal contradicts the local document: an error
              /\ Adoptable(d)
              /\ ~ReceiptTransition(d, journal)
              /\ doc' = [doc EXCEPT ![e] = d]
              /\ UNCHANGED thr
        /\ UNCHANGED <<lease, journal, active, act, sent, net, crashes>>

\* Acquire, first write: the lease is claimed with no fence yet.  A reply
\* that is lost looks like an outage to the caller.
Claim(r) ==
    /\ At(r, "claim")
    /\ ~lease.live
    /\ lease.rev < MaxClaims
    /\ lease' = [rev |-> lease.rev + 1, owner |-> Home[r], fence |-> 0, live |-> TRUE]
    /\ \/ Local(r, [thr[r] EXCEPT !.pc = "commit", !.rev = lease.rev + 1])
       \/ Home[r] \in OutageEdges /\ Local(r, [thr[r] EXCEPT !.pc = "outage"])
    /\ UNCHANGED <<journal, active, doc, act, sent, net, crashes>>

\* ErrLeaseHeld: somebody else holds or claims the lease; Run returns.
LeaseHeld(r) ==
    /\ \/ At(r, "claim") /\ lease.live
       \/ At(r, "commit") /\ lease.rev # thr[r].rev
    /\ Local(r, Idle)
    /\ UNCHANGED <<lease, journal, active, doc, act, sent, net, crashes>>

\* Acquire, second write: the revision of the claim becomes the fence.
Commit(r) ==
    /\ At(r, "commit")
    /\ lease.rev = thr[r].rev
    /\ lease' = [lease EXCEPT !.fence = thr[r].rev]
    /\ \/ Local(r, [thr[r] EXCEPT
                      !.pc = IF thr[r].op = "cancel" THEN "cancel" ELSE "start",
                      !.req.fence = thr[r].rev, !.req.coord = Home[r]])
       \/ /\ Home[r] \in OutageEdges
          /\ Local(r, [thr[r] EXCEPT !.pc = "outage", !.rev = 0])
    /\ UNCHANGED <<journal, active, doc, act, sent, net, crashes>>

\* A participant is not ready or the key-value store does not answer.
CoordinationFails(r) ==
    /\ At(r, "claim") \/ At(r, "commit")
    /\ Home[r] \in OutageEdges
    /\ Local(r, [thr[r] EXCEPT !.pc = "outage", !.rev = 0])
    /\ UNCHANGED <<lease, journal, active, doc, act, sent, net, crashes>>

\* Without coordination an edge that has acted on nothing yet runs its own
\* degraded steps; a cancellation is refused.
Degrade(r) ==
    /\ At(r, "outage")
    /\ \/ /\ thr[r].op = "run"
          /\ NoAction(Home[r])
          /\ Local(r, [thr[r] EXCEPT !.pc = "start", !.mode = "degraded",
                                     !.req.fence = 0, !.req.coord = None])
       \/ thr[r].op = "cancel" /\ Local(r, Idle)
    /\ UNCHANGED <<lease, journal, active, doc, act, sent, net, crashes>>

\* Save commits l.req with a new status at the version it was read at.
Save(t, event, status, l, label) ==
    LET e == Home[t]
        d == [l.req EXCEPT !.status = status, !.ver = @ + 1]
    IN  /\ doc[e].ver = l.req.ver
        /\ ValidTransition(doc[e].status, event, status)
        /\ doc' = [doc EXCEPT ![e] = d]
        /\ Proceed(t, [l EXCEPT !.req = d], label)

\* The policy, an approval, an access right or an interlock forbids the
\* execution, or coordination failed after a local action.
Reject(r) ==
    /\ \/ /\ At(r, "claim") \/ At(r, "start")
          /\ thr[r].op = "run"
          /\ Home[r] \in RefusingEdges
       \/ /\ At(r, "outage") /\ thr[r].op = "run"
          /\ ~NoAction(Home[r])
    /\ Save(r, "reject",
            IF UnknownActions(act[Home[r]]) THEN "result_unknown" ELSE "rejected",
            thr[r], "exit")
    /\ UNCHANGED <<lease, journal, active, act, sent, net, crashes>>

Start(r) ==
    /\ At(r, "start")
    /\ thr[r].req.ver < MaxVersion
    /\ Save(r, "start", IF thr[r].mode = "degraded" THEN "degraded_running" ELSE "running",
            thr[r], "step")
    /\ UNCHANGED <<lease, journal, active, act, sent, net, crashes>>

(***************************************************************************)
(* Checkpoint: the journal by compare-and-set, then the active bucket      *)
(***************************************************************************)
WriteJournal(t) ==
    /\ At(t, "ckpt")
    /\ journal # None => CheckpointProgress(journal, thr[t].req)
    /\ journal' = thr[t].req
    /\ Local(t, [thr[t] EXCEPT !.pc = "index"])
    /\ UNCHANGED <<lease, active, doc, act, sent, net, crashes>>

\* Not guarded by a revision: a late write may follow a newer coordinator's.
WriteActive(t) ==
    /\ At(t, "index")
    /\ active' = (thr[t].req.status \notin Terminal)
    /\ Local(t, Goto(t, thr[t], thr[t].next))
    /\ UNCHANGED <<lease, journal, doc, act, sent, net, crashes>>

(***************************************************************************)
(* Steps: the loop of Run, and runStep for runners and handlers            *)
(***************************************************************************)
\* The head of the loop reads the document again and picks the first step
\* without a confirmed success; runStep then validates the fence.
PickStep(r) ==
    LET d == doc[Home[r]]
        plan == Plan(thr[r].mode)
        todo(i) == Todo(d, thr[r].mode, Home[r], i)
    IN  /\ At(r, "step")
        /\ \/ /\ d.status \notin Running
              /\ Local(r, Return(r, thr[r], None))
           \/ /\ d.status \in Running
              /\ \A i \in DOMAIN plan : ~todo(i)
              /\ Local(r, [thr[r] EXCEPT !.pc = "finish", !.req = d,
                                         !.step = None, !.res = "SUCCESS"])
           \/ /\ d.status \in Running
              /\ d.fence > 0 => Leased(d.coord, d.fence)
              /\ \E i \in DOMAIN plan :
                    /\ todo(i)
                    /\ \A j \in 1 .. (i - 1) : ~todo(j)
                    /\ Local(r, [thr[r] EXCEPT !.pc = "reserve", !.req = d,
                                               !.step = plan[i], !.res = None])
        /\ UNCHANGED <<lease, journal, active, doc, act, sent, net, crashes>>

\* Fault: an unresolved action is reserved and sent again.
ReservableUnlessConfirmed(e, s) == act[e][s] \notin Confirmed

\* The command identity is not in the action journal of this edge yet.
Reservable(e, s) == act[e][s] = None

\* ReserveControlAction and its event, in one transaction.  An action that is
\* already in the journal is never sent again: its result is taken over, and a
\* reservation without a result is an unknown result.
Reserve(t) ==
    LET e == Home[t]
        s == thr[t].step
        d == [thr[t].req EXCEPT !.cmd = s, !.ver = @ + 1]
    IN  /\ At(t, "reserve")
        /\ doc[e].ver = thr[t].req.ver
        /\ doc[e].status \in Running
        /\ IF Reservable(e, s)
           THEN /\ act' = [act EXCEPT ![e][s] = "reserved"]
                /\ doc' = [doc EXCEPT ![e] = d]
                /\ Proceed(t, [thr[t] EXCEPT !.req = d], "before")
           ELSE /\ Local(t, [thr[t] EXCEPT !.pc = "record",
                       !.res = IF act[e][s] = "reserved" THEN "RESULT_UNKNOWN" ELSE act[e][s]])
                /\ UNCHANGED <<act, doc>>
        /\ UNCHANGED <<lease, journal, active, sent, net, crashes>>

\* The execution may still act: unchanged, running and under a valid fence.
StillAllowed(t) ==
    LET d == doc[Home[t]]
        req == thr[t].req
    IN  /\ d.status \in Running
        /\ d.ver = req.ver
        /\ req.fence > 0 => Leased(req.coord, req.fence)

\* beforeStep refuses, or an error keeps the step from being sent.
Refuse(t) ==
    /\ At(t, "before")
    /\ Home[t] \in RefusingEdges \/ ~StillAllowed(t)
    /\ \E res \in {"FAILURE", "RESULT_UNKNOWN"} :
          Local(t, [thr[t] EXCEPT !.pc = "record", !.res = res])
    /\ UNCHANGED <<lease, journal, active, doc, act, sent, net, crashes>>

\* beforeStep passes and Dispatcher.Send takes over: a device of this edge is
\* commanded, the owner of another device is asked over NATS.
Dispatch(t) ==
    LET s == thr[t].step
        req == thr[t].req
    IN  /\ At(t, "before")
        /\ StillAllowed(t)
        /\ \/ /\ StepEdge[s] = Home[t]
              /\ Local(t, [thr[t] EXCEPT !.pc = "send"])
              /\ UNCHANGED net
           \/ /\ StepEdge[s] # Home[t]
              /\ req.fence > 0
              /\ net' = net \cup {[step |-> s, fence |-> req.fence,
                                   coord |-> req.coord, peer |-> t]}
              /\ Local(t, [thr[t] EXCEPT !.pc = "await"])
        /\ UNCHANGED <<lease, journal, active, doc, act, sent, crashes>>

\* The command goes out to the device; its answer arrives or is lost.
Command(t) ==
    LET s == thr[t].step
    IN  /\ At(t, "send")
        /\ sent' = [sent EXCEPT ![s] = @ + 1]
        /\ \E res \in Outcomes : Local(t, [thr[t] EXCEPT !.pc = "record", !.res = res])
        /\ UNCHANGED <<lease, journal, active, doc, act, net, crashes>>

\* The request for a remote step runs into its deadline.
Timeout(r) ==
    /\ At(r, "await")
    /\ Local(r, [thr[r] EXCEPT !.pc = "record", !.res = "RESULT_UNKNOWN"])
    /\ UNCHANGED <<lease, journal, active, doc, act, sent, net, crashes>>

\* FinishControlAction: a confirmed outcome is never overwritten.
Outcome(old, res) == IF old \in Unresolved THEN res ELSE old
Contradicts(old, res) == old \in Confirmed /\ old # res

\* The loop of Run ends without another look at the document.
LastStep(t) ==
    LET plan == Plan(thr[t].mode)
    IN  plan # <<>> /\ thr[t].step = plan[Len(plan)]

\* recordStep: the result enters the action journal and the document, which
\* may have changed since; a cancellation waiting for it is settled.
Record(t) ==
    LET e == Home[t]
        s == thr[t].step
        old == doc[e]
        actions == [act[e] EXCEPT ![s] = Outcome(@, thr[t].res)]
        status == IF old.status = "cancelled_result_unknown" /\ ~UnknownActions(actions)
                  THEN "cancelled" ELSE old.status
        d == [old EXCEPT !.ver = @ + 1, !.status = status, !.steps[s] = actions[s],
                         !.cmd = IF @ = s THEN None ELSE @]
    IN  /\ At(t, "record")
        /\ ~Contradicts(act[e][s], thr[t].res)
        /\ ValidTransition(old.status, "step", status)
        /\ act' = [act EXCEPT ![e] = actions]
        /\ doc' = [doc EXCEPT ![e] = d]
        /\ Proceed(t, [thr[t] EXCEPT !.req = d],
                   IF t \in Handlers \/ status \notin Running THEN "exit"
                   ELSE IF thr[t].res = "SUCCESS" /\ ~LastStep(t) THEN "step" ELSE "finish")
        /\ UNCHANGED <<lease, journal, active, sent, net, crashes>>

\* The end of Run: all steps succeeded, or the last one did not.
Finish(r) ==
    /\ At(r, "finish")
    /\ Save(r, "finish",
            CASE thr[r].res = "RESULT_UNKNOWN" -> "result_unknown"
              [] thr[r].res = "SUCCESS" -> IF thr[r].mode = "degraded"
                                           THEN "degraded_completed" ELSE "completed"
              [] OTHER -> "failed",
            thr[r], "exit")
    /\ UNCHANGED <<lease, journal, active, act, sent, net, crashes>>

\* Run returns: its lease, if it is still the current one, is given up.
Release(r) ==
    /\ r \in Runners
    /\ At(r, "exit")
    /\ \/ /\ thr[r].rev # 0
          /\ lease.owner = Home[r] /\ lease.fence = thr[r].rev
          /\ lease' = [lease EXCEPT !.live = FALSE]
       \/ UNCHANGED lease
    /\ Local(r, Idle)
    /\ UNCHANGED <<journal, active, doc, act, sent, net, crashes>>

(***************************************************************************)
(* Steps for another coordinator: ServeCommands and ExecuteRemoteStep      *)
(***************************************************************************)
\* The journal authorizes exactly this coordinator, fence and running status.
Authorized(m) ==
    /\ m.coord = Home[m.peer]
    /\ Leased(m.coord, m.fence)
    /\ journal # None
    /\ journal.status = "running"
    /\ journal.fence = m.fence /\ journal.coord = m.coord

\* The local state of a handler that took request m.
Taken(m, label, req, res) ==
    [pc |-> label, op |-> None, req |-> req, step |-> m.step, res |-> res,
     mode |-> "normal", rev |-> m.fence, next |-> "exit", peer |-> m.peer]

Receive(h) ==
    /\ h \in Handlers
    /\ At(h, "idle")
    /\ \E m \in net :
          /\ StepEdge[m.step] = Home[h]
          /\ net' = net \ {m}
          /\ \/ /\ Authorized(m)
                /\ Local(h, Taken(m, "import", journal, None))
             \/ \* expired, not authorized, or refused by local conditions
                \E res \in {"FAILURE", "RESULT_UNKNOWN"} :
                   Local(h, Taken(m, "exit", None, res))
    /\ UNCHANGED <<lease, journal, active, doc, act, sent, crashes>>

\* importRemoteExecution writes the journal's document into this edge's
\* database; runStep then validates the fence again.
Import(h) ==
    LET e == Home[h]
        old == doc[e]
        d == [thr[h].req EXCEPT !.ver = IF old = None THEN 1 ELSE old.ver + 1]
    IN  /\ At(h, "import")
        /\ old # None =>
              /\ old.fence <= d.fence
              /\ old.fence = d.fence => old.status \in Running
              /\ ReceiptTransition(old, d)
        /\ doc' = [doc EXCEPT ![e] = d]
        /\ \/ /\ Leased(d.coord, d.fence)
              /\ Local(h, [thr[h] EXCEPT !.pc = "reserve", !.req = d])
           \/ Local(h, Failed(h, [thr[h] EXCEPT !.req = d]))
        /\ UNCHANGED <<lease, journal, active, act, sent, net, crashes>>

\* The answer reaches the coordinator only while it still waits for it.
Respond(h) ==
    LET r == thr[h].peer
    IN  /\ h \in Handlers
        /\ At(h, "exit")
        /\ thr' = [t \in Threads |->
              IF t = h THEN Idle
              ELSE IF t = r /\ At(r, "await") /\ thr[r].step = thr[h].step
                            /\ thr[r].req.fence = thr[h].rev
                   THEN [thr[r] EXCEPT !.pc = "record", !.res = thr[h].res]
                   ELSE thr[t]]
        /\ UNCHANGED <<lease, journal, active, doc, act, sent, net, crashes>>

(***************************************************************************)
(* Cancellation by an operator                                             *)
(***************************************************************************)
\* manualAuthority: the coordinator of a running execution already has the
\* authority, any other edge acquires the lease first.
BeginCancel(r) ==
    LET d == doc[Home[r]]
        l == [Idle EXCEPT !.op = "cancel", !.req = d]
    IN  /\ At(r, "idle")
        /\ Home[r] \in CancelEdges
        /\ d # None
        /\ d.status \in Running \cup {"queued", "result_unknown"}
        /\ IF d.status \in Running /\ d.coord = Home[r] /\ Leased(d.coord, d.fence)
           THEN Local(r, [l EXCEPT !.pc = "cancel"])
           ELSE Local(r, [l EXCEPT !.pc = "claim"])
        /\ UNCHANGED <<lease, journal, active, doc, act, sent, net, crashes>>

Cancel(r) ==
    LET req == thr[r].req
        unsure == \/ UnknownActions(act[Home[r]])
                  \/ req.status = "result_unknown"
                  \/ req.cmd # None
    IN  /\ At(r, "cancel")
        /\ Save(r, "cancel", IF unsure THEN "cancelled_result_unknown" ELSE "cancelled",
                [thr[r] EXCEPT !.req.cancelled = TRUE], "exit")
        /\ UNCHANGED <<lease, journal, active, act, sent, net, crashes>>

(***************************************************************************)
(* Failures                                                                *)
(***************************************************************************)
\* A transaction conflicts, a check fails or the store does not answer.
Abort(t) ==
    /\ thr[t].pc \in {"start", "ckpt", "index", "step", "import", "reserve",
                      "record", "finish", "cancel"}
    /\ Local(t, Failed(t, thr[t]))
    /\ UNCHANGED <<lease, journal, active, doc, act, sent, net, crashes>>

\* The lease runs out: its owner crashed, or its renewals did not get through
\* (the renewal loop then stops and Run is not told).
ExpireLease ==
    /\ lease.live
    /\ lease' = [lease EXCEPT !.live = FALSE]
    /\ UNCHANGED <<journal, active, doc, act, sent, thr, net, crashes>>

\* The process of an edge stops; only its database survives.
Crash(e) ==
    /\ crashes < MaxCrashes
    /\ \E t \in Threads : Home[t] = e /\ ~At(t, "idle")
    /\ crashes' = crashes + 1
    /\ thr' = [t \in Threads |-> IF Home[t] = e THEN Idle ELSE thr[t]]
    /\ UNCHANGED <<lease, journal, active, doc, act, sent, net>>

Init ==
    /\ lease = [rev |-> 0, owner |-> None, fence |-> 0, live |-> FALSE]
    /\ journal = None
    /\ active = FALSE
    /\ doc = [e \in Edges |-> None]
    /\ act = [e \in Edges |-> [s \in Steps |-> None]]
    /\ sent = [s \in Steps |-> 0]
    /\ thr = [t \in Threads |-> Idle]
    /\ net = {}
    /\ crashes = 0

RunnerStep(r) ==
    \/ Begin(r) \/ Claim(r) \/ LeaseHeld(r) \/ Commit(r) \/ CoordinationFails(r)
    \/ Degrade(r) \/ Reject(r) \/ Start(r) \/ PickStep(r) \/ Timeout(r)
    \/ Finish(r) \/ Release(r) \/ BeginCancel(r) \/ Cancel(r)

HandlerStep(h) == Receive(h) \/ Import(h) \/ Respond(h)

ThreadStep(t) ==
    \/ WriteJournal(t) \/ WriteActive(t) \/ Reserve(t) \/ Refuse(t)
    \/ Dispatch(t) \/ Command(t) \/ Record(t) \/ Abort(t)

Next ==
    \/ \E r \in Runners : RunnerStep(r)
    \/ \E h \in Handlers : HandlerStep(h)
    \/ \E t \in Threads : ThreadStep(t)
    \/ ExpireLease
    \/ \E e \in Edges : Crash(e)

Spec == Init /\ [][Next]_vars

-----------------------------------------------------------------------------
Thread ==
    [pc : PCs, op : {None, "run", "cancel"}, req : Execution \cup {None},
     step : Steps \cup {None}, res : Outcomes \cup {None},
     mode : {"normal", "degraded"}, rev : Nat, next : PCs,
     peer : Threads \cup {None}]

\* The type invariant of the coordinated execution.
TypeOK ==
    /\ lease \in [rev : Nat, owner : Edges \cup {None}, fence : Nat, live : BOOLEAN]
    /\ journal \in Execution \cup {None}
    /\ active \in BOOLEAN
    /\ doc \in [Edges -> Execution \cup {None}]
    /\ act \in [Edges -> [Steps -> Outcomes \cup {"reserved", None}]]
    /\ sent \in [Steps -> Nat]
    /\ thr \in [Threads -> Thread]
    /\ net \subseteq [step : Steps, fence : Nat, coord : Edges \cup {None}, peer : Threads]
    /\ crashes \in Nat

\* No device step is ever carried out twice, whatever crashes, takeovers,
\* repeated deliveries and late requests do (action_journal; the 100 fault
\* injections of the implementation report count exactly this).
AtMostOnce == \A s \in Steps : sent[s] <= 1

\* The execution implements the ledger of steps kept by the device owners:
\* reservation, one command, one settlement, in the order of the normal plan.
Ledger == INSTANCE StepLedger WITH
    outcome <- [s \in Steps |-> act[StepEdge[s]][s]]
LedgerSpec == Ledger!Spec

\* An execution reported as completed, anywhere, has carried out every step.
CompletedMeansDone ==
    \A d \in {journal} \cup {doc[e] : e \in Edges} :
        d # None /\ d.status = "completed" =>
            \A i \in DOMAIN NormalPlan : sent[NormalPlan[i]] = 1

\* One edge never mixes the steps of the normal and of the degraded plan.
BranchesApart ==
    \A e \in Edges :
        ~ \E i \in DOMAIN NormalPlan, j \in DOMAIN DegradedPlan :
              act[e][NormalPlan[i]] # None /\ act[e][DegradedPlan[j]] # None

\* The journal never falls back to an older fence, never forgets a confirmed
\* result and never leaves a final status (Checkpoint, CheckpointProgress).
JournalProgress ==
    [][journal # None =>
         /\ journal'.fence >= journal.fence
         /\ \A s \in Steps : journal.steps[s] \in Confirmed =>
                                journal'.steps[s] = journal.steps[s]
         /\ journal.status \in Terminal => journal'.status \in Terminal]_journal

\* An edge that cancelled the execution did so under the newest fence; no
\* command is sent under an even newer one, so nobody resumes the execution.
CancelStops ==
    [][\A t \in Threads, e \in Edges :
         /\ At(t, "send") /\ sent' # sent /\ thr'[t] # thr[t]
         /\ doc[e] # None /\ doc[e].cancelled
         => thr[t].req.fence <= doc[e].fence]_vars

\* "cancelled", rather than "cancelled_result_unknown", tells the operator that
\* no command of the execution is left without a result.
CancelledIsSettled ==
    \A d \in {doc[e] : e \in Edges} :
        d # None /\ d.status = "cancelled" =>
            \A e \in Edges : ~UnknownActions(act[e])

\* A step of the normal plan is only commanded under a fence of the lease.
NormalStepsFenced ==
    [][\A i \in DOMAIN NormalPlan :
         sent'[NormalPlan[i]] > sent[NormalPlan[i]] =>
            \E t \in Threads : /\ At(t, "send")
                               /\ thr[t].step = NormalPlan[i]
                               /\ thr[t].req.fence > 0]_vars
=============================================================================
