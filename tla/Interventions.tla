---------------------------- MODULE Interventions ----------------------------
(***************************************************************************)
(* Operators step in: the edge that coordinates an execution runs it       *)
(* (control/run.go) while its operators cancel it, reconcile commands      *)
(* whose outcome is unknown from the durable journals of the gateways, and *)
(* resume the steps that are left (control/intervention.go).  Steps of     *)
(* another site go through its handler; then an intervention needs a newer *)
(* fence than the execution has, and every commit is checkpointed in the   *)
(* journal of the sites (coordination/coordinator.go).                     *)
(*                                                                         *)
(* An intervention reads the execution, takes its time over access checks  *)
(* and lookups, and commits if the version is still the one it read.  A    *)
(* checkpoint follows its commit at once or fails: a compare-and-set that  *)
(* comes too late fails as well.  What makes evidence untrusted (another   *)
(* content, no provenance, too old) is a lookup without a result.          *)
(***************************************************************************)
EXTENDS Naturals, FiniteSets

CONSTANTS
    Steps,           \* the plan has the steps 1 .. Steps
    RemoteSteps,          \* the steps on devices of another site
    MaxInterventions,\* bound: interventions
    MaxFaults        \* bound: crashes, lost calls, leases and checkpoints

VARIABLES
    doc,       \* the execution
    actions,   \* the action journal, by step
    device,    \* the gateway's command journal, by step
    theirs,    \* the handler of the other site, by step
    run,       \* the call of Run
    queued,    \* the downlink is not acknowledged
    calls,     \* interventions under way
    lease,     \* of the execution
    journal,   \* the last checkpoint
    sends,     \* how often a step's command reached its gateway
    begun, faults

vars == <<doc, actions, device, theirs, run, queued, calls, lease, journal,
          sends, begun, faults>>

Plan == 1 .. Steps
Coordinated == RemoteSteps # {}

Confirmed == {"SUCCESS", "FAILURE"}      \* FAILURE stands for REJECTED, too
Unresolved == {"reserved", "RESULT_UNKNOWN"}
Ended == {"completed", "failed", "rejected", "cancelled"}
Terminal == Ended \cup {"result_unknown", "ready_to_resume", "cancelled_result_unknown"}
Cancelled == {"cancelled", "cancelled_result_unknown"}

Idle == [at |-> "idle", step |-> 0, version |-> 0, fence |-> 0, outcome |-> "none"]
NoJournal == [version |-> 0]

InterventionConstants ==
    /\ Steps \in Nat \ {0} /\ RemoteSteps \subseteq Plan
    /\ MaxInterventions \in Nat /\ MaxFaults \in Nat

Fresh == [status |-> "queued", version |-> 1, fence |-> 0, cancelled |-> FALSE,
          resumed |-> FALSE, reconciled |-> FALSE, command |-> 0,
          results |-> [s \in Plan |-> "none"]]
Untouched == [s \in Plan |-> "none"]

(* Either nothing was done yet, or this edge has taken the execution over   *)
(* from the other site: its first step is confirmed, the second one may be  *)
(* reserved there, and its command may have reached the gateway.            *)
TakenOver(command, reached) ==
    /\ Coordinated /\ 1 \in RemoteSteps /\ (reached => command \in RemoteSteps)
    /\ journal = [Fresh EXCEPT !.status = "running", !.fence = 1, !.command = command,
                               !.results[1] = "SUCCESS"]
    /\ doc = [journal EXCEPT !.version = 2]
    /\ device = [s \in Plan |-> CASE s = 1 -> "SUCCESS" [] s = command /\ reached -> "running"
                                   [] OTHER -> "none"]
    /\ sends = [s \in Plan |-> IF device[s] = "none" THEN 0 ELSE 1]
    /\ theirs = [s \in RemoteSteps |-> IF s \in {1, command} THEN "own" ELSE "none"]
    /\ lease = [fence |-> 1, live |-> FALSE]

Init ==
    /\ \/ /\ doc = Fresh /\ journal = NoJournal
          /\ device = Untouched /\ sends = [s \in Plan |-> 0]
          /\ theirs = [s \in RemoteSteps |-> "none"]
          /\ lease = [fence |-> 0, live |-> FALSE]
       \/ \E command \in {0} \cup (RemoteSteps \ {1}), reached \in BOOLEAN :
             TakenOver(command, reached)
    /\ actions = Untouched
    /\ run = Idle /\ queued = TRUE /\ calls = {}
    /\ begun = 0 /\ faults = 0

Fault == faults < MaxFaults /\ faults' = faults + 1

------------------------------------------------------------------------------
(* Leases and checkpoints.                                                  *)

Valid(fence) == Coordinated => lease.live /\ lease.fence = fence

Acquired(fence) ==
    IF Coordinated THEN ~lease.live /\ fence = lease.fence + 1
                        /\ lease' = [fence |-> fence, live |-> TRUE]
    ELSE fence = 0 /\ UNCHANGED lease

Released(fence) ==
    lease' = IF lease.fence = fence THEN [lease EXCEPT !.live = FALSE] ELSE lease

(* A lease runs out when its holder is gone, or cannot renew it.            *)
Holders == {c.fence : c \in calls} \cup (IF run.at = "idle" THEN {} ELSE {run.fence})
LeaseExpires ==
    /\ lease.live
    /\ IF lease.fence \in Holders THEN Fault ELSE UNCHANGED faults
    /\ lease' = [lease EXCEPT !.live = FALSE]
    /\ UNCHANGED <<doc, actions, device, theirs, run, queued, calls, journal, sends, begun>>

(* receiptTransition                                                        *)
StatusFollows(p, n) ==
    \/ p.status = n.status
    \/ p.status = "cancelled_result_unknown" /\ n.status = "cancelled"
    \/ p.status = "result_unknown" /\
       \/ n.status \in {"ready_to_resume", "completed", "failed"} \cup Cancelled
       \/ n.resumed /\ n.reconciled /\ n.fence > p.fence /\ n.status \in {"queued", "running"}
    \/ p.status = "ready_to_resume" /\ (n.resumed \/ n.status = "cancelled")
    \/ p.status = "running" /\ n.status \in Terminal
    \/ p.status = "queued" /\ n.status \in Terminal \cup {"running"}

ReceiptTransition(p, n) ==
    /\ p.cancelled => n.cancelled
    /\ \A s \in Plan : p.results[s] \in Confirmed => n.results[s] = p.results[s]
    /\ StatusFollows(p, n)

CheckpointProgress(p, n) ==
    /\ p.fence <= n.fence
    /\ ReceiptTransition(p, n)
    /\ p.fence = n.fence =>
          /\ p.version < n.version \/ p = n
          /\ p.status \in Terminal =>
                p.status = "cancelled_result_unknown" /\ n.status \in Cancelled

Progresses(n) == IF journal = NoJournal THEN TRUE ELSE CheckpointProgress(journal, n)

(* Service.checkpoint of a commit, validated under the fence first; ok says *)
(* whether the caller goes on.                                              *)
Written(n, valid, ok) ==
    IF ~Coordinated THEN ok /\ UNCHANGED <<journal, faults>>
    ELSE IF ok THEN valid /\ Progresses(n) /\ journal' = n /\ UNCHANGED faults
    ELSE UNCHANGED journal /\ (IF valid /\ Progresses(n) THEN Fault ELSE UNCHANGED faults)
Checkpoint(n, ok) == Written(n, Valid(n.fence), ok)

Committed(d) == doc' = [d EXCEPT !.version = doc.version + 1]

------------------------------------------------------------------------------
(* Run and runStep.                                                         *)

Unknown(a) == \E s \in Plan : a[s] \in Unresolved

(* Run returns; the downlink stays when it returns an error.                *)
Leave(done) == run' = Idle /\ queued' = (queued /\ ~done)

Start ==
    /\ run.at = "idle" /\ queued
    /\ doc.status \in {"queued", "running"}
    /\ \E fence \in 0 .. lease.fence + 1, ok \in BOOLEAN :
          /\ Acquired(fence)
          /\ Committed([doc EXCEPT !.status = "running", !.fence = fence])
          /\ Written(doc', TRUE, ok)
          /\ IF ok THEN run' = [Idle EXCEPT !.at = "next", !.fence = fence] ELSE run' = Idle
    /\ UNCHANGED <<actions, device, theirs, queued, calls, sends, begun>>

(* reject, of a missing approval, right or published version before the     *)
(* lease is asked for, or of a condition once it is held.  It looks at its  *)
(* own action journal only, and leaves a checkpoint where the fence of the  *)
(* execution is one of this edge.                                           *)
Ours == Coordinated /\ doc.fence > 0 /\ \A s \in RemoteSteps : theirs[s] = "own" => doc.fence > 1

Rejected == [doc EXCEPT !.status = IF Unknown(actions) THEN "result_unknown" ELSE "rejected"]

Reject ==
    /\ run.at = "idle" /\ queued /\ doc.status \in {"queued", "running"}
    /\ \/ /\ Committed(Rejected) /\ UNCHANGED lease
          /\ IF Ours THEN \E ok \in BOOLEAN : Checkpoint(doc', ok) /\ Leave(ok)
             ELSE Leave(TRUE) /\ UNCHANGED <<journal, faults>>
       \/ /\ Coordinated /\ ~lease.live
          /\ lease' = [lease EXCEPT !.fence = @ + 1]
          /\ Committed([Rejected EXCEPT !.fence = lease'.fence])
          /\ \E ok \in BOOLEAN : Written(doc', TRUE, ok) /\ Leave(ok)
    /\ UNCHANGED <<actions, device, theirs, calls, sends, begun>>

(* An execution that has ended, or waits for an operator, is not run.       *)
NotRun ==
    /\ run.at = "idle" /\ queued /\ doc.status \in Terminal
    /\ Leave(TRUE)
    /\ UNCHANGED <<doc, actions, device, theirs, calls, lease, journal, sends, begun, faults>>

Open(s) == doc.results[s] # "SUCCESS" /\ \A q \in 1 .. s - 1 : doc.results[q] = "SUCCESS"

Reservable(s) == actions[s] = "none"

(* The next step is reserved, unless the action journal knows it.           *)
Reserve(s) ==
    /\ run.at = "next" /\ doc.status = "running" /\ Open(s) /\ Valid(doc.fence)
    /\ IF Reservable(s)
       THEN /\ actions' = [actions EXCEPT ![s] = "reserved"]
            /\ Committed([doc EXCEPT !.command = s])
            /\ \E ok \in BOOLEAN :
                  /\ Checkpoint(doc', ok)
                  /\ IF ok THEN /\ run' = [run EXCEPT !.at = "before", !.step = s,
                                                      !.version = doc'.version]
                                /\ UNCHANGED lease
                     ELSE run' = Idle /\ Released(run.fence)
       ELSE /\ run' = [run EXCEPT !.at = "record", !.step = s, !.outcome =
                          IF actions[s] = "reserved" THEN "RESULT_UNKNOWN" ELSE actions[s]]
            /\ UNCHANGED <<doc, actions, lease, journal, faults>>
    /\ UNCHANGED <<device, theirs, queued, calls, sends, begun>>

(* The fence is lost before the next step: Run returns the error.           *)
Fenced ==
    /\ run.at = "next" /\ doc.status = "running" /\ ~Valid(doc.fence)
    /\ \E s \in Plan : Open(s)
    /\ Leave(FALSE) /\ Released(run.fence)
    /\ UNCHANGED <<doc, actions, device, theirs, calls, journal, sends, begun, faults>>

(* beforeStep refuses when the execution has changed or its fence is lost,  *)
(* and for a right, a condition or a published version that is gone.        *)
Before ==
    /\ run.at = "before"
    /\ \/ /\ doc.status = "running" /\ doc.version = run.version /\ Valid(run.fence)
          /\ run' = [run EXCEPT !.at = "send"] /\ UNCHANGED faults
       \/ /\ run' = [run EXCEPT !.at = "record", !.outcome = "FAILURE"]
          /\ IF doc.status = "running" /\ doc.version = run.version /\ Valid(run.fence)
             THEN Fault ELSE UNCHANGED faults
    /\ UNCHANGED <<doc, actions, device, theirs, queued, calls, lease, journal, sends, begun>>

Reach(s) == /\ device' = [device EXCEPT ![s] = IF @ = "none" THEN "running" ELSE @]
            /\ sends' = [sends EXCEPT ![s] = @ + 1]

Send ==
    /\ run.at = "send"
    /\ run' = [run EXCEPT !.at = "await"]
    /\ \/ /\ run.step \notin RemoteSteps /\ Reach(run.step)
          /\ UNCHANGED <<theirs, faults>>
       \/ /\ run.step \in RemoteSteps
          /\ theirs' = [theirs EXCEPT ![run.step] = IF @ = "none" THEN "asked" ELSE @]
          /\ UNCHANGED <<device, sends, faults>>
       \/ Fault /\ UNCHANGED <<device, theirs, sends>>
    /\ UNCHANGED <<doc, actions, queued, calls, lease, journal, begun>>

(* ExecuteRemoteStep: the other site takes the step, checks the fence again *)
(* before its gateway is told, and has the step in its own action journal.  *)
Take(s) ==
    /\ theirs[s] = "asked"
    /\ theirs' = [theirs EXCEPT ![s] =
          IF Valid(journal.fence) /\ journal.status = "running" THEN "reserved" ELSE "none"]
    /\ UNCHANGED <<doc, actions, device, run, queued, calls, lease, journal, sends, begun,
                   faults>>
Allow(s) ==
    /\ theirs[s] = "reserved"
    /\ theirs' = [theirs EXCEPT ![s] = IF Valid(journal.fence) THEN "allowed" ELSE "FAILURE"]
    /\ UNCHANGED <<doc, actions, device, run, queued, calls, lease, journal, sends, begun,
                   faults>>
Forward(s) ==
    /\ theirs[s] = "allowed" /\ Reach(s)
    /\ theirs' = [theirs EXCEPT ![s] = "sent"]
    /\ UNCHANGED <<doc, actions, run, queued, calls, lease, journal, begun, faults>>

Execute(s) ==
    /\ device[s] = "running"
    /\ \E o \in Confirmed : device' = [device EXCEPT ![s] = o]
    /\ UNCHANGED <<doc, actions, theirs, run, queued, calls, lease, journal, sends, begun,
                   faults>>

Answer ==
    /\ run.at = "await"
    /\ LET answers == IF run.step \in RemoteSteps /\ theirs[run.step] = "FAILURE" THEN {"FAILURE"}
                      ELSE {device[run.step]} \cap Confirmed
       IN  \/ \E o \in answers : run' = [run EXCEPT !.at = "record", !.outcome = o]
              /\ UNCHANGED faults
           \/ Fault /\ run' = [run EXCEPT !.at = "record", !.outcome = "RESULT_UNKNOWN"]
           \/ /\ answers = {} /\ device[run.step] = "none" /\ UNCHANGED faults
              /\ run.step \in RemoteSteps => theirs[run.step] \in {"none", "own"}
              /\ run' = [run EXCEPT !.at = "record", !.outcome = "RESULT_UNKNOWN"]
    /\ UNCHANGED <<doc, actions, device, theirs, queued, calls, lease, journal, sends, begun>>

(* FinishControlAction: a confirmed outcome is not replaced.                *)
Compatible(s, o) == actions[s] \in Unresolved \/ actions[s] = o

(* recordStep                                                               *)
Record ==
    /\ run.at = "record"
    /\ LET s == run.step
           updated == [actions EXCEPT ![s] = run.outcome]
           d == [doc EXCEPT !.results[s] = run.outcome,
                            !.command = IF @ = s THEN 0 ELSE @,
                            !.status = IF @ = "cancelled_result_unknown" /\ ~Unknown(updated)
                                       THEN "cancelled" ELSE @]
       IN  IF /\ Compatible(s, run.outcome)
              /\ doc.status \in {"running"} \cup Cancelled
           THEN /\ actions' = updated /\ Committed(d)
                /\ \E ok \in BOOLEAN :
                      /\ Checkpoint(doc', ok)
                      /\ IF ok THEN /\ run' = [run EXCEPT !.at =
                                          IF run.outcome = "SUCCESS" THEN "next" ELSE "finish",
                                          !.version = doc'.version]
                                    /\ UNCHANGED <<lease, queued>>
                         ELSE Leave(FALSE) /\ Released(run.fence)
           ELSE Leave(FALSE) /\ Released(run.fence)
                /\ UNCHANGED <<doc, actions, journal, faults>>
    /\ UNCHANGED <<device, theirs, calls, sends, begun>>

(* The end of Run: the last step is done, or one has failed or is unknown.  *)
Finish ==
    /\ \/ run.at = "next" /\ \A s \in Plan : ~Open(s)
       \/ run.at = "finish"
    /\ doc.status = "running"
    /\ run.at = "finish" => doc.version = run.version
    /\ Committed([doc EXCEPT !.status =
            IF run.at = "next" THEN "completed"
            ELSE IF run.outcome = "RESULT_UNKNOWN" THEN "result_unknown" ELSE "failed"])
    /\ \E ok \in BOOLEAN : Checkpoint(doc', ok) /\ Leave(ok)
    /\ Released(run.fence)
    /\ UNCHANGED <<actions, device, theirs, calls, sends, begun>>

(* The execution was cancelled, or changed under the last save.             *)
Stopped ==
    /\ \/ run.at = "next" /\ doc.status # "running"
       \/ run.at = "finish" /\ (doc.status # "running" \/ doc.version # run.version)
    /\ Leave(doc.status \in Terminal) /\ Released(run.fence)
    /\ UNCHANGED <<doc, actions, device, theirs, calls, journal, sends, begun, faults>>

(* The process ends; the outbox keeps the downlink.                         *)
Crash ==
    /\ run # Idle \/ calls # {}
    /\ Fault
    /\ run' = Idle /\ calls' = {}
    /\ UNCHANGED <<doc, actions, device, theirs, queued, lease, journal, sends, begun>>

------------------------------------------------------------------------------
(* Interventions.                                                           *)

Cancellable == {"queued", "running", "result_unknown", "ready_to_resume"}

Accepts(kind) ==
    CASE kind = "cancel" -> doc.status \in Cancellable
      [] kind = "reconcile" -> doc.status \in {"result_unknown", "cancelled_result_unknown"}
      [] kind = "resume" -> doc.status = "ready_to_resume" /\ ~doc.cancelled /\ doc.reconciled

(* manualAuthority: a running execution of this edge lends its fence.       *)
Authority(fence) ==
    \/ /\ Coordinated /\ doc.status = "running" /\ Valid(doc.fence)
       /\ fence = doc.fence /\ UNCHANGED lease
    \/ /\ ~(Coordinated /\ doc.status = "running" /\ Valid(doc.fence))
       /\ Acquired(fence)

(* actionsForExecution                                                      *)
Known(s) ==
    IF actions[s] # "none" THEN actions[s]
    ELSE IF doc.results[s] # "none" THEN doc.results[s]
    ELSE IF doc.command = s THEN "RESULT_UNKNOWN"
    ELSE "none"

Begin(kind) ==
    /\ begun < MaxInterventions /\ begun' = begun + 1
    /\ Accepts(kind)
    /\ \E fence \in 0 .. lease.fence + 1 :
          /\ Authority(fence)
          /\ calls' = calls \cup
                {[kind |-> kind, version |-> doc.version, fence |-> fence,
                  actions |-> [s \in Plan |-> Known(s)],
                  left |-> IF kind # "reconcile" THEN {} ELSE
                           {s \in Plan : \/ Known(s) \in Unresolved
                                         \/ Known(s) # "none" /\ doc.results[s] # Known(s)},
                  found |-> [s \in Plan |-> "none"]]}
    /\ UNCHANGED <<doc, actions, device, theirs, run, queued, journal, sends, faults>>

(* LookupCommand and the checks of the evidence: only the final outcome of  *)
(* this very command is trusted.  Another site answers a valid fence.       *)
Evidence(c, s) ==
    IF s \in RemoteSteps /\ ~Valid(c.fence) THEN {} ELSE {device[s]} \cap Confirmed

LookUp(c, s) ==
    /\ c \in calls /\ s \in c.left
    /\ \A q \in c.left : s <= q
    /\ \E o \in Evidence(c, s) \cup {"none"} :
          calls' = (calls \ {c}) \cup
                   {[c EXCEPT !.left = @ \ {s}, !.found[s] = o]}
    /\ UNCHANGED <<doc, actions, device, theirs, run, queued, lease, journal, sends,
                   begun, faults>>

SameVersion(c) == doc.version = c.version

(* The end of a call that commits d, or conflicts.                          *)
Close(c, d) ==
    /\ calls' = calls \ {c}
    /\ IF Coordinated /\ \A o \in calls \ {c} : o.fence # c.fence
          /\ (run.at = "idle" \/ run.fence # c.fence)
       THEN Released(c.fence) ELSE UNCHANGED lease
    /\ Committed([d EXCEPT !.fence = IF Coordinated THEN c.fence ELSE 0])
    /\ \E ok \in BOOLEAN : Checkpoint(doc', ok)

CancelStatus ==
    IF Unknown(actions) \/ doc.status = "result_unknown" \/ doc.command # 0
    THEN "cancelled_result_unknown" ELSE "cancelled"

Cancel(c) ==
    /\ c \in calls /\ c.kind = "cancel" /\ SameVersion(c)
    /\ Accepts("cancel")
    /\ Close(c, [doc EXCEPT !.status = CancelStatus, !.cancelled = TRUE])
    /\ UNCHANGED <<actions, device, theirs, run, queued, sends, begun>>

(* What is not in the action journal yet is reserved there; what evidence   *)
(* settles is finished.                                                     *)
Settled(c) ==
    [s \in Plan |-> IF c.found[s] # "none" THEN c.found[s]
                    ELSE IF actions[s] = "none" /\ c.actions[s] # "none" THEN "reserved"
                    ELSE actions[s]]

AllSettled(c) == (\E s \in Plan : c.found[s] # "none") /\ ~Unknown(Settled(c))

ReconciledStatus(c, results) ==
    IF ~AllSettled(c) THEN doc.status
    ELSE IF doc.cancelled \/ doc.status = "cancelled_result_unknown" THEN "cancelled"
    ELSE IF \E s \in Plan : Settled(c)[s] \notin {"none", "SUCCESS"} THEN "failed"
    ELSE IF \A s \in Plan : results[s] = "SUCCESS" THEN "completed"
    ELSE "ready_to_resume"

Reconcile(c) ==
    LET results == [s \in Plan |-> IF c.found[s] # "none" THEN c.found[s] ELSE doc.results[s]]
        status == ReconciledStatus(c, results)
    IN  /\ c \in calls /\ c.kind = "reconcile" /\ c.left = {} /\ SameVersion(c)
        /\ \A s \in Plan : c.found[s] # "none" /\ actions[s] # "none" => Compatible(s, c.found[s])
        /\ actions' = Settled(c)
        /\ Close(c, [doc EXCEPT !.status = status, !.results = results,
                        !.command = IF AllSettled(c) THEN 0 ELSE @,
                        !.reconciled = @ \/ (AllSettled(c) /\ status # "cancelled")])
        /\ UNCHANGED <<device, theirs, run, queued, sends, begun>>

Resume(c) ==
    /\ c \in calls /\ c.kind = "resume" /\ SameVersion(c)
    /\ ~Unknown(actions)
    /\ queued' = TRUE
    /\ Close(c, [doc EXCEPT !.status = "queued", !.resumed = TRUE])
    /\ UNCHANGED <<actions, device, theirs, run, sends, begun>>

(* The call ends without a commit: a conflict, a missing right, a condition *)
(* that does not hold, an unresolved action.                                *)
GiveUp(c) ==
    /\ c \in calls
    /\ calls' = calls \ {c}
    /\ IF Coordinated /\ (run.at = "idle" \/ run.fence # c.fence)
       THEN Released(c.fence) ELSE UNCHANGED lease
    /\ IF c.left = {} /\ SameVersion(c) THEN Fault ELSE UNCHANGED faults
    /\ UNCHANGED <<doc, actions, device, theirs, run, queued, journal, sends, begun>>

Next ==
    \/ Start \/ Reject \/ NotRun \/ Fenced \/ Before \/ Send \/ Answer \/ Record
    \/ Finish \/ Stopped \/ Crash \/ LeaseExpires
    \/ \E s \in Plan : Reserve(s) \/ Execute(s)
    \/ \E s \in RemoteSteps : Take(s) \/ Allow(s) \/ Forward(s)
    \/ \E kind \in {"cancel", "reconcile", "resume"} : Begin(kind)
    \/ \E c \in calls :
          \/ Cancel(c) \/ Reconcile(c) \/ Resume(c) \/ GiveUp(c)
          \/ \E s \in Plan : LookUp(c, s)

Spec == Init /\ [][Next]_vars

------------------------------------------------------------------------------
(* Properties.                                                              *)

Times == 0 .. MaxInterventions + 2 * MaxFaults + 4 * Steps + 4
Fences == 0 .. MaxInterventions + MaxFaults + 3
TypeOK ==
    /\ doc.version \in Times /\ doc.fence \in Fences /\ doc.command \in 0 .. Steps
    /\ doc.status \in Terminal \cup {"queued", "running"}
    /\ actions \in [Plan -> Confirmed \cup Unresolved \cup {"none"}]
    /\ device \in [Plan -> Confirmed \cup {"none", "running"}]
    /\ theirs \in [RemoteSteps ->
                     {"none", "own", "asked", "reserved", "allowed", "sent", "FAILURE"}]
    /\ run.at \in {"idle", "next", "before", "send", "await", "record", "finish"}
    /\ \A c \in calls : c.kind \in {"cancel", "reconcile", "resume"} /\ c.left \subseteq Plan
    /\ lease.fence \in Fences /\ lease.live \in BOOLEAN /\ queued \in BOOLEAN
    /\ sends \in [Plan -> Nat] /\ begun \in 0 .. MaxInterventions /\ faults \in 0 .. MaxFaults

(* A command that the other site had under way as coordinator.              *)
TakenOverStep(s) == s \in RemoteSteps /\ theirs[s] = "own"

(* The exemption of the next two properties, where the code records what is *)
(* not true.  Of such a command this edge has no entry in its own action    *)
(* journal until it reserves it again.  reject does not see it (it ignores  *)
(* ActiveCommandID, which Cancel looks at) and records a final "rejected";  *)
(* and after the reservation a refusal of beforeStep is recorded as the     *)
(* outcome of the command, although the gateway may have carried it out.    *)
Overlooked(s) ==
    /\ TakenOverStep(s)
    /\ \/ doc.status = "rejected" /\ doc.command = s
       \/ "FAILURE" \in {doc.results[s], actions[s]}

(* A confirmed outcome, wherever it came from (the answer, a late answer, a *)
(* lookup in the gateway's journal), is what the device did; and what       *)
(* failed is not done later.  It says nothing of the failure of an          *)
(* overlooked command: see above.                                           *)
OutcomesTrue ==
    \A s \in Plan :
        /\ doc.results[s] = "SUCCESS" => device[s] = "SUCCESS"
        /\ "FAILURE" \in {doc.results[s], actions[s]} /\ ~Overlooked(s) =>
              /\ device[s] \in {"none", "FAILURE"}
              /\ ~(run.at = "send" /\ run.step = s)
              /\ s \in RemoteSteps => theirs[s] # "allowed"

(* An execution that is over, or waits to be resumed, has nothing under     *)
(* way: no command at a device or on its way to one.  An overlooked command *)
(* may be running although its execution was rejected, has failed or is     *)
(* cancelled; and what is sent once more for a step that was taken over and *)
(* is settled meanwhile, the other site answers from its action journal.    *)
OverIsQuiet ==
    doc.status \in Ended \cup {"ready_to_resume"} =>
        /\ \A s \in Plan : device[s] = "running" => Overlooked(s)
        /\ run.at = "send" => TakenOverStep(run.step)
        /\ \A s \in RemoteSteps : theirs[s] # "allowed"

(* A step is commanded at most once, resumed or not.                        *)
SentOnce == \A s \in Plan : sends[s] <= 1

(* A completed execution has done every step.                               *)
CompletedIsDone == doc.status = "completed" => \A s \in Plan : device[s] = "SUCCESS"

(* Every state of the execution is one that the journal of the sites can    *)
(* still take over, whatever checkpoints were lost.                         *)
JournalFollows ==
    journal # NoJournal =>
        journal.fence <= doc.fence /\ ReceiptTransition(journal, doc)

(* A cancelled execution stays cancelled, also through a reconciliation     *)
(* that was begun before.                                                   *)
CancelledStays == doc.cancelled => doc.status \in Cancelled

==============================================================================
