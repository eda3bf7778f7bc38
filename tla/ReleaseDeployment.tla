-------------------------- MODULE ReleaseDeployment --------------------------
(***************************************************************************)
(* The cloud's side of a release: deployments that go through their        *)
(* workloads batch by batch, the assignment of each workload, what its     *)
(* agent reports, and the coordinator that lets the next batch enter.  An  *)
(* agent is one instance of its workload's identity; a new instance ends   *)
(* the rights of the old one.  A report may be handled after the agent has *)
(* given up waiting for the answer.  Each deployment has a release of its  *)
(* own, so a release is named by it.                                       *)
(***************************************************************************)
EXTENDS Naturals

CONSTANTS
    Workloads,
    Deployments,
    Batch,          \* [d \in Deployments -> [workloads of d -> index of their batch]]
    MaxFaults,      \* bound: restarts, failures, late reports, exits, silences
    MaxOrders       \* bound: orders of an operator

ReleaseConstants == \A d \in Deployments : DOMAIN Batch[d] \subseteq Workloads

VARIABLES
    deployment,     \* release_deployment: its state and current batch
    target,         \* its targets
    assignment,     \* release_assignment of a workload: deployment and generation
    identity,       \* workload_identity: enabled, and the instance's epoch
    agent,          \* the instance: the assignment it has fetched, the release that runs,
                    \* whether it has just started that
    ran,            \* history: the releases the present instance has seen running
    late,           \* a report given up by the agent, not yet handled
    faults, orders

vars == <<deployment, target, assignment, identity, agent, ran, late, faults, orders>>
ofCloud == <<deployment, target, assignment>>

Nothing == [d |-> 0, gen |-> 0]
NoReport == [d |-> 0, gen |-> 0, epoch |-> 0, state |-> "none", stale |-> FALSE]
Terminal == {"completed", "failed", "cancelled"}
Targets(d) == DOMAIN Batch[d]
Fault == faults < MaxFaults /\ faults' = faults + 1
Order == orders < MaxOrders /\ orders' = orders + 1

-----------------------------------------------------------------------------
(* createDeployment: every workload's last deployment is over.              *)
Create(d) ==
    /\ deployment[d].state = "none"
    /\ \A c \in {assignment[w].d : w \in Targets(d)} \ {0} : deployment[c].state \in Terminal
    /\ deployment' = [deployment EXCEPT ![d].state = "active"]
    /\ assignment' = [w \in Workloads |->
         IF w \in Targets(d) THEN [d |-> d, gen |-> assignment[w].gen + 1] ELSE assignment[w]]
    /\ target' = [target EXCEPT ![d] = [w \in Targets(d) |->
         [gen |-> assignment[w].gen + 1, epoch |-> 0, prepared |-> FALSE, running |-> FALSE,
          fresh |-> FALSE, state |-> IF Batch[d][w] = 1 THEN "waiting" ELSE "pending"]]]
    /\ UNCHANGED <<identity, agent, ran, late, faults, orders>>

(* Releases.Action.  A retry gives the failed targets of the current batch  *)
(* a new generation.                                                        *)
Failed(d) == {w \in Targets(d) : Batch[d][w] = deployment[d].batch
                                 /\ target[d][w].state = "failed"}

Again(t) ==
    [t EXCEPT !.gen = @ + 1, !.state = "waiting", !.prepared = FALSE, !.running = FALSE]

Retry(d) ==
    /\ deployment[d].state = "failed" /\ Order
    /\ \A w \in Failed(d) : assignment[w] = [d |-> d, gen |-> target[d][w].gen]
    /\ deployment' = [deployment EXCEPT ![d].state = "active"]
    /\ target' = [target EXCEPT ![d] = [w \in Targets(d) |->
         IF w \in Failed(d) THEN Again(@[w]) ELSE @[w]]]
    /\ assignment' = [w \in Workloads |->
         IF w \in Failed(d) THEN [assignment[w] EXCEPT !.gen = @ + 1] ELSE assignment[w]]
    /\ UNCHANGED <<identity, agent, ran, late, faults>>

Direct(d, from, to) ==
    /\ deployment[d].state \in from /\ Order
    /\ deployment' = [deployment EXCEPT ![d].state = to]
    /\ UNCHANGED <<target, assignment, identity, agent, ran, late, faults>>

Action(d) ==
    \/ Retry(d)
    \/ Direct(d, {"active"}, "paused") \/ Direct(d, {"paused"}, "active")
    \/ Direct(d, {"active", "paused", "failed"}, "cancelled")

-----------------------------------------------------------------------------
(* The identity: another instance of the agent starts (ActivateInstance),   *)
(* an administrator disables a workload (PutTx).                            *)
ActivateInstance(w) ==
    /\ identity[w].enabled /\ Fault
    /\ identity' = [identity EXCEPT ![w].epoch = @ + 1]
    /\ agent' = [agent EXCEPT ![w].fetched = Nothing]
    /\ ran' = [ran EXCEPT ![w] = {}]
    /\ UNCHANGED <<ofCloud, late, orders>>

SetEnabled(w, on) ==
    /\ identity[w].enabled # on /\ Order
    /\ identity' = [identity EXCEPT ![w].enabled = on]
    /\ UNCHANGED <<ofCloud, agent, ran, late, faults>>

-----------------------------------------------------------------------------
(* Desired: what the agent is to run, unless its batch has not entered or   *)
(* the deployment is held.                                                  *)
Desired(w) ==
    LET d == assignment[w].d
    IN  /\ identity[w].enabled /\ d # 0
        /\ deployment[d].state \in {"active", "completed"}
        /\ Batch[d][w] <= deployment[d].batch
        /\ target[d][w].gen = assignment[w].gen
        /\ agent' = [agent EXCEPT ![w].fetched = assignment[w]]
        /\ target' = [target EXCEPT ![d][w].state =
                        IF @ \in {"waiting", "offline"} THEN "preparing" ELSE @]
        /\ UNCHANGED <<deployment, assignment, identity, ran, late, faults, orders>>

(* The agent starts what it has fetched.                                    *)
Switch(w) ==
    /\ agent[w].fetched # Nothing /\ agent[w].runs # agent[w].fetched.d
    /\ agent' = [agent EXCEPT ![w].runs = agent[w].fetched.d, ![w].new = TRUE]
    /\ UNCHANGED <<ofCloud, identity, ran, late, faults, orders>>

Exit(w) ==
    /\ agent[w].runs # 0 /\ Fault
    /\ agent' = [agent EXCEPT ![w].runs = 0]
    /\ UNCHANGED <<ofCloud, identity, ran, late, orders>>

-----------------------------------------------------------------------------
(* ValidateTx                                                               *)
Valid(w, r) == identity[w].enabled /\ r.epoch = identity[w].epoch

(* Report: for the current assignment, in order, and running only what this *)
(* instance has prepared.                                                   *)
Accepted(w, r) ==
    LET t == target[r.d][w]
    IN  /\ Valid(w, r)
        /\ assignment[w] = [d |-> r.d, gen |-> r.gen] /\ t.gen = r.gen
        /\ Batch[r.d][w] <= deployment[r.d].batch
        /\ deployment[r.d].state \notin {"cancelled", "paused", "failed"}
        /\ t.epoch < r.epoch \/ (t.epoch = r.epoch /\ ~r.stale)
        /\ r.state = "prepared" => ~(t.state \in {"applied", "running"} /\ t.epoch = r.epoch)
        /\ r.state \in {"applied", "running"} => t.prepared /\ t.epoch = r.epoch

AfterReport(report, state) ==
    IF report = "failed" /\ state # "completed" THEN "failed" ELSE state

Updated(t, r) ==
    [t EXCEPT !.state = r.state, !.epoch = r.epoch,
              !.prepared = @ \/ r.state = "prepared", !.running = @ \/ r.state = "running",
              !.fresh = @ \/ r.state \in {"applied", "running"}]

Handle(w, r) ==
    IF Accepted(w, r)
    THEN /\ target' = [target EXCEPT ![r.d][w] = Updated(@, r)]
         /\ deployment' = [deployment EXCEPT ![r.d].state = AfterReport(r.state, @)]
    ELSE UNCHANGED <<target, deployment>>

(* Fault: what an older instance has prepared is not prepared again.        *)
PreparedOnce(w) ==
    LET f == agent[w].fetched
        made(state) == [NoReport EXCEPT !.d = f.d, !.gen = f.gen,
                                        !.epoch = identity[w].epoch, !.state = state]
    IN  IF f = Nothing THEN {}
        ELSE IF ~target[f.d][w].prepared THEN {made("prepared")}
        ELSE IF agent[w].runs = f.d THEN {made("running")} ELSE {}

(* What an agent reports: the release it has fetched is ready, applied or   *)
(* running, or has failed.                                                  *)
Reports(w) ==
    LET f == agent[w].fetched
        t == target[f.d][w]
        made(state) == [NoReport EXCEPT !.d = f.d, !.gen = f.gen,
                                        !.epoch = identity[w].epoch, !.state = state]
    IN  IF f = Nothing THEN {}
        ELSE IF ~t.prepared \/ t.epoch # identity[w].epoch THEN {made("prepared")}
        ELSE IF agent[w].runs # f.d THEN {}
        ELSE {made("running")} \cup (IF agent[w].new THEN {made("applied")} ELSE {})

(* reportComponent, answered.  One that is still late is older than this.   *)
Overtaken(w, r) ==
    late' = IF late[w] # NoReport /\ Accepted(w, r)
            THEN [late EXCEPT ![w].stale = TRUE] ELSE late

SeenRunning(w, r) ==
    IF r.state = "running"
    THEN ran' = [ran EXCEPT ![w] = @ \cup {r.d}] /\ agent' = [agent EXCEPT ![w].new = FALSE]
    ELSE UNCHANGED <<ran, agent>>

Send(w, r) ==
    /\ r \in Reports(w)
    /\ Handle(w, r)
    /\ Overtaken(w, r)
    /\ SeenRunning(w, r)
    /\ UNCHANGED <<assignment, identity, faults, orders>>

SendFailed(w) ==
    LET f == agent[w].fetched
        r == [NoReport EXCEPT !.d = f.d, !.gen = f.gen, !.epoch = identity[w].epoch,
                              !.state = "failed"]
    IN  /\ f # Nothing /\ Fault
        /\ Handle(w, r)
        /\ Overtaken(w, r)
        /\ UNCHANGED <<assignment, identity, agent, ran, orders>>

(* Not answered in time: it may be handled later.                           *)
GiveUp(w, r) ==
    /\ r \in Reports(w) /\ late[w] = NoReport /\ Fault
    /\ late' = [late EXCEPT ![w] = r]
    /\ SeenRunning(w, r)
    /\ UNCHANGED <<ofCloud, identity, orders>>

HandleLate(w) ==
    /\ late[w] # NoReport
    /\ Handle(w, late[w])
    /\ late' = [late EXCEPT ![w] = NoReport]
    /\ UNCHANGED <<assignment, identity, agent, ran, faults, orders>>

-----------------------------------------------------------------------------
(* Time: nothing has been heard of a target for OfflineAfterMS.             *)
Silence(d, w) ==
    /\ target[d][w].fresh /\ Fault
    /\ target' = [target EXCEPT ![d][w].fresh = FALSE]
    /\ UNCHANGED <<deployment, assignment, identity, agent, ran, late, orders>>

(* Fault: what an older instance has reported is enough.                    *)
AnyInstanceRuns(d, w) == target[d][w].state = "running" /\ target[d][w].fresh
Runs(d, w) ==
    /\ target[d][w].state = "running" /\ target[d][w].running /\ target[d][w].fresh
    /\ target[d][w].epoch = identity[w].epoch

(* reconcileOne: a lost workload fails the deployment, a batch that runs is *)
(* followed by the next, a silent target is offline.                        *)
Current(d) == {w \in Targets(d) : Batch[d][w] = deployment[d].batch}
Broken(d) == {w \in Current(d) : ~identity[w].enabled \/ target[d][w].state = "failed"}
LastBatch(d) == \A w \in Targets(d) : Batch[d][w] <= deployment[d].batch

Seen(d, w, entered) ==
    LET t == target[d][w]
    IN  CASE w \in Broken(d) -> [t EXCEPT !.state = "failed"]
          [] w \in Current(d) /\ w \notin Broken(d) /\ ~t.fresh -> [t EXCEPT !.state = "offline"]
          [] entered /\ Batch[d][w] = deployment[d].batch + 1 -> [t EXCEPT !.state = "waiting"]
          [] OTHER -> t

Reconcile(d) ==
    LET ready == \A w \in Current(d) : w \notin Broken(d) /\ Runs(d, w)
        d2 == [deployment[d] EXCEPT
                 !.state = IF Broken(d) # {} THEN "failed"
                           ELSE IF ready /\ LastBatch(d) THEN "completed" ELSE @,
                 !.batch = IF ready /\ ~LastBatch(d) THEN @ + 1 ELSE @]
    IN  /\ deployment[d].state = "active"
        /\ deployment' = [deployment EXCEPT ![d] = d2]
        /\ target' = [target EXCEPT ![d] = [w \in Targets(d) |->
                        Seen(d, w, d2.batch > deployment[d].batch)]]
        /\ UNCHANGED <<assignment, identity, agent, ran, late, faults, orders>>

-----------------------------------------------------------------------------
Init ==
    /\ deployment = [d \in Deployments |-> [state |-> "none", batch |-> 1]]
    /\ target = [d \in Deployments |-> [w \in Targets(d) |->
         [gen |-> 0, epoch |-> 0, prepared |-> FALSE, running |-> FALSE, fresh |-> FALSE,
          state |-> "pending"]]]
    /\ assignment = [w \in Workloads |-> Nothing]
    /\ identity = [w \in Workloads |-> [enabled |-> TRUE, epoch |-> 1]]
    /\ agent = [w \in Workloads |-> [fetched |-> Nothing, runs |-> 0, new |-> FALSE]]
    /\ ran = [w \in Workloads |-> {}]
    /\ late = [w \in Workloads |-> NoReport]
    /\ faults = 0 /\ orders = 0

AgentStep(w) ==
    \/ assignment[w] # agent[w].fetched /\ Desired(w)
    \/ Switch(w)
    \/ \E r \in Reports(w) : r.state # "applied" /\ Send(w, r)

Next ==
    \/ \E d \in Deployments : Create(d) \/ Action(d) \/ Reconcile(d)
    \/ \E d \in Deployments : \E w \in Targets(d) : Silence(d, w)
    \/ \E w \in Workloads :
         \/ ActivateInstance(w) \/ SetEnabled(w, TRUE) \/ SetEnabled(w, FALSE)
         \/ Desired(w) \/ Switch(w) \/ Exit(w)
         \/ (\E r \in Reports(w) : Send(w, r) \/ GiveUp(w, r))
         \/ SendFailed(w) \/ HandleLate(w)

(* Agents poll, and the coordinator is a periodic worker.                   *)
Fairness ==
    /\ \A w \in Workloads : WF_vars(AgentStep(w))
    /\ \A d \in Deployments : WF_vars(Reconcile(d))

Spec == Init /\ [][Next]_vars
FairSpec == Spec /\ Fairness

-----------------------------------------------------------------------------
TypeOK ==
    \A d \in Deployments : \A w \in Targets(d) :
      /\ target[d][w].gen <= assignment[w].gen
      /\ target[d][w].epoch <= identity[w].epoch
      /\ agent[w].fetched.gen <= assignment[w].gen
      /\ deployment[d].state = "active" => \E v \in Targets(d) : Batch[d][v] = deployment[d].batch

(* The next batch enters, and a deployment completes, only when the present *)
(* instance of every workload of the batch has itself seen the release run, *)
(* whatever older instances and late reports say (Report, reconcileOne).    *)
Enters(d) ==
    /\ deployment[d].state = "active"
    /\ deployment'[d].batch > deployment[d].batch \/ deployment'[d].state = "completed"
RanBefore == \A d \in Deployments : Enters(d) => \A w \in Current(d) : d \in ran[w]
EntersOnRunning == [][RanBefore]_vars

(* A deployment that is active ends, or is held, while its workloads are    *)
(* still assigned to it: agents poll and the coordinator runs.              *)
Owns(d) == \A w \in Targets(d) : assignment[w].d = d
Active(d) == deployment[d].state = "active" /\ Owns(d)
Ends == \A d \in Deployments : Active(d) ~> ~Active(d)

(* "Failed targets stop later batches; a retry retries failed targets": no  *)
(* target has failed while the deployment is active.                        *)
ActiveHasNoFailed ==
    \A d \in Deployments : deployment[d].state = "active" =>
      \A w \in Targets(d) : target[d][w].state # "failed"

(* A workload has one active deployment (createDeployment).                 *)
OneDeployment ==
    \A c, d \in Deployments :
      c # d /\ deployment[c].state = "active" /\ deployment[d].state = "active"
      => Targets(c) \cap Targets(d) = {}
=============================================================================
