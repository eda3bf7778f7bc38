----------------------------- MODULE TaskLedger -----------------------------
(***************************************************************************)
(* The ledger of background tasks (store/tasks.go, tasks/service.go,       *)
(* application/tasks.go).  A task is a row of the ledger and a job of the  *)
(* queue; what it works for is either a delivery of the outbox or a        *)
(* recomputation, kept as a document.  Rows, jobs and documents change in  *)
(* one transaction each, the work in between does not: a worker reads the  *)
(* task, carries it out and reports, while operators cancel it or start it *)
(* again on what they have read, and the process ends at any point.  At    *)
(* every start, work of versions without a queue is adopted first.         *)
(***************************************************************************)
EXTENDS Naturals, FiniteSets

CONSTANTS
    Deliveries,     \* rows of the outbox for a projection
    Recomputes,     \* recomputations left by a version without a queue
    Operators,
    MaxAttempts,    \* attempts of a job
    MaxChanges,     \* bound: changes by operators, and of their rights
    MaxCrashes,     \* bound: ends of the process
    None

VARIABLES
    up,             \* "down", "starting" or "up"
    outbox,         \* rows of the outbox: "none", "row" or "gone"
    doc,            \* document of a recomputation
    task,           \* the ledger and the queue
    work,           \* what the worker of a task is at
    held,           \* what an operator has read
    right,          \* may operators act, and the revision of that
    made,           \* tasks a recomputation has got
    misled,         \* an operator has acted on what was so no longer
    changes, crashes

vars == <<up, outbox, doc, task, work, held, right, made, misled, changes, crashes>>

Things == Deliveries \cup Recomputes

(***************************************************************************)
(* The queue, as the code uses it.                                         *)
(***************************************************************************)
Waiting == {"available", "retryable"}
Final == {"completed", "cancelled", "discarded"}

Task == [state : Waiting \cup Final \cup {"running"}, attempt : Nat, max : Nat,
         errors : Nat, marked : BOOLEAN, revision : Nat, cancelled : BOOLEAN,
         operations : Nat]

LedgerConstants ==
    /\ Deliveries \cap Recomputes = {} /\ MaxAttempts \in Nat \ {0}
    /\ None \notin Operators \cup Task

(* An attempt ends without success: the mark of a cancellation decides.     *)
Ended(t) ==
    [t EXCEPT !.errors = @ + 1,
              !.state = IF t.marked THEN "cancelled"
                        ELSE IF t.attempt >= t.max THEN "discarded" ELSE "retryable"]

JobCancel(t) ==
    [t EXCEPT !.marked = TRUE, !.state = IF t.state = "running" THEN @ ELSE "cancelled"]

JobRetry(t) ==
    [t EXCEPT !.state = "available", !.max = IF t.attempt = @ THEN @ + 1 ELSE @]

NewTask ==
    [state |-> "available", attempt |-> 0, max |-> MaxAttempts, errors |-> 0,
     marked |-> FALSE, revision |-> 0, cancelled |-> FALSE, operations |-> 0]

TypeOK ==
    /\ up \in {"down", "starting", "up"}
    /\ outbox \in [Deliveries -> {"none", "row", "gone"}]
    /\ DOMAIN doc = Recomputes
    /\ \A r \in Recomputes :
           doc[r].status \in {"running", "failed", "cancelled", "completed"}
               /\ doc[r].tracked \in BOOLEAN
    /\ task \in [Things -> Task \cup {None}]
    /\ work \in [Things -> {"none", "fetched", "checked", "done", "failed", "stopped"}]
    /\ \A o \in Operators : held[o] = None \/
           (held[o].thing \in Things /\ held[o].right <= right.revision)
    /\ right.may \in BOOLEAN
    /\ made \in [Recomputes -> Nat] /\ misled \in BOOLEAN
    /\ changes \in 0..MaxChanges /\ crashes \in 0..MaxCrashes

(* Rows and documents as an earlier version has left them.                  *)
Init ==
    /\ up = "down"
    /\ outbox \in [Deliveries -> {"none", "row"}]
    /\ doc \in [Recomputes -> [status : {"running", "failed"}, tracked : {FALSE},
                               version : {1}]]
    /\ task = [x \in Things |-> None]
    /\ work = [x \in Things |-> "none"]
    /\ held = [o \in Operators |-> None]
    /\ right = [may |-> TRUE, revision |-> 1]
    /\ made = [r \in Recomputes |-> 0]
    /\ misled = FALSE /\ changes = 0 /\ crashes = 0

(***************************************************************************)
(* Making tasks.                                                           *)
(***************************************************************************)
(* A task is made once for its identity.                                   *)
EnqueueTask(x) == task' = [task EXCEPT ![x] = IF @ = None THEN NewTask ELSE @]

(* Ingestion, publication, or an import stores a row with its task.         *)
Enqueue(d) ==
    /\ up = "up" /\ outbox[d] = "none"
    /\ outbox' = [outbox EXCEPT ![d] = "row"]
    /\ EnqueueTask(d)
    /\ UNCHANGED <<up, doc, work, held, right, made, misled, changes, crashes>>

(* A recomputation without a task gets one, and its document names it.      *)
AdoptRecompute(r) ==
    /\ doc' = [doc EXCEPT ![r] = [status |-> "running", tracked |-> TRUE,
                                  version |-> @.version + 1]]
    /\ EnqueueTask(r)
    /\ made' = [made EXCEPT ![r] = @ + 1]

ToAdopt ==
    {r \in Recomputes : doc[r].status = "running" /\ ~doc[r].tracked}
    \cup {d \in Deliveries : outbox[d] = "row" /\ task[d] = None}

Start == up = "down" /\ up' = "starting"
    /\ UNCHANGED <<outbox, doc, task, work, held, right, made, misled, changes, crashes>>

ReconcileTask(x) ==
    /\ up = "starting" /\ x \in ToAdopt
    /\ IF x \in Recomputes THEN AdoptRecompute(x)
       ELSE EnqueueTask(x) /\ UNCHANGED <<doc, made>>
    /\ UNCHANGED <<up, outbox, work, held, right, misled, changes, crashes>>

(* Workers run when everything has been adopted.                            *)
ReconcileTasks ==
    /\ up = "starting" /\ ToAdopt = {}
    /\ up' = "up"
    /\ UNCHANGED <<outbox, doc, task, work, held, right, made, misled, changes, crashes>>

Crash ==
    /\ up # "down" /\ crashes < MaxCrashes
    /\ up' = "down" /\ crashes' = crashes + 1
    /\ work' = [x \in Things |-> "none"]
    /\ held' = [o \in Operators |-> None]
    /\ UNCHANGED <<outbox, doc, task, right, made, misled, changes>>

(***************************************************************************)
(* The worker.                                                             *)
(***************************************************************************)
At(x, stage) == up = "up" /\ task[x] # None /\ work[x] = stage

Fetch(x) ==
    /\ At(x, "none") /\ task[x].state = "available"
    /\ task' = [task EXCEPT ![x].state = "running", ![x].attempt = @ + 1]
    /\ work' = [work EXCEPT ![x] = "fetched"]
    /\ UNCHANGED <<up, outbox, doc, held, right, made, misled, changes, crashes>>

Finalize(x, t) ==
    /\ task' = [task EXCEPT ![x] = t]
    /\ work' = [work EXCEPT ![x] = "none"]
    /\ UNCHANGED <<up, held, right, made, misled, changes, crashes>>

Finish(x, state) == Finalize(x, [task[x] EXCEPT !.state = state])

Stopped(x) == x \in Recomputes /\ doc[x].status = "cancelled"

(* What the worker reads before it begins: a cancellation, a document that  *)
(* is finished or cancelled, a row that is gone.                            *)
Checked(x) ==
    CASE task[x].cancelled -> "cancelled"
      [] x \in Deliveries /\ outbox[x] # "row" -> "completed"
      [] Stopped(x) -> "cancelled"
      [] x \in Recomputes /\ doc[x].status = "completed" -> "completed"
      [] OTHER -> "go"

Work(x) ==
    /\ At(x, "fetched")
    /\ IF Checked(x) = "go"
       THEN /\ work' = [work EXCEPT ![x] = "checked"]
            /\ UNCHANGED <<up, outbox, doc, task, held, right, made, misled, changes, crashes>>
       ELSE Finish(x, Checked(x)) /\ UNCHANGED <<outbox, doc>>

(* The handler: the projection takes effect outside; the recomputation      *)
(* commits its document unless that was cancelled.                          *)
Carry(x) ==
    /\ At(x, "checked")
    /\ \/ work' = [work EXCEPT ![x] = "failed"] /\ UNCHANGED doc
       \/ /\ ~Stopped(x)
          /\ work' = [work EXCEPT ![x] = "done"]
          /\ doc' = IF x \in Deliveries THEN doc
                    ELSE [doc EXCEPT ![x].status = "completed", ![x].version = @ + 1]
    /\ UNCHANGED <<up, outbox, task, held, right, made, misled, changes, crashes>>

(* A failure is noted, but not over a cancellation.                         *)
RecordRecomputeFailure(x) ==
    /\ At(x, "failed")
    /\ work' = [work EXCEPT ![x] = "stopped"]
    /\ doc' = IF x \in Deliveries \/ Stopped(x) THEN doc
              ELSE [doc EXCEPT ![x].status = "failed", ![x].version = @ + 1]
    /\ UNCHANGED <<up, outbox, task, held, right, made, misled, changes, crashes>>

(* The time of an attempt is over, or it is cancelled: nothing is noted.    *)
TimeOut(x) ==
    /\ At(x, "checked")
    /\ work' = [work EXCEPT ![x] = "stopped"]
    /\ UNCHANGED <<up, outbox, doc, task, held, right, made, misled, changes, crashes>>

Fail(x) == At(x, "stopped") /\ Finalize(x, Ended(task[x])) /\ UNCHANGED <<outbox, doc>>

(* A row goes and its job is completed in one transaction.                  *)
CompleteProjection(d) ==
    /\ At(d, "done")
    /\ outbox' = [outbox EXCEPT ![d] = "gone"]
    /\ Finish(d, "completed") /\ UNCHANGED doc

CompleteRecompute(r) ==
    /\ At(r, "done")
    /\ Finish(r, IF task[r].cancelled THEN "cancelled" ELSE "completed")
    /\ UNCHANGED <<outbox, doc>>

(* The queue makes a failed job available again, and rescues one whose      *)
(* worker is gone.                                                          *)
Due(x) ==
    /\ up = "up" /\ task[x] # None /\ task[x].state = "retryable"
    /\ task' = [task EXCEPT ![x].state = "available"]
    /\ UNCHANGED <<up, outbox, doc, work, held, right, made, misled, changes, crashes>>

Rescue(x) ==
    /\ At(x, "none") /\ task[x].state = "running"
    /\ Finalize(x, Ended(task[x])) /\ UNCHANGED <<outbox, doc>>

(***************************************************************************)
(* Operators.                                                              *)
(***************************************************************************)
(* What an operation is confirmed for: work that is waiting or under way    *)
(* counts as the same, errors only when they decide.                        *)
OperationState(t) == IF t.state \in {"available", "running"} THEN "active" ELSE t.state

Token(x) ==
    LET t == task[x] IN
    [state |-> OperationState(t), cancelled |-> t.cancelled, revision |-> t.revision,
     errors |-> IF t.state \in {"retryable", "discarded"} THEN t.errors ELSE 0,
     max |-> t.max,
     business |-> IF x \in Recomputes THEN doc[x].status ELSE "none"]

GetTask(o, x) ==
    /\ up = "up" /\ held[o] = None /\ task[x] # None /\ changes < MaxChanges
    /\ held' = [held EXCEPT ![o] = [thing |-> x, token |-> Token(x), version |-> 0,
                    seen |-> task[x].operations, right |-> 0]]
    /\ UNCHANGED <<up, outbox, doc, task, work, right, made, misled, changes, crashes>>

(* The request: rights are read, with their revision, before the            *)
(* transaction.                                                             *)
Authorize(o) ==
    /\ up = "up" /\ held[o] # None /\ held[o].right = 0 /\ right.may
    /\ held' = [held EXCEPT ![o].right = right.revision]
    /\ UNCHANGED <<up, outbox, doc, task, work, right, made, misled, changes, crashes>>

CanCancel(x) == task[x].state \in Waiting \cup {"running"} /\ ~task[x].cancelled

CanRetry(x) ==
    /\ task[x].state \in {"discarded", "cancelled", "retryable"}
    /\ x \in Recomputes => doc[x].status # "completed"

(* Every change makes what others have read out of date.                    *)
AdvanceOperation(t, retried) ==
    [t EXCEPT !.revision = @ + 1, !.operations = @ + 1, !.cancelled = ~retried,
              !.marked = IF retried THEN FALSE ELSE @]

SameOperation(h) == h.token = Token(h.thing)

(* Rights are compared in the transaction, then the task.                   *)
Allowed(h) == h.right = right.revision

Change(o, action) ==
    LET h == held[o]
        x == h.thing
        status == IF action = "cancel" THEN "cancelled" ELSE "running"
    IN
    /\ up = "up" /\ h # None /\ h.version = 0 /\ h.right > 0 /\ changes < MaxChanges
    /\ held' = [held EXCEPT ![o] = None]
    /\ IF /\ Allowed(h) /\ SameOperation(h)
          /\ IF action = "cancel" THEN CanCancel(x) ELSE CanRetry(x)
       THEN /\ task' = [task EXCEPT ![x] = AdvanceOperation(
                   IF action = "cancel" THEN JobCancel(@) ELSE JobRetry(@), action = "retry")]
            /\ doc' = IF x \in Deliveries \/ doc[x].status = "completed" THEN doc
                      ELSE [doc EXCEPT ![x].status = status, ![x].version = @ + 1]
            /\ misled' = (misled \/ h.seen # task[x].operations \/ ~right.may)
            /\ changes' = changes + 1
       ELSE UNCHANGED <<task, doc, misled, changes>>
    /\ UNCHANGED <<up, outbox, work, right, made, crashes>>

(* A failed recomputation of an earlier version is started by hand.         *)
GetJob(o, r) ==
    /\ up = "up" /\ held[o] = None /\ right.may
    /\ doc[r].status = "failed" /\ ~doc[r].tracked
    /\ held' = [held EXCEPT ![o] = [thing |-> r, token |-> None, version |-> doc[r].version, seen |-> 0,
                                    right |-> right.revision]]
    /\ UNCHANGED <<up, outbox, doc, task, work, right, made, misled, changes, crashes>>

Adoptable(h) ==
    /\ doc[h.thing].version = h.version /\ doc[h.thing].status = "failed"
    /\ ~doc[h.thing].tracked /\ task[h.thing] = None

AdoptFailedRecompute(o) ==
    LET h == held[o] IN
    /\ up = "up" /\ h # None /\ h.version > 0
    /\ held' = [held EXCEPT ![o] = None]
    /\ IF Allowed(h) /\ Adoptable(h)
       THEN AdoptRecompute(h.thing) /\ misled' = (misled \/ ~right.may)
       ELSE UNCHANGED <<doc, task, made, misled>>
    /\ UNCHANGED <<up, outbox, work, right, changes, crashes>>

ChangeRight ==
    /\ changes < MaxChanges /\ changes' = changes + 1
    /\ right' = [may |-> ~right.may, revision |-> right.revision + 1]
    /\ UNCHANGED <<up, outbox, doc, task, work, held, made, misled, crashes>>

Next ==
    \/ Start \/ ReconcileTasks \/ Crash \/ ChangeRight
    \/ \E x \in Things :
           ReconcileTask(x) \/ Fetch(x) \/ Work(x) \/ Carry(x) \/ RecordRecomputeFailure(x)
               \/ TimeOut(x) \/ Fail(x) \/ Due(x) \/ Rescue(x)
    \/ \E d \in Deliveries : Enqueue(d) \/ CompleteProjection(d)
    \/ \E r \in Recomputes : CompleteRecompute(r)
    \/ \E o \in Operators :
           \/ \E x \in Things : GetTask(o, x)
           \/ \E r \in Recomputes : GetJob(o, r)
           \/ \E action \in {"cancel", "retry"} : Change(o, action)
           \/ Authorize(o) \/ AdoptFailedRecompute(o)

(***************************************************************************)
(* Properties.                                                             *)
(***************************************************************************)
(* An operation takes effect only on the task its operator has read: no     *)
(* operation of another came between, and the right to it still stands.     *)
(* The state alone does not tell: a cancelled and retried task looks as it  *)
(* did before (advanceTaskOperation, store/tasks.go).                       *)
OperatorsSeeWhatTheyChange == ~misled

(* A recomputation of an earlier version is adopted once, by the start or   *)
(* by one of the operators who retry it.                                    *)
AdoptedOnce == \A r \in Recomputes : made[r] <= 1

(* While workers run, a row of the outbox and a recomputation that is to    *)
(* run have a task, and the task of a row is not completed.                 *)
NothingWithoutTask ==
    up = "up" =>
        /\ \A d \in Deliveries : outbox[d] = "row" =>
               task[d] # None /\ task[d].state # "completed"
        /\ \A r \in Recomputes : doc[r].status = "running" =>
               task[r] # None /\ task[r].state # "completed"

(* A task and its document end alike: a completed task has a completed      *)
(* document, a cancelled one a cancelled or completed one, and what was     *)
(* started again is not stopped by the mark of the earlier cancellation.    *)
EndsAlike ==
    \A r \in Recomputes : task[r] # None =>
        /\ task[r].state = "completed" => doc[r].status = "completed"
        /\ task[r].state = "cancelled" => doc[r].status \in {"cancelled", "completed"}
=============================================================================
