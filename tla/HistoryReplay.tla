---------------------------- MODULE HistoryReplay ----------------------------
(***************************************************************************)
(* Late readings and what is recomputed for them.  A reading is a number,  *)
(* its place in observation time; all belong to one device and one         *)
(* published calculation that counts them (a counter node).  A timely      *)
(* reading is evaluated live; a late one makes the recompute job of the    *)
(* device pending again.  The job is carried out by a task of the queue    *)
(* River: it replays all readings into a state of its own, window by       *)
(* window, replaces the live state by it, and then rebuilds the rollups    *)
(* of its range.  A document's version is compared by whoever writes it:   *)
(* here the worker knows whether another has written since (fresh).        *)
(***************************************************************************)
EXTENDS Naturals, FiniteSets

CONSTANTS
    Readings,       \* a set of numbers, from 1 on
    MaxAttempts,    \* attempts of a task (8 in taskOptions)
    MaxFaults,      \* bound: failed or interrupted steps
    MaxOrders       \* bound: cancellations and retries by an operator

VARIABLES
    stored,         \* table observations
    queue,          \* table outbox, kind engine: readings to evaluate live
    evaluated,      \* inbox: readings evaluated live
    count,          \* engine_state: how often the counter has counted a reading
    job,            \* document job backfill:<device>
    draft,          \* recompute_state of the run: readings it has counted
    rolled,         \* readings the rollups of their minute contain
    swept,          \* retention_cursor: the hourly pass has built up to here
    task,           \* the task of River for the current generation of the job
    worker,         \* the worker of the queue recompute
    late,           \* history: readings that made the job pending
    faults, orders

vars == <<stored, queue, evaluated, count, job, draft, rolled, swept, task, worker, late,
          faults, orders>>

HistoryConstants == Readings \subseteq Nat \ {0}

NoJob == [st |-> "none", phase |-> "", from |-> 0, to |-> 0, cursor |-> 0, end |-> 0]
NewTask == [st |-> "available", attempt |-> 0, cancelled |-> FALSE]
Idle == [pc |-> "idle", own |-> TRUE, fresh |-> TRUE, at |-> 0]

Fault == faults < MaxFaults /\ faults' = faults + 1
Order == orders < MaxOrders /\ orders' = orders + 1

Largest(S) == CHOOSE m \in S : \A n \in S : n <= m
Latest == IF stored = {} THEN 0 ELSE Largest(stored)
Larger(m, n) == IF m > n THEN m ELSE n
Smaller(m, n) == IF m < n THEN m ELSE n

(* Somebody else writes the job: the worker's version is no longer current. *)
Overtaken == [worker EXCEPT !.fresh = FALSE]

-----------------------------------------------------------------------------
(* Fault: the running task goes on as if it had read the new range.         *)
MergeInPlace(from, to) ==
    /\ job' = [job EXCEPT !.from = Smaller(@, from), !.to = Larger(@, to),
                          !.st = IF @ = "none" THEN "pending" ELSE @]
    /\ task' = IF job.st = "none" THEN NewTask ELSE task
    /\ UNCHANGED worker

(* mergeBackfillJobs and Put: the range joins that of a job that has not    *)
(* completed; the job is pending, a new generation with a task of its own.  *)
Merge(from, to) ==
    /\ job' = IF job.st \in {"none", "completed"}
              THEN [NoJob EXCEPT !.st = "pending", !.from = from, !.to = to]
              ELSE [NoJob EXCEPT !.st = "pending", !.from = Smaller(job.from, from),
                                                   !.to = Larger(job.to, to)]
    /\ task' = NewTask
    /\ worker' = [Overtaken EXCEPT !.own = FALSE]

(* IngestMessages: a reading is late behind its series or by its age.  The  *)
(* reading, its live evaluation and the job are one transaction.            *)
Ingest(m) ==
    /\ m \notin stored
    /\ stored' = stored \cup {m}
    /\ \E isLate \in {TRUE, m < Latest} :
         IF isLate THEN /\ late' = late \cup {m}
                        /\ Merge(m, Larger(m, Latest))
                        /\ UNCHANGED queue
                   ELSE /\ queue' = queue \cup {m}
                        /\ UNCHANGED <<late, job, task, worker>>
    /\ UNCHANGED <<evaluated, count, draft, rolled, swept, faults, orders>>

(* The mutex of the engine, held from the catch-up to the end of the run.   *)
Unlocked == worker.pc \notin {"finish", "rollups"}

(* processLocked, live: the marker in the inbox and the state commit        *)
(* together.  A delivery may be repeated.                                   *)
Evaluate(m) ==
    /\ m \in queue /\ Unlocked
    /\ IF m \in evaluated
       THEN UNCHANGED <<evaluated, count>>
       ELSE /\ evaluated' = evaluated \cup {m}
            /\ count' = [count EXCEPT ![m] = @ + 1]
    /\ \/ queue' = queue \ {m} /\ UNCHANGED faults
       \/ queue' = queue /\ Fault
    /\ UNCHANGED <<stored, job, draft, rolled, swept, task, worker, late, orders>>

(* deferEvaluation: the delivery has waited too long for a live evaluation. *)
Defer(m) ==
    /\ m \in queue
    /\ queue' = queue \ {m}
    /\ IF m \in evaluated THEN UNCHANGED <<job, task, worker, late>>
                          ELSE Merge(m, m) /\ late' = late \cup {m}
    /\ UNCHANGED <<stored, evaluated, count, draft, rolled, swept, faults, orders>>

-----------------------------------------------------------------------------
(* River: an attempt ends.  *)
AfterFailure ==
    [task EXCEPT !.st = IF task.cancelled THEN "cancelled"
                        ELSE IF task.attempt >= MaxAttempts THEN "discarded" ELSE "retryable"]
AfterSuccess == [task EXCEPT !.st = IF task.cancelled THEN "cancelled" ELSE "completed"]

(* The worker returns; a task of an older generation concerns nobody.       *)
Return(after) ==
    /\ worker' = Idle
    /\ task' = IF worker.own THEN after ELSE task

(* Work: the task is fetched, and the job read.                             *)
Work ==
    /\ worker.pc = "idle" /\ task.st \in {"available", "retryable"}
    /\ LET begun == [task EXCEPT !.st = "running", !.attempt = @ + 1]
           finished == job.st = "completed" /\ job.phase # "rollups"
       IN  IF job.st = "cancelled"
           THEN task' = [begun EXCEPT !.st = "cancelled"] /\ UNCHANGED worker
           ELSE IF finished
           THEN task' = [begun EXCEPT !.st = "completed"] /\ UNCHANGED worker
           ELSE /\ task' = begun
                /\ worker' = IF job.phase = "rollups"
                             THEN [Idle EXCEPT !.pc = "roll", !.at = job.from]
                             ELSE [Idle EXCEPT !.pc = "prepare"]
    /\ UNCHANGED <<stored, queue, evaluated, count, job, draft, rolled, swept, late, faults,
                   orders>>

(* RecordRecomputeFailure                                                   *)
Failed(cause) ==
    /\ job' = IF worker.own /\ job.st \notin {"cancelled", "pending"}
              THEN [job EXCEPT !.st = "failed"] ELSE job
    /\ Return(AfterFailure)
    /\ cause
    /\ UNCHANGED <<stored, queue, evaluated, count, draft, rolled, swept, late, orders>>

(* prepareReplay: the first attempt freezes the range and an empty state,   *)
(* a later one goes on at the cursor.                                       *)
Prepare ==
    /\ worker.pc = "prepare" /\ worker.fresh
    /\ IF job.phase = ""
       THEN /\ job' = [job EXCEPT !.st = "running", !.phase = "replaying",
                                  !.end = Larger(Latest, job.to), !.cursor = 0]
            /\ draft' = {}
       ELSE job' = [job EXCEPT !.st = "running"] /\ UNCHANGED draft
    /\ worker' = [worker EXCEPT !.pc = "replay"]
    /\ UNCHANGED <<stored, queue, evaluated, count, rolled, swept, task, late, faults, orders>>

(* commitEvaluation of a run looks at the job in its transaction.           *)
Running == worker.own /\ job.st = "running"

(* One window, its readings and then its cursor.                            *)
Replay ==
    /\ worker.pc = "replay" /\ Running /\ job.cursor < job.end
    /\ draft' = draft \cup ({job.cursor + 1} \cap stored)
    /\ worker' = [worker EXCEPT !.pc = "cursor"]
    /\ UNCHANGED <<stored, queue, evaluated, count, job, rolled, swept, task, late, faults,
                   orders>>
Advance ==
    /\ worker.pc = "cursor" /\ worker.fresh
    /\ job' = [job EXCEPT !.cursor = @ + 1]
    /\ worker' = [worker EXCEPT !.pc = "replay"]
    /\ UNCHANGED <<stored, queue, evaluated, count, draft, rolled, swept, task, late, faults,
                   orders>>

(* The tail: what was stored behind the range meanwhile, under the mutex.   *)
CatchUp ==
    /\ worker.pc = "replay" /\ Running /\ job.cursor = job.end
    /\ draft' = draft \cup {m \in stored : m > job.end}
    /\ worker' = [worker EXCEPT !.pc = "finish", !.at = Larger(job.end, Latest)]
    /\ UNCHANGED <<stored, queue, evaluated, count, job, rolled, swept, task, late, faults,
                   orders>>

Adopted == [m \in Readings |-> IF m \in draft THEN 1 ELSE 0]

(* Fault: the run's result replaces the live state whoever has written.     *)
FinishUnchecked ==
    /\ worker.pc = "finish"
    /\ count' = Adopted
    /\ job' = [job EXCEPT !.st = "completed", !.phase = "rollups", !.to = worker.at,
                          !.cursor = worker.at]
    /\ worker' = [worker EXCEPT !.pc = "rollups", !.at = job.from]
    /\ UNCHANGED <<stored, queue, evaluated, draft, rolled, swept, task, late, faults, orders>>

(* finishReplay                                                             *)
Finish ==
    /\ worker.pc = "finish" /\ worker.fresh
    /\ count' = Adopted
    /\ job' = [job EXCEPT !.st = "completed", !.phase = "rollups", !.to = worker.at,
                          !.cursor = worker.at]
    /\ worker' = [worker EXCEPT !.pc = "rollups", !.at = job.from]
    /\ UNCHANGED <<stored, queue, evaluated, draft, rolled, swept, task, late, faults, orders>>

RollPcs == {"roll", "rollups"}

(* Fault: the transactions of the rollups ask for nothing.                  *)
RollUnguarded ==
    /\ worker.pc \in RollPcs /\ worker.at <= job.to
    /\ rolled' = rolled \cup ({worker.at} \cap stored)
    /\ worker' = [worker EXCEPT !.at = @ + 1]
    /\ UNCHANGED <<stored, queue, evaluated, count, job, draft, swept, task, late, faults, orders>>

(* BuildRollupsGuarded, a bucket; still under the mutex in the attempt that *)
(* has replayed, without it in a later one.                                 *)
Roll ==
    /\ worker.pc \in RollPcs /\ worker.fresh /\ worker.at <= job.to
    /\ rolled' = rolled \cup ({worker.at} \cap stored)
    /\ worker' = [worker EXCEPT !.at = @ + 1]
    /\ UNCHANGED <<stored, queue, evaluated, count, job, draft, swept, task, late, faults, orders>>
RollDone ==
    /\ worker.pc \in RollPcs /\ worker.fresh /\ worker.at > job.to
    /\ job' = [job EXCEPT !.st = "completed", !.phase = "completed"]
    /\ Return(AfterSuccess)
    /\ UNCHANGED <<stored, queue, evaluated, count, draft, rolled, swept, late, faults, orders>>

(* The worker finds that the job has moved on and leaves, without an error  *)
(* everywhere but in prepareReplay.                                         *)
Interrupted ==
    \/ worker.pc = "replay" /\ ~Running
    \/ worker.pc \in {"cursor", "finish"} \cup RollPcs /\ ~worker.fresh
Leave ==
    /\ Interrupted
    /\ Return(AfterSuccess)
    /\ UNCHANGED <<stored, queue, evaluated, count, job, draft, rolled, swept, late, faults,
                   orders>>
Conflict == worker.pc = "prepare" /\ ~worker.fresh /\ Failed(UNCHANGED faults)

(* A step fails; or the attempt runs out of time, or its process is killed  *)
(* and the task is rescued.                                                 *)
StepFails == worker.pc # "idle" /\ Failed(Fault)
Abandoned ==
    /\ worker.pc # "idle" /\ Fault
    /\ Return(AfterFailure)
    /\ UNCHANGED <<stored, queue, evaluated, count, job, draft, rolled, swept, late, orders>>

-----------------------------------------------------------------------------
(* ChangeTask, by an operator, on the current task.                         *)
Cancel ==
    /\ Order
    /\ task.st \in {"available", "retryable", "running"} /\ ~task.cancelled
    /\ IF job.st # "completed" \/ job.phase = "rollups"
       THEN job' = [job EXCEPT !.st = "cancelled"] /\ worker' = Overtaken
       ELSE UNCHANGED <<job, worker>>
    /\ task' = [task EXCEPT !.cancelled = TRUE,
                            !.st = IF @ = "running" THEN @ ELSE "cancelled"]
    /\ UNCHANGED <<stored, queue, evaluated, count, draft, rolled, swept, late, faults>>
Retry ==
    /\ Order
    /\ task.st \in {"discarded", "cancelled", "retryable"}
    /\ job.st = "completed" => job.phase = "rollups"
    /\ job' = [job EXCEPT !.st = "running"]
    /\ worker' = Overtaken
    /\ task' = [NewTask EXCEPT !.attempt = Smaller(task.attempt, MaxAttempts - 1)]
    /\ UNCHANGED <<stored, queue, evaluated, count, draft, rolled, swept, late, faults>>

(* Application.retention: the hourly pass over what is closed.              *)
Sweep ==
    /\ swept + 1 \in Readings
    /\ swept' = swept + 1
    /\ rolled' = rolled \cup ({swept + 1} \cap stored)
    /\ UNCHANGED <<stored, queue, evaluated, count, job, draft, task, worker, late, faults,
                   orders>>

-----------------------------------------------------------------------------
Init ==
    /\ stored = {} /\ queue = {} /\ evaluated = {} /\ draft = {} /\ rolled = {} /\ late = {}
    /\ count = [m \in Readings |-> 0]
    /\ job = NoJob
    /\ task = [NewTask EXCEPT !.st = "none"]
    /\ worker = Idle
    /\ swept = 0 /\ faults = 0 /\ orders = 0

WorkerStep ==
    Work \/ Prepare \/ Replay \/ Advance \/ CatchUp \/ Finish \/ Roll \/ RollDone \/ Leave
        \/ Conflict

Next ==
    \/ \E m \in Readings : Ingest(m) \/ Evaluate(m) \/ Defer(m)
    \/ WorkerStep \/ StepFails \/ Abandoned
    \/ Cancel \/ Retry \/ Sweep

(* The workers of the application and of River run.                         *)
Fairness == WF_vars(WorkerStep) /\ \A m \in Readings : WF_vars(Evaluate(m))

Spec == Init /\ [][Next]_vars /\ Fairness

-----------------------------------------------------------------------------
TypeOK ==
    /\ stored \cup queue \cup evaluated \cup draft \cup rolled \cup late \subseteq Readings
    /\ count \in [Readings -> Nat]
    /\ job.st \in {"none", "pending", "running", "failed", "cancelled", "completed"}
    /\ job.phase \in {"", "replaying", "rollups", "completed"}
    /\ job.cursor <= Larger(job.end, job.to)
    /\ task.attempt <= MaxAttempts

(* No accepted reading is forgotten: it is counted, waits for its live      *)
(* evaluation, or the job has still to replay (the version checks of        *)
(* Recompute against the transactions of Ingest, Defer and ChangeTask).     *)
NothingForgotten ==
    \A m \in stored : \/ count[m] > 0 \/ m \in queue
                      \/ job.st \notin {"none", "completed"}

(* Once the job is cancelled or belongs to a new generation, the old worker *)
(* changes neither the state of the run nor the rollups (the guards in      *)
(* every transaction of a replay).                                          *)
WritesOnlyOwn ==
    (~worker.own \/ job.st = "cancelled") /\ worker.pc # "idle" /\ swept' = swept
      => draft' = draft /\ rolled' = rolled
StoppedWritesNothing == [][WritesOnlyOwn]_vars

(* A late reading is counted in the end, through failures, killed attempts  *)
(* and other late readings, unless its job is stopped for good.             *)
Counted(m) == count[m] > 0 \/ task.st \in {"cancelled", "discarded"}
LateIsCounted == \A m \in Readings : m \in late ~> Counted(m)

(* "Counting is deduplicated by stable event identity": no reading counts   *)
(* twice.                                                                   *)
CountedOnce == \A m \in Readings : count[m] <= 1

(* A new generation restarts with all newly committed inputs: the minute of *)
(* a late reading is rebuilt, or the job has still to do it.                *)
RollupsRestart ==
    \A m \in late : \/ m \in rolled \/ m > swept
                    \/ /\ m \in job.from .. job.to
                       /\ job.st = "completed" => job.phase = "rollups"
=============================================================================
