--------------------------- MODULE ShadowAnalysis ---------------------------
(***************************************************************************)
(* A shadow candidate: a rule that is evaluated beside the one in force    *)
(* (application/shadow.go, application/history.go, store/history.go).  Two *)
(* consumers hand each observation to it; each new one makes an analysis   *)
(* run that goes on from the state of the run before, or, when it is late  *)
(* or a revision, from the beginning.  The runs are tasks that a worker    *)
(* carries out and a person may cancel and retry (tasks/history.go,        *)
(* store/tasks.go).                                                        *)
(***************************************************************************)
EXTENDS Naturals, Sequences, SequencesExt, FiniteSets

CONSTANTS
    Points,         \* the logical identities of observations, in event time
    DeviceOf,       \* DeviceOf[p]: the device of point p
    Revised,        \* points of which a second revision comes
    Observers,      \* the consumers that hand observations over
    Budget,         \* historymodel.MaxPoints
    MaxEpochs,      \* bound: how often the candidate is enabled
    MaxRuns,        \* bound: runs of all epochs
    MaxChanges,     \* bound: tasks cancelled or retried, and stops
    MaxFaults       \* bound: failed evaluations and crashes

VARIABLES
    cand,       \* the document "shadow_candidate"
    runs,       \* the documents "analysis_run" in the order of their creation
    job,        \* of each run, the job of its task in River
    work,       \* the worker of the queue "history_analysis"
    observer,   \* of each consumer, the observation it hands over
    changes, faults

vars == <<cand, runs, job, work, observer, changes, faults>>

ShadowConstants == Points \subseteq Nat /\ Revised \subseteq Points

Inputs == [point : Points, rev : {1}] \cup [point : Revised, rev : {2}]
NoInput == [point |-> 0, rev |-> 0]

(* shadowBefore and sortReplay: by event time; of two revisions of a point  *)
(* the ids decide, and here the later revision has the greater one.         *)
Before(a, b) == a.point < b.point \/ (a.point = b.point /\ a.rev < b.rev)

(* A state holds, of each device evaluated, the inputs that it has counted. *)
NoState == <<>>
NoWork == [pc |-> "idle", run |-> 0]
NoObservation == [pc |-> "idle", version |-> 0, run |-> NoWork, count |-> 0, last |-> NoInput]

Init ==
    /\ cand = [status |-> "none", epoch |-> 0, version |-> 0, gen |-> 0, last |-> NoInput,
               count |-> 0, completed |-> 0]
    /\ runs = <<>> /\ job = <<>>
    /\ work = NoWork
    /\ observer = [o \in Observers |-> NoObservation]
    /\ changes = 0 /\ faults = 0

-----------------------------------------------------------------------------
(* A person enables the candidate, again or in place of the former one, and *)
(* stops it.                                                                *)
Enable ==
    /\ cand.epoch < MaxEpochs
    /\ cand' = [status |-> "active", epoch |-> cand.epoch + 1, version |-> cand.version + 1,
                gen |-> 0, last |-> NoInput, count |-> 0, completed |-> 0]
    /\ UNCHANGED <<runs, job, work, observer, changes, faults>>

Disable ==
    /\ cand.status = "active" /\ changes < MaxChanges
    /\ changes' = changes + 1
    /\ cand' = [cand EXCEPT !.status = "stopped", !.version = @ + 1]
    /\ UNCHANGED <<runs, job, work, observer, faults>>

-----------------------------------------------------------------------------
(* sf_shadow_inputs: what was captured in an epoch, and the inputs in force.*)
Captured(rs, e) == {rs[r].input : r \in {r \in DOMAIN rs : rs[r].epoch = e}}
Effective(S) == {i \in S : \A j \in S : j.point = i.point => j.rev <= i.rev}
Sequence(S) == SetToSortSeq(Effective(S), Before)

Correction(i) == cand.last # NoInput /\ (i.rev > 1 \/ ~Before(cand.last, i))

(* Observe reads the candidate, goes on unless it knows the input, and makes*)
(* the run ...                                                              *)
NewRun(i) ==
    LET from == IF Correction(i) \/ cand.gen = 0 THEN 0 ELSE Len(runs) IN
    [epoch |-> cand.epoch, gen |-> cand.gen + 1, input |-> i, parent |-> from,
     points |-> IF Correction(i) THEN Sequence(Captured(runs, cand.epoch) \cup {i}) ELSE <<i>>,
     status |-> "pending", resolved |-> from = 0,
     first |-> NoState, cursor |-> 0, final |-> NoState]

Observe(o, i) ==
    /\ observer[o].pc = "idle"
    /\ cand.status = "active" /\ i \notin Captured(runs, cand.epoch)
    /\ Len(runs) < MaxRuns
    /\ observer' = [observer EXCEPT ![o] =
            [pc |-> "capture", version |-> cand.version, run |-> NewRun(i),
             count |-> IF Correction(i) THEN Len(NewRun(i).points) ELSE cand.count + 1,
             last |-> IF cand.last = NoInput \/ Before(cand.last, i) THEN i ELSE cand.last]]
    /\ UNCHANGED <<cand, runs, job, work, changes, faults>>

(* ... and CaptureShadow stores it with its task, unless the candidate was  *)
(* replaced or stopped, another has stored it, or the candidate has changed;*)
(* then the observation is handed over again.                               *)
SameVersion(o) == observer[o].version = cand.version
Capture(o) ==
    LET h == observer[o]  run == h.run IN
    /\ h.pc = "capture"
    /\ observer' = [observer EXCEPT ![o] = NoObservation]
    /\ IF /\ cand.status = "active" /\ cand.epoch = run.epoch
          /\ run.input \notin Captured(runs, cand.epoch) /\ SameVersion(o) /\ Len(runs) < MaxRuns
       THEN IF h.count > Budget
            THEN /\ cand' = [cand EXCEPT !.status = "budget_exceeded", !.version = @ + 1]
                 /\ UNCHANGED <<runs, job>>
            ELSE /\ runs' = Append(runs, run)
                 /\ job' = Append(job, [state |-> "available", cancelling |-> FALSE])
                 /\ cand' = [cand EXCEPT !.gen = @ + 1, !.version = @ + 1,
                                         !.count = h.count, !.last = h.last]
       ELSE UNCHANGED <<cand, runs, job>>
    /\ UNCHANGED <<work, changes, faults>>

-----------------------------------------------------------------------------
(* River (external) gives the worker a job; a job asked to be cancelled is  *)
(* ended.                                                                   *)
Fetch(r) ==
    /\ work.pc = "idle" /\ job[r].state = "available"
    /\ work' = [pc |-> "begin", run |-> r]
    /\ job' = [job EXCEPT ![r].state = "running"]
    /\ UNCHANGED <<cand, runs, observer, changes, faults>>

(* The end of an attempt: a job that is to run again is cancelled instead   *)
(* when it has been asked to be.                                            *)
Return(r, state) ==
    /\ work' = NoWork
    /\ job' = [job EXCEPT ![r].state =
            IF state = "available" /\ job[r].cancelling THEN "cancelled" ELSE state]

(* BeginAnalysis: a run waits for the one before, and takes its state.      *)
BeginAnalysis ==
    LET r == work.run  run == runs[r] IN
    /\ work.pc = "begin"
    /\ CASE run.status = "cancelled" -> Return(r, "cancelled") /\ UNCHANGED runs
         [] run.status = "completed" -> Return(r, "completed") /\ UNCHANGED runs
         [] OTHER ->
              IF ~run.resolved /\ runs[run.parent].status # "completed"
              THEN /\ runs' = [runs EXCEPT ![r].status = "waiting_parent"]
                   /\ Return(r, "available")
              ELSE /\ runs' = [runs EXCEPT ![r] =
                          [run EXCEPT !.status = "running", !.resolved = TRUE,
                              !.first = IF run.resolved THEN @ ELSE runs[run.parent].final]]
                   /\ work' = [work EXCEPT !.pc = "step"]
                   /\ UNCHANGED job
    /\ UNCHANGED <<cand, observer, changes, faults>>

(* AnalysisStep: the device of the input goes on from its state in this run,*)
(* or else from the one that the run began with.                            *)
StateOf(s, d) == IF d \in DOMAIN s THEN s[d] ELSE <<>>
After(run) ==
    LET i == run.points[run.cursor + 1]
        d == DeviceOf[i.point]
        old == IF d \in DOMAIN run.final THEN run.final[d] ELSE StateOf(run.first, d)
    IN [e \in DOMAIN run.final \cup {d} |-> IF e = d THEN Append(old, i) ELSE run.final[e]]

(* CommitAnalysisStep stores a step, unless the run was cancelled; the last *)
(* one completes the run.                                                   *)
MayCommit(run) == run.status = "running"
CommitStep ==
    LET r == work.run  run == runs[r] IN
    /\ work.pc = "step" /\ run.cursor < Len(run.points)
    /\ IF MayCommit(run)
       THEN LET end == run.cursor + 1 = Len(run.points) IN
            /\ runs' = [runs EXCEPT ![r] = [run EXCEPT !.cursor = @ + 1, !.final = After(run),
                              !.status = IF end THEN "completed" ELSE @]]
            /\ cand' = IF end /\ cand.epoch = run.epoch /\ run.gen > cand.completed
                       THEN [cand EXCEPT !.completed = run.gen, !.version = @ + 1]
                       ELSE cand
            /\ UNCHANGED <<work, job>>
       ELSE Return(r, "cancelled") /\ UNCHANGED <<cand, runs>>
    /\ UNCHANGED <<observer, changes, faults>>

Finish ==
    /\ work.pc = "step" /\ runs[work.run].cursor = Len(runs[work.run].points)
    /\ Return(work.run, "completed")
    /\ UNCHANGED <<cand, runs, observer, changes, faults>>

(* An evaluation fails, or runs out of time; Execute then notes it ...      *)
Fail ==
    /\ work.pc \in {"begin", "step"} /\ faults < MaxFaults
    /\ faults' = faults + 1
    /\ work' = [work EXCEPT !.pc = "fail"]
    /\ UNCHANGED <<cand, runs, job, observer, changes>>

(* ... unless the run has ended, and River tries the job again.             *)
FailAnalysis ==
    LET r == work.run IN
    /\ work.pc = "fail"
    /\ runs' = IF runs[r].status \in {"completed", "cancelled"} THEN runs
               ELSE [runs EXCEPT ![r].status = "failed"]
    /\ Return(r, "available")
    /\ UNCHANGED <<cand, observer, changes, faults>>

(* A crash ends everything in progress; River rescues the job.              *)
Crash ==
    /\ faults < MaxFaults /\ faults' = faults + 1
    /\ observer' = [o \in Observers |-> NoObservation]
    /\ IF work.pc = "idle" THEN UNCHANGED <<work, job>> ELSE Return(work.run, "available")
    /\ UNCHANGED <<cand, runs, changes>>

-----------------------------------------------------------------------------
(* ChangeTask: the run and its job change together.                         *)
CancelTask(r) ==
    /\ job[r].state \in {"available", "running"} /\ ~job[r].cancelling
    /\ runs[r].status # "completed" /\ changes < MaxChanges
    /\ changes' = changes + 1
    /\ runs' = [runs EXCEPT ![r].status = "cancelled"]
    /\ job' = [job EXCEPT ![r] = [state |-> IF @.state = "running" THEN "running" ELSE "cancelled",
                                  cancelling |-> TRUE]]
    /\ UNCHANGED <<cand, work, observer, faults>>

RetryTask(r) ==
    /\ job[r].state = "cancelled" \/ (job[r].state = "available" /\ runs[r].status = "failed")
    /\ runs[r].status # "completed" /\ changes < MaxChanges
    /\ changes' = changes + 1
    /\ runs' = [runs EXCEPT ![r].status = "pending"]
    /\ job' = [job EXCEPT ![r] = [state |-> "available", cancelling |-> FALSE]]
    /\ UNCHANGED <<cand, work, observer, faults>>

Next ==
    \/ Enable \/ Disable
    \/ \E o \in Observers : Capture(o) \/ \E i \in Inputs : Observe(o, i)
    \/ BeginAnalysis \/ CommitStep \/ Finish \/ Fail \/ FailAnalysis \/ Crash
    \/ \E r \in DOMAIN runs : Fetch(r) \/ CancelTask(r) \/ RetryTask(r)

Spec == Init /\ [][Next]_vars
-----------------------------------------------------------------------------
TypeOK ==
    /\ cand.status \in {"none", "active", "stopped", "budget_exceeded"}
    /\ cand.epoch \in 0..MaxEpochs /\ cand.completed <= cand.gen
    /\ \A r \in DOMAIN runs :
          /\ runs[r].status \in {"pending", "waiting_parent", "running", "failed", "cancelled",
                                 "completed"}
          /\ runs[r].parent \in 0..(r - 1) /\ runs[r].cursor \in 0..Len(runs[r].points)
          /\ job[r].state \in {"available", "running", "cancelled", "completed"}
    /\ work.pc \in {"idle", "begin", "step", "fail"} /\ work.run \in 0..Len(runs)
    /\ changes \in 0..MaxChanges /\ faults \in 0..MaxFaults

(* A completed run shows what an evaluation of all inputs of its epoch, up  *)
(* to its own, in the order of their time and in their latest revision,     *)
(* comes to: each is counted once, whatever was late, repeated, cancelled   *)
(* or interrupted.  This is the state of the devices that the run evaluated.*)
FollowsInputs ==
    \A r \in DOMAIN runs : runs[r].status = "completed" =>
        \A d \in DOMAIN runs[r].final :
            runs[r].final[d] =
                SelectSeq(Sequence({runs[q].input : q \in {q \in 1..r : runs[q].epoch = runs[r].epoch}}),
                          LAMBDA i : DeviceOf[i.point] = d)

(* The runs of an epoch are numbered without a gap, and no input of an epoch*)
(* has two of them.                                                         *)
OneRunEach ==
    \A q, r \in DOMAIN runs : q < r /\ runs[q].epoch = runs[r].epoch =>
        runs[q].gen < runs[r].gen /\ runs[q].input # runs[r].input

(* A cancelled run keeps what it has and takes no step until it is retried. *)
CancelledStands ==
    \A r \in DOMAIN runs :
        /\ runs[r].status = "cancelled" => runs'[r].cursor = runs[r].cursor
        /\ runs[r].status = "completed" => runs'[r] = runs[r]
=============================================================================
