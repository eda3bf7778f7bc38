----------------------------- MODULE ReleaseAgent -----------------------------
(***************************************************************************)
(* The agent that runs a node's program from fixed releases: it asks the   *)
(* cloud for the release of its node, prepares it, stops the old program,  *)
(* starts the new one and reports.  What it runs is kept in active.json,   *)
(* what it is switching to in pending.json; the program outlives the       *)
(* agent, and an agent that starts finds its program by these files.       *)
(***************************************************************************)
EXTENDS Naturals, FiniteSets

CONSTANTS
    Releases,
    MaxGeneration,  \* bound: assignments
    MaxFaults,      \* bound: ends of agent and program, failed starts and calls
    NotedOnly       \* the agent ends without notice only while a file names
                    \* each program that runs

VARIABLES
    desired,        \* the assignment of the node: generation and release
    told,           \* the last report the cloud has taken for it
    halted,         \* its deployment has failed: nothing more is offered
    procs,          \* programs that run: process, release, whether it answers
    next,           \* the next process identity
    pc, child,      \* the agent: where it is, the process it has started
    active,         \* active.json (State)
    pending,        \* pending.json (Pending)
    status,         \* restore-status.json: the assignment that could not start
    failure,        \* restoreFailure: its generation
    fetched,        \* the assignment the agent is working on
    faults

vars == <<desired, told, halted, procs, next, pc, child, active, pending, status, failure,
          fetched, faults>>
cloud == <<desired, told, halted>>
files == <<active, pending, status>>

NoRelease == [generation |-> 0, release |-> "none", pid |-> 0]
Up == pc \notin {"down"}
Alive(pid) == \E p \in procs : p.pid = pid
Answers == {p \in procs : p.ready}
Fault == faults < MaxFaults /\ faults' = faults + 1

-----------------------------------------------------------------------------
(* The cloud.  A new deployment, or a retry, is a new generation.           *)
Assign(r) ==
    /\ desired.generation < MaxGeneration
    /\ desired' = [generation |-> desired.generation + 1, release |-> r]
    /\ told' = [state |-> "none", of |-> 0] /\ halted' = FALSE
    /\ UNCHANGED <<procs, next, pc, child, files, failure, fetched, faults>>

(* A report for another generation or to a failed deployment is refused.  A *)
(* failure stops a deployment that has not completed.                       *)
Reported(d, state, of) ==
    IF d.generation # desired.generation \/ halted THEN UNCHANGED <<told, halted>>
    ELSE /\ told' = [state |-> state, of |-> of]
         /\ IF state # "failed" THEN UNCHANGED halted
            ELSE halted' \in (IF told.state = "none" THEN {TRUE} ELSE BOOLEAN)

-----------------------------------------------------------------------------
(* Programs: one answers once it has opened the release and listens, which  *)
(* one process at a time can.                                               *)
Spawn(release) ==
    /\ procs' = procs \cup {[pid |-> next, release |-> release, ready |-> FALSE]}
    /\ child' = next /\ next' = next + 1

Ready(p) ==
    /\ p \in procs /\ Answers = {}
    /\ procs' = (procs \ {p}) \cup {[p EXCEPT !.ready = TRUE]}
    /\ UNCHANGED <<cloud, next, pc, child, files, failure, fetched, faults>>

Dies(p) ==
    /\ p \in procs /\ Fault
    /\ procs' = procs \ {p}
    /\ UNCHANGED <<cloud, next, pc, child, files, failure, fetched>>

(* A second process cannot listen and ends.                                 *)
Collides(p) ==
    /\ p \in procs /\ ~p.ready /\ Answers # {}
    /\ procs' = procs \ {p}
    /\ UNCHANGED <<cloud, next, pc, child, files, failure, fetched, faults>>

-----------------------------------------------------------------------------
(* Restore, when the agent starts.                                          *)
Started ==
    /\ pc = "down" /\ pc' = "restore"
    /\ child' = 0 /\ failure' = 0
    /\ UNCHANGED <<cloud, procs, next, files, fetched, faults>>

(* A program that answers is the pending one, the active one, or unknown.   *)
IsPending(p) == p.pid = pending.pid /\ p.release = pending.release
IsActive(p) == p.pid = active.pid /\ p.release = active.release

Recognise(p) ==
    /\ pc = "restore" /\ p \in Answers
    /\ IF IsPending(p) THEN pc' = "idle" /\ active' = pending /\ pending' = NoRelease
       ELSE /\ pc' = IF IsActive(p) THEN "idle" ELSE "down"
            /\ UNCHANGED <<active, pending>>
    /\ UNCHANGED <<cloud, procs, next, child, status, failure, fetched, faults>>

(* With none that answers the agent waits for the pending one, and starts   *)
(* the active release, unless that has already failed.                      *)
RestoreStart ==
    /\ pc = "restore" /\ Answers = {} /\ ~Alive(pending.pid)
    /\ IF active = NoRelease
       THEN pc' = "idle" /\ UNCHANGED <<procs, child, next, failure>>
       ELSE IF Alive(active.pid)
       THEN pc' = "down" /\ UNCHANGED <<procs, child, next, failure>>
       ELSE IF status = active.generation
       THEN pc' = "idle" /\ failure' = status /\ UNCHANGED <<procs, child, next>>
       ELSE pc' = "restoring" /\ Spawn(active.release) /\ UNCHANGED failure
    /\ UNCHANGED <<cloud, files, fetched, faults>>

(* start returns when the program is ready or has ended, or after twenty    *)
(* seconds: then the program is told to end, and is not waited for.         *)
IsReady == \E p \in Answers : p.pid = child
NotStarted == IF Alive(child) THEN Fault ELSE UNCHANGED faults

Restored ==
    /\ pc = "restoring" /\ pc' = "idle"
    /\ \/ /\ IsReady
          /\ active' = [active EXCEPT !.pid = child] /\ pending' = NoRelease
          /\ UNCHANGED <<status, failure, faults>>
       \/ /\ NotStarted
          /\ status' = active.generation /\ failure' = active.generation
          /\ UNCHANGED <<active, pending>>
    /\ UNCHANGED <<cloud, procs, next, child, fetched>>

-----------------------------------------------------------------------------
(* Tick.  A call to the cloud may fail, which ends the tick.                *)
Running == \E p \in Answers : p.release = desired.release

AwaitsRelease == failure # 0 /\ desired.generation = active.generation

Fetch ==
    /\ pc = "idle" /\ ~halted /\ desired.generation > 0
    /\ fetched' = desired
    /\ pc' = IF AwaitsRelease THEN "failing" ELSE IF Running THEN "verify" ELSE "prepare"
    /\ UNCHANGED <<cloud, procs, next, child, files, failure, faults>>

Failing ==
    /\ pc = "failing" /\ pc' = "idle"
    /\ Reported(fetched, "failed", failure)
    /\ UNCHANGED <<desired, procs, next, child, files, failure, fetched, faults>>

(* The desired release runs already: reported, and taken over.              *)
Verify ==
    /\ pc = "verify" /\ pc' = "idle"
    /\ \/ Fault /\ UNCHANGED <<told, halted, active, pending>>
       \/ /\ UNCHANGED faults
          /\ \E p \in Answers : p.release = fetched.release
             /\ Reported(fetched, "running", fetched.generation)
             /\ active' = [generation |-> fetched.generation, release |-> p.release,
                           pid |-> p.pid]
             /\ pending' = NoRelease
       \/ /\ ~\E p \in Answers : p.release = fetched.release
          /\ UNCHANGED <<told, halted, active, pending, faults>>
    /\ UNCHANGED <<desired, procs, next, child, status, failure, fetched>>

Prepare ==
    /\ pc = "prepare"
    /\ \/ Fault /\ pc' = "idle" /\ UNCHANGED pending
       \/ /\ UNCHANGED faults
          /\ IF fetched.generation # desired.generation \/ halted
             THEN pc' = "idle" /\ UNCHANGED pending
             ELSE /\ pc' = "stopping"
                  /\ pending' = [generation |-> fetched.generation,
                                 release |-> fetched.release, pid |-> 0]
    /\ UNCHANGED <<cloud, procs, next, child, active, status, failure, fetched>>

(* Fault: the old program is not waited for.                                *)
NotWaited == UNCHANGED procs

(* stop: the program that answers, or else the one the agent has started.   *)
(* One that answers and is not the active one is left alone; one that does  *)
(* not end in ten seconds fails the switch.                                 *)
Stopped == procs' = IF Answers = {} THEN {p \in procs : p.pid # child} ELSE procs \ Answers

Stop ==
    /\ pc = "stopping"
    /\ \/ /\ \/ (\E p \in Answers : active.pid # 0 /\ p.pid # active.pid) /\ UNCHANGED faults
             \/ Answers = {} /\ ~Alive(child) /\ Alive(active.pid) /\ UNCHANGED faults
             \/ (Answers # {} \/ Alive(child)) /\ Fault
          /\ pc' = "idle" /\ UNCHANGED procs
          /\ Reported(fetched, "failed", fetched.generation)
       \/ /\ \A p \in Answers : active.pid # 0 => p.pid = active.pid
          /\ Answers = {} => Alive(child) \/ ~Alive(active.pid)
          /\ pc' = "starting" /\ Stopped /\ UNCHANGED <<told, halted, faults>>
    /\ UNCHANGED <<desired, next, child, files, failure, fetched>>

Start ==
    /\ pc = "starting" /\ pc' = "spawned"
    /\ Spawn(fetched.release)
    /\ UNCHANGED <<cloud, files, failure, fetched, faults>>

(* The process is written down once it runs.                                *)
WritePending ==
    /\ pc = "spawned" /\ pc' = "waiting"
    /\ pending' = [pending EXCEPT !.pid = child]
    /\ UNCHANGED <<cloud, procs, next, child, active, status, failure, fetched, faults>>

Wait ==
    /\ pc = "waiting"
    /\ \/ /\ IsReady /\ pc' = "report"
          /\ active' = pending /\ pending' = NoRelease
          /\ UNCHANGED <<told, halted, faults>>
       \/ /\ NotStarted /\ pc' = "idle"
          /\ Reported(fetched, "failed", fetched.generation)
          /\ UNCHANGED <<active, pending>>
    /\ UNCHANGED <<desired, procs, next, child, status, failure, fetched>>

Report ==
    /\ pc = "report" /\ pc' = "idle"
    /\ \/ Fault /\ UNCHANGED <<told, halted, failure>>
       \/ /\ Reported(fetched, "running", fetched.generation)
          /\ failure' = 0 /\ UNCHANGED faults
    /\ UNCHANGED <<desired, procs, next, child, files, fetched>>

(* The agent ends without notice; its program runs on.  No file names it    *)
(* between its start and the note in pending.json, or after Restore has     *)
(* started it until it is ready, or once it was given up and the next       *)
(* release is prepared.                                                     *)
AllNoted == \A p \in procs : p.pid \in {active.pid, pending.pid}

Crash ==
    /\ Up /\ Fault
    /\ NotedOnly => AllNoted
    /\ pc' = "down"
    /\ UNCHANGED <<cloud, procs, next, child, files, failure, fetched>>

-----------------------------------------------------------------------------
Init ==
    /\ desired = [generation |-> 0, release |-> "none"]
    /\ told = [state |-> "none", of |-> 0] /\ halted = FALSE
    /\ procs = {} /\ next = 1 /\ pc = "down" /\ child = 0
    /\ active = NoRelease /\ pending = NoRelease /\ status = 0 /\ failure = 0
    /\ fetched = desired /\ faults = 0

Agent ==
    \/ Started \/ (\E p \in procs : Recognise(p)) \/ RestoreStart \/ Restored
    \/ Fetch \/ Failing \/ Verify \/ Prepare \/ Stop \/ Start \/ WritePending \/ Wait \/ Report
Program == \E p \in procs : Ready(p) \/ Collides(p)

Next ==
    \/ \E r \in Releases : Assign(r)
    \/ Agent \/ Program
    \/ \E p \in procs : Dies(p)
    \/ Crash

(* The service manager starts the agent again, the agent polls, and a       *)
(* program that lives comes up.                                             *)
Fairness == WF_vars(Agent) /\ WF_vars(Program)
Spec == Init /\ [][Next]_vars
FairSpec == Spec /\ Fairness

-----------------------------------------------------------------------------
TypeOK ==
    /\ Cardinality(Answers) <= 1 /\ child < next
    /\ active.generation <= desired.generation /\ fetched.generation <= desired.generation
    /\ \A p \in procs : p.pid < next
    /\ told.of <= desired.generation /\ (active = NoRelease => status = 0)

(* The node's database has one program at a time: a new one is started only *)
(* when the old one has gone (stop, Restore).                               *)
OneProgram == Cardinality(procs) <= 1

(* A failure reported for an assignment is one of that assignment (Tick,    *)
(* restoreFailure).                                                         *)
FailureIsItsOwn == told.state = "failed" => told.of = desired.generation

(* The cloud learns in the end that what it wants runs, or that it failed.  *)
Settled ==
    \/ told.state = "failed"
    \/ told.state = "running" /\ \E p \in procs : p.release = desired.release
    \/ faults = MaxFaults /\ procs = {}
Converges == desired.generation > 0 ~> Settled
=============================================================================
