------------------------ MODULE WorkloadConfiguration ------------------------
(***************************************************************************)
(* The configuration of a node: the configuration center keeps the desired *)
(* version of each parameter, sends it on a stream to the program of the   *)
(* node (configcenter/workload_http.go), and records what the program says *)
(* it runs (Service.ReportConfiguration).  The program (Subscriber) stores *)
(* a version, has it take effect and reports it; a static parameter takes  *)
(* effect at the start of the process only.                                *)
(*                                                                         *)
(* The sequence numbers of the reports of a process appear as their order: *)
(* only a report that is under way longer than its caller waits can find a *)
(* higher number recorded.                                                 *)
(***************************************************************************)
EXTENDS Naturals, Sequences

CONSTANTS
    Order,          \* the parameters, a sequence without repetition
    Static,         \* those that take effect at a start
    MaxVersions,    \* bound: versions of a parameter
    MaxRevisions,   \* bound: changes of the identity
    StreamSize,     \* bound: snapshots sent and not yet read
    MaxFaults,      \* bound: crashes, lost calls and failed applications
    None            \* no snapshot, no late report

Keys == {Order[i] : i \in DOMAIN Order}
Versions == 0 .. MaxVersions

VARIABLES
    desired,    \* parameter documents of the center
    ident,      \* the identity at the center: its revision and instance epoch
    target,     \* configuration_target: what may be reported, by which epoch
    report,     \* sf_configuration_reports
    doc,        \* parameter documents of the node
    runtime,    \* configuration_runtime of the node
    memory,     \* the values in effect in the process
    proc,       \* the Subscriber
    stream,     \* the connection, its principal and what was sent
    late,       \* a report whose caller no longer waits
    faults

vars == <<desired, ident, target, report, doc, runtime, memory, proc, stream, late, faults>>
center == <<desired, ident>>
disk == <<doc, runtime>>

NoStream == [open |-> FALSE, revision |-> 0, queue |-> <<>>, last |-> None]
NewProcess == [pc |-> "start", epoch |-> 0, started |-> FALSE, startup |-> FALSE,
               apply |-> None, at |-> 1, state |-> "", old |-> 0]
Changed == [k \in Keys |-> 0]   \* event: identity_changed

TypeOK ==
    /\ desired \in [Keys -> Versions \ {0}]
    /\ ident \in [revision : 0 .. MaxRevisions, epoch : 0 .. MaxFaults + 1]
    /\ target \in [Keys -> [version : Versions, epoch : 0 .. MaxFaults + 1]]
    /\ report \in [Keys -> [epoch : 0 .. MaxFaults + 1, desired : Versions,
                            running : Versions,
                            state : {"", "running", "failed", "restart_required"}]]
    /\ doc \in [Keys -> Versions] /\ runtime \in [Keys -> Versions]
    /\ memory \in [Keys -> Versions]
    /\ proc.pc \in {"start", "idle", "apply", "store", "report"}
    /\ proc.at \in 1 .. Len(Order) + 1 /\ proc.old \in Versions
    /\ stream.queue \in Seq([Keys -> Versions]) /\ Len(stream.queue) <= StreamSize
    /\ late = None \/ late.key \in Keys
    /\ faults \in 0 .. MaxFaults

Init ==
    /\ desired = [k \in Keys |-> 1]
    /\ ident = [revision |-> 0, epoch |-> 0]
    /\ target = [k \in Keys |-> [version |-> 0, epoch |-> 0]]
    /\ report = [k \in Keys |-> [epoch |-> 0, desired |-> 0, running |-> 0, state |-> ""]]
    /\ doc = [k \in Keys |-> 0] /\ runtime = [k \in Keys |-> 0]
    /\ memory = [k \in Keys |-> 0]
    /\ proc = NewProcess /\ stream = NoStream /\ late = None /\ faults = 0

Fault == faults < MaxFaults /\ faults' = faults + 1
Key == Order[proc.at]
Want == proc.apply[Key]

-----------------------------------------------------------------------------
(* The center.                                                              *)

(* Service.Put                                                              *)
Put(k) ==
    /\ desired[k] < MaxVersions
    /\ desired' = [desired EXCEPT ![k] = @ + 1]
    /\ UNCHANGED <<ident, target, report, disk, memory, proc, stream, late, faults>>

(* PutTx: the scope of the identity changes, its credential stays valid.    *)
ChangeIdentity ==
    /\ ident.revision < MaxRevisions
    /\ ident' = [ident EXCEPT !.revision = @ + 1]
    /\ UNCHANGED <<desired, target, report, disk, memory, proc, stream, late, faults>>

(* WorkloadSnapshot names the targets before the snapshot is on its way.    *)
Targets == [k \in Keys |-> [version |-> desired[k], epoch |-> ident.epoch]]

(* One turn of the stream: the principal of the connection must still be    *)
(* the identity; a snapshot equal to the last one is a heartbeat.           *)
Turn ==
    /\ stream.open /\ Len(stream.queue) < StreamSize
    /\ IF stream.revision = ident.revision
       THEN /\ target' = Targets /\ stream.last # desired
            /\ stream' = [stream EXCEPT !.queue = Append(@, desired), !.last = desired]
       ELSE /\ stream.last # Changed
            /\ stream' = [stream EXCEPT !.queue = Append(@, Changed), !.last = Changed]
            /\ UNCHANGED target
    /\ UNCHANGED <<center, report, disk, memory, proc, late, faults>>

(* ReportConfiguration: the report is of the current instance and of its    *)
(* target, nothing later is recorded, and what it says to run is what was   *)
(* reported before or the target itself.                                    *)
Fits(r) ==
    /\ r.epoch = ident.epoch
    /\ target[r.key] = [version |-> r.desired, epoch |-> ident.epoch]
    /\ ~r.passed
Admitted(r) ==
    /\ Fits(r)
    /\ r.running = IF r.state = "running" THEN r.desired ELSE report[r.key].running

Record(r) == report' = [report EXCEPT ![r.key] =
    [epoch |-> r.epoch, desired |-> r.desired, running |-> r.running, state |-> r.state]]

(* A report arrives after its caller gave up.                               *)
LateReport ==
    /\ late # None
    /\ IF Admitted(late) THEN Record(late) ELSE UNCHANGED report
    /\ late' = None
    /\ UNCHANGED <<center, target, disk, memory, proc, stream, faults>>

-----------------------------------------------------------------------------
(* The process of the node.                                                 *)

(* The process ends anywhere and starts again with what it stored; the      *)
(* documents are in effect from the start.                                  *)
Crash ==
    /\ Fault
    /\ proc' = NewProcess /\ stream' = NoStream /\ memory' = doc
    /\ UNCHANGED <<center, target, report, disk, late>>

(* RunWorkload: a new instance.  Without the authority a process that has   *)
(* stored a configuration keeps it until its next start.                    *)
Activate ==
    /\ proc.pc = "start"
    /\ ident' = [ident EXCEPT !.epoch = @ + 1]
    /\ proc' = [proc EXCEPT !.pc = "idle", !.epoch = ident.epoch + 1]
    /\ UNCHANGED <<desired, target, report, disk, memory, stream, late, faults>>
NoAuthority ==
    /\ proc.pc = "start" /\ Fault
    /\ proc' = [proc EXCEPT !.started = @ \/ \E k \in Keys : runtime[k] # 0]
    /\ UNCHANGED <<center, target, report, disk, memory, stream, late>>

(* listenWorkload                                                           *)
Connect ==
    /\ proc.pc = "idle" /\ ~stream.open
    /\ target' = Targets
    /\ stream' = [open |-> TRUE, revision |-> ident.revision, queue |-> <<desired>>,
                  last |-> desired]
    /\ UNCHANGED <<center, report, disk, memory, proc, late, faults>>
Disconnect ==
    /\ stream.open /\ proc.pc = "idle" /\ Fault
    /\ stream' = NoStream /\ proc' = [proc EXCEPT !.apply = None]
    /\ UNCHANGED <<center, target, report, disk, memory, late>>

(* A snapshot, or the identity changed: pruneManaged removes everything.    *)
Read ==
    /\ proc.pc = "idle" /\ stream.open /\ stream.queue # <<>>
    /\ IF Head(stream.queue) = Changed
       THEN /\ doc' = Changed /\ runtime' = Changed /\ memory' = Changed
            /\ stream' = NoStream /\ proc' = [proc EXCEPT !.apply = None]
       ELSE /\ stream' = [stream EXCEPT !.queue = Tail(@)]
            /\ proc' = [proc EXCEPT !.pc = "apply", !.apply = Head(stream.queue), !.at = 1,
                                    !.startup = ~proc.started]
            /\ UNCHANGED <<disk, memory>>
    /\ UNCHANGED <<center, target, report, late, faults>>

(* Every fifth heartbeat applies the last snapshot again.                   *)
Heartbeat ==
    /\ proc.pc = "idle" /\ stream.open /\ stream.queue = <<>> /\ proc.apply # None
    /\ proc' = [proc EXCEPT !.pc = "apply", !.at = 1, !.startup = FALSE]
    /\ UNCHANGED <<center, target, report, disk, memory, stream, late, faults>>

(* ApplyEnvelopes, a parameter: one that runs is reported again, a static   *)
(* one waits for a start, another one is stored.                            *)
Leave == stream' = NoStream /\ proc' = [proc EXCEPT !.pc = "idle", !.apply = None]
Say(state) == proc' = [proc EXCEPT !.pc = "report", !.state = state]
Consider ==
    /\ proc.pc = "apply" /\ proc.at <= Len(Order)
    /\ \/ /\ ~proc.startup /\ runtime[Key] > Want
          /\ Leave /\ UNCHANGED doc
       \/ /\ ~proc.startup /\ runtime[Key] = Want
          /\ Say("running") /\ UNCHANGED <<doc, stream>>
       \/ /\ ~proc.startup /\ runtime[Key] < Want /\ Key \in Static
          /\ Say("restart_required") /\ UNCHANGED <<doc, stream>>
       \/ /\ proc.startup \/ (runtime[Key] < Want /\ Key \notin Static)
          /\ doc' = [doc EXCEPT ![Key] = Want]
          /\ proc' = [proc EXCEPT !.pc = "store", !.old = doc[Key]]
          /\ UNCHANGED stream
    /\ UNCHANGED <<center, target, report, runtime, memory, late, faults>>

(* The consumers take the value and configuration_runtime is written; when  *)
(* one of them fails, the document before is put back.                      *)
TakeEffect ==
    /\ proc.pc = "store" /\ memory[Key] # Want
    /\ memory' = [memory EXCEPT ![Key] = Want]
    /\ UNCHANGED <<center, target, report, disk, proc, stream, late, faults>>
StoreRuntime ==
    /\ proc.pc = "store" /\ memory[Key] = Want
    /\ runtime' = [runtime EXCEPT ![Key] = Want]
    /\ Say("running")
    /\ UNCHANGED <<center, target, report, doc, memory, stream, late, faults>>
ApplyFails ==
    /\ proc.pc = "store" /\ Fault
    /\ doc' = [doc EXCEPT ![Key] = proc.old]
    /\ memory' = [memory EXCEPT ![Key] = proc.old]
    /\ Say("failed")
    /\ UNCHANGED <<center, target, report, runtime, stream, late>>

(* Subscriber.report: what runs is what configuration_runtime names.        *)
Report == [key |-> Key, epoch |-> proc.epoch, desired |-> Want, running |-> runtime[Key],
           state |-> proc.state, passed |-> FALSE]
Passed == IF late # None /\ late.key = Key THEN [late EXCEPT !.passed = TRUE] ELSE late
Told ==
    /\ proc.pc = "report"
    /\ IF Admitted(Report)
       THEN /\ Record(Report) /\ late' = Passed
            /\ proc' = [proc EXCEPT !.pc = "apply", !.at = @ + 1] /\ UNCHANGED stream
       ELSE Leave /\ UNCHANGED <<report, late>>
    /\ UNCHANGED <<center, target, disk, memory, faults>>
(* The answer is lost; the report is recorded, under way or lost too.       *)
Unanswered ==
    /\ proc.pc = "report" /\ Fault
    /\ \/ Admitted(Report) /\ Record(Report) /\ late' = Passed
       \/ late = None /\ late' = Report /\ UNCHANGED report
       \/ UNCHANGED <<report, late>>
    /\ Leave
    /\ UNCHANGED <<center, target, disk, memory>>

(* The end of the list.                                                     *)
Applied ==
    /\ proc.pc = "apply" /\ proc.at > Len(Order)
    /\ proc' = [proc EXCEPT !.pc = "idle", !.at = 1, !.started = TRUE]
    /\ UNCHANGED <<center, target, report, disk, memory, stream, late, faults>>

Step == Activate \/ Connect \/ Read \/ Heartbeat \/ Consider \/ TakeEffect \/ StoreRuntime
        \/ Told \/ Applied
Next ==
    \/ Step \/ Turn \/ LateReport \/ ChangeIdentity \/ \E k \in Keys : Put(k)
    \/ Crash \/ NoAuthority \/ Disconnect \/ ApplyFails \/ Unanswered

Spec == Init /\ [][Next]_vars /\ WF_vars(Step) /\ WF_vars(Turn)
-----------------------------------------------------------------------------
(* What the center shows as running, with the program connected and at      *)
(* rest, is in effect in the process and what it stored.                    *)
AtRest == proc.pc = "idle" /\ stream.open /\ stream.queue = <<>> /\ proc.apply # None
ReportTrue == AtRest => \A k \in Keys : report[k].state = "running"
    => report[k].running = memory[k] /\ memory[k] = runtime[k]

(* Nothing that was reported to run gives way to an older version, and no   *)
(* process reports after its successor.                                     *)
ReportsAdvance == \A k \in Keys :
    report'[k].epoch >= report[k].epoch /\ report'[k].running >= report[k].running

(* A dynamic parameter waits for its version to be reported as running.     *)
ParameterWaits(k) == report[k].running < desired[k] \/ report[k].state # "running"
=============================================================================
