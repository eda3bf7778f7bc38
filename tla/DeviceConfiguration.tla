------------------------- MODULE DeviceConfiguration -------------------------
(***************************************************************************)
(* The configuration of a connector and of a device behind it, from the    *)
(* owning edge of the platform (application/deviceconfiguration.go,        *)
(* datatransfer/connector_configuration.go, bridge.go ApplyConfig) to the  *)
(* gateway (configmanager, connector/manager.go), which keeps it in memory *)
(* and in the journal from which it starts again.                          *)
(***************************************************************************)
EXTENDS Naturals, FiniteSetsExt

CONSTANTS
    MaxVersions,    \* saves of the connector, and of the device
    StopFails,      \* a running connector may fail to stop
    MaxFaults

VARIABLES
    saved,      \* versions saved at the edge, of the connector and the device
    queue,      \* deliveries "connector_config" and "device_config"
    receipt,    \* connector_configuration_receipt
    applied,    \* connector_runtime_application
    work,       \* the delivery the worker of connectors is at
    journal,    \* config_updates of the gateway: answers by update_id
    snapshot,   \* config_snapshot
    running,    \* what the gateway has in memory
    collector,  \* goroutine of the connector
    faults

vars == <<saved, queue, receipt, applied, work, journal, snapshot, running, collector, faults>>

Kinds == {"connector", "device"}
NoWork == [pc |-> "idle", version |-> 0, generation |-> 0, ok |-> FALSE]

Init ==
    /\ saved = [k \in Kinds |-> 0]
    /\ queue = {}
    /\ receipt = [version |-> 0, status |-> "pending"]
    /\ applied = [version |-> 0, generation |-> 0]
    /\ work = NoWork
    /\ journal = {}
    /\ snapshot = [version |-> [k \in Kinds |-> 0], revision |-> [k \in Kinds |-> 0]]
    /\ running = snapshot
    /\ collector = "none"
    /\ faults = 0

Fault == faults < MaxFaults /\ faults' = faults + 1
NoFault == UNCHANGED faults
-----------------------------------------------------------------------------
(* A user saves the next version, together with its delivery.               *)
Save(k) ==
    /\ saved[k] < MaxVersions
    /\ saved' = [saved EXCEPT ![k] = @ + 1]
    /\ queue' = queue \cup {<<k, saved[k] + 1>>}
    /\ UNCHANGED <<receipt, applied, work, journal, snapshot, running, collector, faults>>

-----------------------------------------------------------------------------
(* configmanager.Manager.Apply holds one lock from beginning to end.  The   *)
(* update_id of a connector names its generation and content, that of a     *)
(* device its version.                                                      *)

Known(u) == \E e \in journal : e.update = u
StaleNever(u) == FALSE
Stale(u) == running.revision[u.kind] > 0 /\ u.revision <= running.revision[u.kind]
Unregistered(u) == u.kind = "device" /\ running.version["connector"] = 0

Answer(u, ok, revision) == [update |-> u, ok |-> ok, revision |-> revision]
Refusal(u) == Answer(u, FALSE, running.revision[u.kind])
With(u) == [version |-> [running.version EXCEPT ![u.kind] = u.version],
            revision |-> [running.revision EXCEPT ![u.kind] = u.revision]]

(* SaveConfiguration writes the answer and the snapshot together.           *)
PersistAnswer(answer, next) ==
    /\ journal' = journal \cup {answer}
    /\ snapshot' = snapshot
Persist(answer, next) ==
    /\ journal' = journal \cup {answer}
    /\ snapshot' = next

Recorded(u) ==
    \/ /\ Stale(u)
       /\ journal' = journal \cup {Answer(u, TRUE, running.revision[u.kind])}
       /\ UNCHANGED <<snapshot, running, collector>>
    \/ /\ ~Stale(u) /\ Unregistered(u)
       /\ journal' = journal \cup {Refusal(u)}
       /\ UNCHANGED <<snapshot, running, collector>>
    \/ /\ ~Stale(u) /\ ~Unregistered(u)
       /\ running' = With(u)
       /\ collector' = "running"            \* a new instance in place of the old one
       /\ Persist(Answer(u, TRUE, u.revision), With(u))

(* The old instance is cancelled and does not stop; it is not started again.*)
StopFailed(u) ==
    /\ StopFails /\ ~Stale(u) /\ ~Unregistered(u) /\ collector # "none"
    /\ collector' = "dead"
    /\ journal' = journal \cup {Refusal(u)}
    /\ UNCHANGED <<snapshot, running>>

(* The journal cannot be written: what was active before is started again.  *)
NotPersisted(u) ==
    /\ ~Stale(u) /\ ~Unregistered(u)
    /\ collector' = IF running.version["connector"] = 0 THEN "none" ELSE "running"
    /\ UNCHANGED <<journal, snapshot, running>>

Unanswered == UNCHANGED <<journal, snapshot, running, collector>>

(* A push of u; the next state of the journal holds the answer, if any.     *)
Arrives(u) ==
    \/ Known(u) /\ Unanswered /\ NoFault
    \/ ~Known(u) /\ Recorded(u) /\ NoFault
    \/ ~Known(u) /\ (StopFailed(u) \/ NotPersisted(u)) /\ Fault

Accepted(u, revision, table) ==
    \E e \in table : e.update = u /\ e.ok /\ e.revision = revision

-----------------------------------------------------------------------------
(* Bridge.ApplyConfig of one delivery; a failed one is tried again.         *)
DeviceUpdate(v) == [kind |-> "device", version |-> v, revision |-> v]

PushDevice(v) ==
    /\ <<"device", v>> \in queue
    /\ LET u == DeviceUpdate(v) IN
       \/ /\ Arrives(u)
          /\ queue' = IF \E e \in journal' : e.update = u /\ e.ok
                      THEN queue \ {<<"device", v>>} ELSE queue
       \/ Unanswered /\ Fault /\ UNCHANGED queue        \* the call fails
       \/ /\ ~Known(u) /\ Recorded(u) /\ Fault          \* or its answer is lost
          /\ UNCHANGED queue
    /\ UNCHANGED <<saved, receipt, applied, work>>

-----------------------------------------------------------------------------
(* Business.ApplyConnectorConfiguration of one delivery.                    *)
ConnectorUpdate == [kind |-> "connector", version |-> work.version,
                    revision |-> work.generation]

Superseded(v) == saved["connector"] # v \/ receipt = [version |-> v, status |-> "applied"]
Runs(v, generation) ==
    running.version["connector"] = v /\ running.revision["connector"] = generation

Begin(v) ==
    /\ work.pc = "idle" /\ <<"connector", v>> \in queue
    /\ IF Superseded(v)
       THEN queue' = queue \ {<<"connector", v>>} /\ UNCHANGED work
       ELSE /\ UNCHANGED queue
            /\ work' = CASE applied.version > v -> [NoWork EXCEPT !.pc = "receipt", !.version = v]
                         [] applied.version = v /\ Runs(v, applied.generation) ->
                              [NoWork EXCEPT !.pc = "receipt", !.version = v, !.ok = TRUE]
                         [] OTHER ->
                              [NoWork EXCEPT !.pc = "push", !.version = v,
                                  !.generation = Max({v, applied.generation + 1,
                                                      running.revision["connector"] + 1})]
    /\ UNCHANGED <<saved, receipt, applied, journal, snapshot, running, collector, faults>>

Failed == work' = [work EXCEPT !.pc = "receipt"]

Push ==
    /\ work.pc = "push"
    /\ LET u == ConnectorUpdate IN
       \/ /\ Arrives(u)
          /\ IF Accepted(u, work.generation, journal')
             THEN work' = [work EXCEPT !.pc = "verify"] ELSE Failed
       \/ Unanswered /\ Fault /\ Failed
       \/ ~Known(u) /\ Recorded(u) /\ Fault /\ Failed
    /\ UNCHANGED <<saved, queue, receipt, applied>>

(* What the gateway says it runs is compared with what was pushed.          *)
Verify ==
    /\ work.pc = "verify"
    /\ \/ /\ Runs(work.version, work.generation) /\ NoFault
          /\ applied' = [version |-> work.version, generation |-> work.generation]
          /\ work' = [work EXCEPT !.pc = "receipt", !.ok = TRUE]
       \/ /\ \/ ~Runs(work.version, work.generation) /\ NoFault
             \/ Fault
          /\ Failed /\ UNCHANGED applied
    /\ UNCHANGED <<saved, queue, receipt, journal, snapshot, running, collector>>

Receipt ==
    /\ work.pc = "receipt"
    /\ receipt' = IF saved["connector"] = work.version
                  THEN [version |-> work.version,
                        status |-> IF work.ok THEN "applied" ELSE "failed"]
                  ELSE receipt
    /\ queue' = IF work.ok THEN queue \ {<<"connector", work.version>>} ELSE queue
    /\ work' = NoWork
    /\ UNCHANGED <<saved, applied, journal, snapshot, running, collector, faults>>

PlatformCrash ==
    /\ work.pc # "idle" /\ Fault
    /\ work' = NoWork
    /\ UNCHANGED <<saved, queue, receipt, applied, journal, snapshot, running, collector>>

-----------------------------------------------------------------------------
(* The connector returns or panics, and is started again after a pause.     *)
Exit ==
    /\ collector = "running" /\ Fault
    /\ collector' = "waiting"
    /\ UNCHANGED <<saved, queue, receipt, applied, work, journal, snapshot, running>>

Restart ==
    /\ collector = "waiting"
    /\ collector' = "running"
    /\ UNCHANGED <<saved, queue, receipt, applied, work, journal, snapshot, running, faults>>

(* AttachJournal restores the snapshot.                                     *)
GatewayCrash ==
    /\ Fault
    /\ running' = snapshot
    /\ collector' = IF snapshot.version["connector"] = 0 THEN "none" ELSE "running"
    /\ UNCHANGED <<saved, queue, receipt, applied, work, journal, snapshot>>

Versions == 1 .. MaxVersions
ConnectorStep == (\E v \in Versions : Begin(v)) \/ Push \/ Verify \/ Receipt

Next ==
    \/ \E k \in Kinds : Save(k)
    \/ \E v \in Versions : PushDevice(v)
    \/ ConnectorStep \/ PlatformCrash
    \/ Exit \/ Restart \/ GatewayCrash

(* The workers run every second and try a failed delivery again; a connector*)
(* is started again after at most a minute.                                 *)
Fairness == /\ WF_vars(ConnectorStep) /\ WF_vars(Restart)
            /\ \A v \in Versions : WF_vars(PushDevice(v))
Spec == Init /\ [][Next]_vars /\ Fairness
-----------------------------------------------------------------------------
TypeOK ==
    /\ saved \in [Kinds -> 0 .. MaxVersions]
    /\ queue \subseteq Kinds \X Versions
    /\ receipt.version <= saved["connector"]
    /\ applied.version <= saved["connector"]
    /\ work.pc \in {"idle", "push", "verify", "receipt"}
    /\ \A k \in Kinds : running.version[k] <= saved[k]
    /\ running.version["connector"] # 0 <=> collector # "none"

(* A receipt "applied" for the saved version is true of the gateway, across *)
(* its restarts (deviceconfiguration.go, connector_configuration.go).       *)
ReceiptTrue ==
    receipt = [version |-> saved["connector"], status |-> "applied"]
        => running.version["connector"] = saved["connector"]

(* A configuration never gives way to an older one (FR-S-029a), not by a    *)
(* late delivery, a failed write or a restart.                              *)
NeverBack ==
    \A k \in Kinds :
        /\ running'.revision[k] >= running.revision[k]
        /\ running'.version[k] >= running.version[k]
NeverBackP == [][NeverBack]_vars

(* What is saved is applied in the end, unless the old instance failed to   *)
(* stop: the refusal is in the journal, and every further attempt has the   *)
(* same update_id and is answered from there, until the next save.          *)
ConnectorWaits == saved["connector"] # 0 /\ receipt # [version |-> saved["connector"], status |-> "applied"]
RefusedForGood ==
    \E e \in journal : ~e.ok /\ e.update.kind = "connector" /\ e.update.version = saved["connector"]
ConnectorApplied == ConnectorWaits ~> ~ConnectorWaits \/ RefusedForGood
=============================================================================
