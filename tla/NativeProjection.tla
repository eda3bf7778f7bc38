-------------------------- MODULE NativeProjection --------------------------
(***************************************************************************)
(* One entity, or one definition, of the platform as ThingsBoard shows it  *)
(* (thingsboard/adapter.go and definitions.go, projectDelivery of           *)
(* app/workers.go).                                                         *)
(* Every version leaves a delivery; two workers take deliveries in any     *)
(* order and try again after a failure, of which they do not know whether  *)
(* the request took effect.  A projection compares the version noted in    *)
(* the store, changes ThingsBoard by two requests and notes its version.   *)
(* For an entity all this happens under a lock, for a definition it does   *)
(* not.                                                                    *)
(***************************************************************************)
EXTENDS Naturals, FiniteSets

CONSTANTS
    MaxVersion,     \* bound: versions of the document
    MaxWorkers,     \* projections at a time
    MaxFaults,      \* bound: failures and ends of the process
    None

VARIABLES
    locked,         \* TRUE for an entity, FALSE for a definition: what it is stays
    current,        \* version of the document
    row,            \* delivery of each version
    worker,         \* what the projection of a version is at
    holder,         \* of the lock
    mapping,        \* version noted in the store
    object,         \* version of the native object: asset, device or rule chain
    detail,         \* of its attributes, or of the nodes and calculated fields
    best,           \* the newest version either was ever written with
    ready,          \* definitions have been reconciled since the start
    faults

vars == <<locked, current, row, worker, holder, mapping, object, detail, best, ready, faults>>

Versions == 1..MaxVersion

ProjectionConstants ==
    /\ MaxVersion \in Nat \ {0} /\ MaxWorkers \in Nat \ {0} /\ MaxFaults \in Nat
    /\ None \notin Versions

TypeOK ==
    /\ locked \in BOOLEAN /\ current \in Versions
    /\ row \in [Versions -> {"none", "waiting", "gone"}]
    /\ worker \in [Versions -> {"idle", "enter", "object", "detail", "note", "finish"}]
    /\ holder \in Versions \cup {None}
    /\ {mapping, object, detail} \subseteq 0..MaxVersion
    /\ best \in [object : 0..MaxVersion, detail : 0..MaxVersion]
    /\ ready \in BOOLEAN
    /\ faults \in 0..MaxFaults

Init ==
    /\ locked \in BOOLEAN /\ current = 1
    /\ row = [v \in Versions |-> IF v = 1 THEN "waiting" ELSE "none"]
    /\ worker = [v \in Versions |-> "idle"]
    /\ holder = None
    /\ mapping = 0 /\ object = 0 /\ detail = 0
    /\ best = [object |-> 0, detail |-> 0]
    /\ ready = FALSE /\ faults = 0

(* A new version is stored with its delivery.                               *)
Enqueue ==
    /\ current < MaxVersion
    /\ current' = current + 1
    /\ row' = [row EXCEPT ![current + 1] = "waiting"]
    /\ UNCHANGED <<locked, worker, holder, mapping, object, detail, best, ready, faults>>

Goto(v, pc) == worker' = [worker EXCEPT ![v] = pc]
Leave(v) == holder' = IF holder = v THEN None ELSE holder

(* A worker takes a delivery.                                               *)
Take(v) ==
    /\ ready /\ row[v] = "waiting" /\ worker[v] = "idle"
    /\ Cardinality({w \in Versions : worker[w] # "idle"}) < MaxWorkers
    /\ Goto(v, "enter")
    /\ UNCHANGED <<locked, current, row, holder, mapping, object, detail, best, ready, faults>>

(* An older version, and the same one of an entity, is not projected again. *)
Outdated(v) == mapping > v \/ (locked /\ mapping = v)

Check(v) ==
    /\ worker[v] = "enter"
    /\ (locked => holder = None)
    /\ IF Outdated(v)
       THEN Goto(v, "finish") /\ UNCHANGED holder
       ELSE Goto(v, "object") /\ holder' = IF locked THEN v ELSE holder
    /\ UNCHANGED <<locked, current, row, mapping, object, detail, best, ready, faults>>

Larger(a, b) == IF a > b THEN a ELSE b
WriteObject(v) == object' = v /\ best' = [best EXCEPT !.object = Larger(@, v)]
WriteDetail(v) == detail' = v /\ best' = [best EXCEPT !.detail = Larger(@, v)]

(* The native object is looked up by its name and written.                  *)
PutObject(v) ==
    /\ worker[v] = "object"
    /\ WriteObject(v)
    /\ Goto(v, "detail")
    /\ UNCHANGED <<locked, current, row, holder, mapping, detail, ready, faults>>

PutDetail(v) ==
    /\ worker[v] = "detail"
    /\ WriteDetail(v)
    /\ Goto(v, "note")
    /\ UNCHANGED <<locked, current, row, holder, mapping, object, ready, faults>>

Note(v) ==
    /\ worker[v] = "note"
    /\ mapping' = v
    /\ Leave(v) /\ Goto(v, "finish")
    /\ UNCHANGED <<locked, current, row, object, detail, best, ready, faults>>

CompleteProjection(v) ==
    /\ worker[v] = "finish"
    /\ row' = [row EXCEPT ![v] = "gone"]
    /\ Goto(v, "idle")
    /\ UNCHANGED <<locked, current, holder, mapping, object, detail, best, ready, faults>>

(* A request or a write fails, with its effect or without; the delivery     *)
(* stays.                                                                   *)
Fail(v) ==
    /\ worker[v] # "idle" /\ faults < MaxFaults /\ faults' = faults + 1
    /\ \/ UNCHANGED <<object, detail, best>>
       \/ worker[v] = "object" /\ WriteObject(v) /\ UNCHANGED detail
       \/ worker[v] = "detail" /\ WriteDetail(v) /\ UNCHANGED object
    /\ Leave(v) /\ Goto(v, "idle")
    /\ UNCHANGED <<locked, current, row, mapping, ready>>

(* Before the first delivery, definitions whose newest version is not noted *)
(* are projected.                                                           *)
ReconcileDefinitions ==
    /\ ~ready
    /\ ready' = TRUE
    /\ IF locked \/ mapping >= current
       THEN UNCHANGED <<object, detail, best, mapping>>
       ELSE /\ object' = current /\ detail' = current /\ mapping' = current
            /\ best' = [object |-> current, detail |-> current]
    /\ UNCHANGED <<locked, current, row, worker, holder, faults>>

Crash ==
    /\ faults < MaxFaults /\ faults' = faults + 1
    /\ worker' = [v \in Versions |-> "idle"]
    /\ holder' = None /\ ready' = FALSE
    /\ UNCHANGED <<locked, current, row, mapping, object, detail, best>>

Next ==
    \/ Enqueue \/ ReconcileDefinitions \/ Crash
    \/ \E v \in Versions :
           Take(v) \/ Check(v) \/ PutObject(v) \/ PutDetail(v) \/ Note(v)
               \/ CompleteProjection(v) \/ Fail(v)

Spec == Init /\ [][Next]_vars
-----------------------------------------------------------------------------
(* ThingsBoard never shows less of an entity than the store has noted, so   *)
(* an older delivery that is tried again does not replace a newer one       *)
(* (EnsureEntity, thingsboard/adapter.go).                                  *)
NotOlderThanNoted == locked => object >= mapping /\ detail >= mapping

(* When every delivery of an entity is gone, ThingsBoard shows its newest   *)
(* version, whatever the order and the failures of the deliveries.          *)
NewestShown ==
    locked /\ (\A v \in 1..current : row[v] = "gone") =>
        object = current /\ detail = current

(* A delivery is gone only after both parts of its version, or of a newer   *)
(* one, were written.                                                       *)
DeliveredWasShown ==
    \A v \in Versions : row[v] = "gone" => best.object >= v /\ best.detail >= v
=============================================================================
