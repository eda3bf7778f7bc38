----------------------------- MODULE RuleRuntime -----------------------------
(***************************************************************************)
(* The evaluation of a control strategy at an edge (engine/runtime.go,     *)
(* engine/timers.go, rulecore/execute.go): every ingested reading is a     *)
(* delivery that a worker evaluates, in any order and again after a crash; *)
(* Tick evaluates the newest reading once more when a duration or the      *)
(* freshness of the reading runs out.  Both hold strategyMu from the read  *)
(* of the rule's state to its commit, so one evaluation is one step.       *)
(*                                                                         *)
(* The rule is a chain of nodes: hysteresis, or silence of the device if   *)
(* the policy has a watchdog, then debounce, then action.                  *)
(***************************************************************************)
EXTENDS Naturals, Sequences, FiniteSetsExt, Functions

CONSTANTS
    Samples,        \* what a reading may say: "low", "middle", "high", "bad"
    Watchdog,       \* Policy.Watchdog, silence of the device counts as high
    Activation,     \* the debounce delays the activation only
    Duration,       \* of the debounce
    Freshness,      \* age from which the device counts as silent
    MaxAge,         \* age from which a delivery is not evaluated any more
    MaxClock, MaxReadings, MaxVersions, MaxFaults   \* bounds

VARIABLES
    clock,
    readings,   \* points of the device, each with its time of observation
    queue,      \* deliveries "strategy", and whether the worker is done with them
    version,    \* published version of the rule
    state,      \* engine_state of this version
    inbox,      \* evaluations and timers committed
    triggers,   \* deliveries "strategy_trigger" in their order
    faults

vars == <<clock, readings, queue, version, state, inbox, triggers, faults>>

NoState == [exists |-> FALSE, high |-> FALSE, candidate |-> FALSE, since |-> 0,
            active |-> FALSE, acted |-> FALSE]

Init ==
    /\ clock = 1
    /\ readings = <<>>
    /\ queue = <<>>
    /\ version = 1
    /\ state = NoState
    /\ inbox = {}
    /\ triggers = <<>>
    /\ faults = 0

-----------------------------------------------------------------------------
(* rulecore.Execute on a reading; at is the logical time of the evaluation, *)
(* now the time against which freshness is measured.                        *)

High(r) == CASE r.sample = "high" -> TRUE
             [] r.sample = "low" -> FALSE
             [] OTHER -> state.high             \* between the limits, or not GOOD

Silent(r, now) == Watchdog /\ now > r.at + Freshness

Debounced(value, at) ==
    IF Activation /\ ~value
    THEN [candidate |-> FALSE, since |-> 0, active |-> FALSE]
    ELSE LET since == IF state.since = 0 \/ value # state.candidate THEN at ELSE state.since
         IN [candidate |-> value, since |-> since,
             active |-> IF at >= since + Duration THEN value ELSE state.active]

States(high, d) == [exists |-> TRUE, high |-> high, candidate |-> d.candidate,
                    since |-> d.since, active |-> d.active, acted |-> d.active]
Execute(r, at, now) == States(High(r), Debounced(High(r) \/ Silent(r, now), at))

(* commitEvaluation does nothing for an evaluation the inbox knows.         *)
\* Fault: evaluations are not recorded.
KnownThen(key) == FALSE
Known(key) == key \in inbox

Commit(key, r, at) ==
    IF Known(key)
    THEN UNCHANGED <<state, inbox, triggers>>
    ELSE LET next == Execute(readings[r], at, clock) IN
         /\ inbox' = inbox \cup {key}
         /\ state' = next
         /\ triggers' = IF next.active /\ ~state.acted
                        THEN Append(triggers, <<version, r>>) ELSE triggers

-----------------------------------------------------------------------------
(* A reading is stored together with its delivery.                          *)
Ingest ==
    /\ Len(readings) < MaxReadings
    /\ \E at \in 1 .. clock, s \in Samples :
         /\ \A i \in DOMAIN readings : readings[i].at # at
         /\ readings' = Append(readings, [at |-> at, sample |-> s])
    /\ queue' = Append(queue, "new")
    /\ UNCHANGED <<clock, version, state, inbox, triggers, faults>>

(* The worker takes deliveries in the order of the millisecond in which     *)
(* they were made and then of their identifiers, which are hashes, and      *)
(* failed ones later: in any order.                                         *)
Evaluated(r) == Commit(<<"evaluation", version, r>>, r, readings[r].at)
Process(r) ==
    /\ queue[r] = "new"
    /\ queue' = [queue EXCEPT ![r] = "done"]
    /\ IF clock > readings[r].at + MaxAge
       THEN UNCHANGED <<state, inbox, triggers>> ELSE Evaluated(r)
    /\ UNCHANGED <<clock, readings, version, faults>>

(* CompleteDeliveries retires what the worker is done with.                 *)
Complete ==
    /\ \E r \in DOMAIN queue : queue[r] = "done"
    /\ queue' = [r \in DOMAIN queue |-> IF queue[r] = "done" THEN "gone" ELSE queue[r]]
    /\ UNCHANGED <<clock, readings, version, state, inbox, triggers, faults>>

Crash ==
    /\ faults < MaxFaults
    /\ \E r \in DOMAIN queue : queue[r] = "done"
    /\ faults' = faults + 1
    /\ queue' = [r \in DOMAIN queue |-> IF queue[r] = "done" THEN "new" ELSE queue[r]]
    /\ UNCHANGED <<clock, readings, version, state, inbox, triggers>>

(* A new version of the rule starts from no state.                          *)
Publish ==
    /\ version < MaxVersions
    /\ version' = version + 1
    /\ state' = NoState
    /\ UNCHANGED <<clock, readings, queue, inbox, triggers, faults>>

-----------------------------------------------------------------------------
(* What is due for the newest reading: its silence or a pending duration,   *)
(* whichever was due first.                                                 *)
Newest == CHOOSE r \in DOMAIN readings :
              \A i \in DOMAIN readings : readings[i].at <= readings[r].at

Undecided == state.exists /\ state.since > 0 /\ state.active # state.candidate
Dues ==
    {d \in (IF Watchdog THEN {readings[Newest].at + Freshness + 1} ELSE {})
           \cup (IF Undecided THEN {state.since + Duration} ELSE {}) : d <= clock}

Tick ==
    /\ readings # <<>> /\ state.exists /\ Dues # {}
    /\ Commit(<<"timer", version, Newest, Min(Dues)>>, Newest, clock)
    /\ UNCHANGED <<clock, readings, queue, version, faults>>

Elapse ==
    /\ clock < MaxClock
    /\ clock' = clock + 1
    /\ UNCHANGED <<readings, queue, version, state, inbox, triggers, faults>>

Worker == (\E r \in DOMAIN queue : Process(r)) \/ Complete

Next == Ingest \/ Worker \/ Crash \/ Publish \/ Tick \/ Elapse

(* A worker every 20 ms, Tick every 100 ms.                                 *)
Fairness == WF_vars(Worker) /\ WF_vars(Tick) /\ WF_vars(Elapse)
Spec == Init /\ [][Next]_vars /\ Fairness
-----------------------------------------------------------------------------
TypeOK ==
    /\ clock \in 1 .. MaxClock /\ version \in 1 .. MaxVersions
    /\ DOMAIN queue = DOMAIN readings
    /\ Range(queue) \subseteq {"new", "done", "gone"}
    /\ state.since <= clock
    /\ state.acted = state.active

(* A reading triggers the strategy at most once, by itself or by a timer,   *)
(* however often it is delivered (commitEvaluation).                        *)
TriggersOnce == IsInjective(triggers)

(* A duration that has run out takes effect, within the time looked at.     *)
Overdue == Undecided /\ state.since + Duration < MaxClock
PendingAdvances == Overdue ~> ~Overdue
=============================================================================
