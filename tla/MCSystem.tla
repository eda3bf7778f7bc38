------------------------------ MODULE MCSystem ------------------------------
(***************************************************************************)
(* The components that have no run of their own, side by side: the first   *)
(* state chooses one of Parts, and only this component takes steps.  The   *)
(* variables v1 to v17 stand for the variables of the component chosen, in *)
(* the order in which its module declares them; the others stay 0.  So     *)
(* each property is checked of its component exactly as in a run that has  *)
(* this component alone.                                                   *)
(***************************************************************************)
EXTENDS Naturals, Sequences

CONSTANTS
    Parts,              \* components checked
    BufferFaults,       \* the bounds of the components,
    FeedReadings, FeedFaults,   \* named after the constants they are given to
    ReplayFaults, ReplayOrders,
    ArchiveTimes,
    ControlFaults,
    AgentFaults,
    Deployments, ReleaseFaults, ReleaseOrders,
    ApprovalChanges,
    ExchangeHandlers, RightChanges,
    RuleVersions, RuleReadings, RuleDuration,
    StopFails,
    ConfigRevisions, ConfigFaults,
    QueryCommits,
    DeviceConfigs,
    None                \* a model value

VARIABLES part, v1, v2, v3, v4, v5, v6, v7, v8, v9, v10, v11, v12, v13, v14, v15, v16, v17

After7 == <<v8, v9, v10, v11, v12, v13, v14, v15, v16, v17>>
After8 == <<v9, v10, v11, v12, v13, v14, v15, v16, v17>>
After9 == <<v10, v11, v12, v13, v14, v15, v16, v17>>
After10 == <<v11, v12, v13, v14, v15, v16, v17>>
After11 == <<v12, v13, v14, v15, v16, v17>>
After12 == <<v13, v14, v15, v16, v17>>
After13 == <<v14, v15, v16, v17>>
vars == <<part, v1, v2, v3, v4, v5, v6, v7, After7>>

Zero13 == v14 = 0 /\ v15 = 0 /\ v16 = 0 /\ v17 = 0
Zero12 == v13 = 0 /\ Zero13
Zero11 == v12 = 0 /\ Zero12
Zero10 == v11 = 0 /\ Zero11
Zero9 == v10 = 0 /\ Zero10
Zero8 == v9 = 0 /\ Zero9
Zero7 == v8 = 0 /\ Zero8

-----------------------------------------------------------------------------
(* A queue of one reading and two successive streams of a consumer.         *)
Feed == INSTANCE TelemetryFeed_proofs WITH
    MaxReadings <- FeedReadings, Value <- <<1, 2, 1>>, Mode <- "ON_CHANGE",
    Consumers <- {"edge"}, Streams <- {1, 2}, Owner <- <<"edge", "edge">>,
    UpstreamSize <- 1, Warning <- 1, Recovery <- 0, StreamSize <- 1, MaxFaults <- FeedFaults,
    collected <- v1, upstream <- v2, bpActive <- v3, policy <- v4, pub <- v5, last <- v6,
    sub <- v7, stream <- v8, consumers <- v9, saved <- v10, gaps <- v11, phase <- v12,
    faults <- v13, handed <- v14, owed <- v15, swallowed <- v16, forgotten <- v17

(* A gateway without a command journal.                                     *)
Memory == INSTANCE CommandService WITH
    Commands <- {"once", "twice"}, Idempotent <- {"twice"},
    Retries <- [once |-> 1, twice |-> 1], Bodies <- {"x"}, Calls <- {1, 2},
    Responses <- {"SUCCESS", "RESULT_UNKNOWN"}, Durable <- FALSE,
    MaxRequests <- 2, MaxCrashes <- 1,
    records <- v1, calls <- v2, closed <- v3, sent <- v4, device <- v5, answers <- v6,
    requests <- v7, crashes <- v8

(* The archive; a node's agent, which may end wherever a file names each    *)
(* program that runs; a deployment in two batches and one of                *)
(* a single workload of the first; the recomputation of two readings; the   *)
(* task of a delivery that two operators cancel and retry, and that of a    *)
(* recomputation of an earlier version that the start or they adopt; a      *)
(* buffer with room for one reading; the projections of three versions by   *)
(* two workers; an idempotent command of one of two MQTT devices, and an    *)
(* event beside a reading of another connector.                             *)
LateReadings == {1, 2}
Proved == INSTANCE Component_proofs WITH
    Times <- ArchiveTimes, Revisions <- {1, 2}, BlockPoints <- 2, Limit <- 1, MaxPoints <- 3,
    hot <- v1, blocks <- v2, cut <- v3, raw <- v4, candidate <- v5, expiry <- v6, query <- v7,

    Releases <- {"a", "b"}, MaxGeneration <- 2, AgentFaults <- AgentFaults,
    NotedOnly <- TRUE,
    desired <- v1, told <- v2, halted <- v3, procs <- v4, next <- v5, pc <- v6, child <- v7,
    active <- v8, pending <- v9, status <- v10, failure <- v11, fetched <- v12,
    agentFaults <- v13,

    Workloads <- {"x", "y"}, Deployments <- Deployments,
    Batch <- <<[x |-> 1, y |-> 2], [y |-> 1]>>,
    ReleaseFaults <- ReleaseFaults, MaxOrders <- ReleaseOrders,
    deployment <- v1, target <- v2, assignment <- v3, identity <- v4, agent <- v5, ran <- v6,
    late <- v7, releaseFaults <- v8, orders <- v9,

    Readings <- LateReadings, ReplayAttempts <- 2, ReplayFaults <- ReplayFaults,
    ReplayOrders <- ReplayOrders,
    stored <- v1, queue <- v2, evaluated <- v3, count <- v4, job <- v5, draft <- v6,
    rolled <- v7, swept <- v8, replayTask <- v9, worker <- v10, lateReadings <- v11,
    replayFaults <- v12, replayOrders <- v13,

    Deliveries <- {"d"}, Recomputes <- {"j"}, Operators <- {1, 2}, MaxAttempts <- 1,
    TaskChanges <- 3, TaskCrashes <- 1,
    up <- v1, outbox <- v2, doc <- v3, task <- v4, work <- v5, held <- v6,
    right <- v7, made <- v8, misled <- v9, taskChanges <- v10, taskCrashes <- v11,

    BufferReadings <- {1, 2}, BufferCapacity <- 1, BufferBatch <- 1,
    BufferFaults <- BufferFaults,
    bufferRow <- v1, bufferGaps <- v2, reported <- v3, received <- v4, offered <- v5,
    promised <- v6, bufferCall <- v7, bufferReplay <- v8, sweep <- v9, linked <- v10,
    bufferFaults <- v11,

    MaxVersion <- 3, MaxWorkers <- 2, NativeFaults <- 2,
    locked <- v1, current <- v2, nativeRow <- v3, nativeWorker <- v4, holder <- v5,
    mapping <- v6, object <- v7, detail <- v8, best <- v9, acting <- v10, nativeFaults <- v11,

    Commands <- {"c"}, Target <- [c |-> "d"], Idempotent <- {"c"}, Devices <- {"d", "e"},
    Events <- {1}, Source <- <<"d">>, MqttCapacity <- 1, AckCapacity <- 1, Ordered <- FALSE,
    Neighbour <- TRUE, MaxConfigs <- 2, MaxSends <- 3, MqttFaults <- 2,
    mqttCall <- v1, mqttPending <- v2, wire <- v3, did <- v4, event <- v5, routed <- v6,
    upstream <- v7, handled <- v8, eventOutbox <- v9, acks <- v10, config <- v11,
    neighbour <- v12, mqttFaults <- v13

\* Nobody deals with the recomputation, and there is no delivery.
DeliveryOnly == v3["j"].status = "failed" /\ \A o \in {1, 2} : v6[o] # None => v6[o].thing = "d"
RecomputeOnly == v2["d"] = "none" /\ v10 <= 2

\* An entity, and a definition of at most two versions.
EntityOnly == v1 = TRUE
DefinitionOnly == v1 = FALSE /\ v2 <= 2

\* The event and the other connector are still, and the command is.
CommandOnly == v5[1].sends = 0 /\ v12 = "new"
EventOnly == v1["c"].pc = "idle" /\ v11 <= DeviceConfigs /\ v13 <= 1

(* One operation and lost answers, or a step of another edge.               *)
Local == INSTANCE ControlExchange WITH
    Steps <- 1, RemoteSteps <- {}, Operations <- {"o"}, MaxFaults <- ControlFaults,
    cloud <- v1, known <- v2, cursor <- v3, asked <- v4, edge <- v5, other <- v6, ops <- v7,
    post <- v8, work <- v9, out <- v10, faults <- v11
Remote == INSTANCE ControlExchange WITH
    Steps <- 1, RemoteSteps <- {1}, Operations <- {"o"}, MaxFaults <- 0,
    cloud <- v1, known <- v2, cursor <- v3, asked <- v4, edge <- v5, other <- v6, ops <- v7,
    post <- v8, work <- v9, out <- v10, faults <- v11

(* A control request: an engineer asks, and another one who also leads the  *)
(* department; two operations on an alarm, or one beside a replay; two      *)
(* definitions of an older release that are edited, or imported by an edge; *)
(* a work order that two calls, or one, change; a shadow candidate of two   *)
(* observations, of which one is revised; an investigation.                 *)
Platform == INSTANCE Document_proofs WITH
    Users <- {"a", "b"}, Holds <- [a |-> {"engineer"}, b |-> {"engineer", "leader"}],
    Requester <- "a", Handlers <- {1, 2}, ApprovalChanges <- ApprovalChanges,
    person <- v1, grants <- v2, org <- v3, plan <- v4, risk <- v5, request <- v6,
    expired <- v7, handler <- v8, changes <- v9,

    Persons <- {"p", "q"}, ClockTimes <- {1, 2}, MaxOperations <- 2, MaxReplays <- 1,
    operations <- v1, known <- v2, alarm <- v3, present <- v4, caller <- v5,
    alarmReplay <- v6, native <- v7, replays <- v8,

    Definitions <- {1, 2}, Name <- <<1, 2>>, Legacy <- {1, 2},
    LegacyDeps <- {<<{}, {}>>, <<{2}, {}>>}, Batches <- {}, Made <- <<>>,
    MaxCalls <- 2, MaxVersions <- 2, MaxDrafts <- 1, MaxTime <- 2, MaxImport <- 2,
    definition <- v1, drafts <- v2, batches <- v3, answered <- v4, edits <- v5, clock <- v6,
    cloud <- v7, log <- v8, imported <- v9, edge <- v10,

    Administrators <- {"p"}, OrderActions <- {"assign", "start", "update", "complete", "reopen"},
    Requests <- {1}, Calls <- {1, 2}, OrderVersions <- 4, OrderChanges <- 1,
    members <- v1, rights <- v2, reviewed <- v3, workOrder <- v4, taken <- v5, asked <- v6,
    orderChanges <- v7,

    Points <- {1, 2}, SensorOf <- <<1, 1>>, Revised <- {1}, Observers <- {"engine", "strategy"},
    Budget <- 2, MaxEpochs <- 1, MaxRuns <- 3, ShadowChanges <- 1, ShadowFaults <- 1,
    candidate <- v1, runs <- v2, job <- v3, analysis <- v4, observer <- v5,
    shadowChanges <- v6, shadowFaults <- v7,

    Inquiries <- {1}, Resources <- {1}, Expiring <- {1}, MaxRounds <- 2, MaxResults <- 2,
    InquiryChanges <- 1, MaxReads <- 1,
    inquiry <- v1, evidence <- v2, chat <- v3, granted <- v4, existing <- v5, revision <- v6,
    overdue <- v7, reading <- v8, reads <- v9, consumed <- v10,

    Documents <- {1, 2, 3, 4}, Wanted <- {1, 2, 4}, PageLimit <- 2, ScanBudget <- 2,
    PageChanges <- 1,
    version <- v1, readable <- v2, pageChanges <- v3, page <- v4, cursor <- v5,
    got <- v6, steady <- v7

\* Two operations, no replay (v8 stays), and a person at ThingsBoard only before
\* the operations; or one operation of one person, and all else.
NativeAlone ==
    \/ v1 = <<>> /\ \A s \in {"edge", "cloud"} : v5[s].pc = "idle"
    \/ v7.there = "none" \/ (v7.recorded /\ ~v7.polled)
OneOperation ==
    /\ DOMAIN v1 \subseteq {1} /\ \A i \in DOMAIN v1 : v1[i].at = 1
    /\ \A s \in {"edge", "cloud"} : v5[s].person # "q" /\ (v5[s].pc = "idle" \/ v1 = <<>>)

\* Two operations and no import (v9 stays), or one of which one definition needs
\* the other.
NoneNeeded == v1[1][1].deps = {}
OneEdit == v1[1][1].deps = {2} /\ \A x, y \in v5 : x = y

\* Two calls that complete or hand over a new order, or one and no changes.
TwoVersions ==
    /\ v4.version <= 2
    /\ \A c \in {1, 2} : v6[c].input.action \notin {"assign", "start", "update", "reopen"}
OneCall == v7 = 0 /\ v6[2].pc = "idle"

\* Two consumers of a candidate and no failures, or one with failures.
NoShadowFaults == v7 = 0
OneConsumer == v5["strategy"].pc = "idle"

\* One result, and a reader while rights change; or two, and no reader.
OneResult == Len(v2[1]) <= 1 /\ v3[1].cited \subseteq {<<1, 1>>}
NoReader == v9 = 0

(* Without overlapping calls; in safety with them, or with a right that     *)
(* changes.                                                                 *)
Changes == INSTANCE ChangeExchange_proofs WITH
    Handlers <- ExchangeHandlers, Batch <- 1, MaxEdits <- 2,
    MaxRevocations <- RightChanges, MaxFaults <- 1,
    log <- v1, have <- v2, cursor <- v3, trail <- v4, copy <- v5, progress <- v6,
    records <- v7, right <- v8, client <- v9, server <- v10, edits <- v11,
    revocations <- v12, faults <- v13
NoOverlap == v12 = 0 \/ \A h \in ExchangeHandlers : h = 1 \/ v10[h].pc = "free"

(* A hysteresis and a debounce.                                             *)
Rule == INSTANCE RuleRuntime WITH
    Samples <- {"low", "middle", "high", "bad"}, Watchdog <- FALSE, Activation <- FALSE,
    Duration <- RuleDuration, Freshness <- 1, MaxAge <- 1, MaxClock <- 3,
    MaxReadings <- RuleReadings, MaxVersions <- RuleVersions, MaxFaults <- 1,
    clock <- v1, readings <- v2, queue <- v3, version <- v4, state <- v5, inbox <- v6,
    triggers <- v7, faults <- v8

Device == INSTANCE DeviceConfiguration WITH
    MaxVersions <- 2, StopFails <- StopFails, MaxFaults <- 2,
    saved <- v1, queue <- v2, receipt <- v3, applied <- v4, work <- v5, journal <- v6,
    snapshot <- v7, running <- v8, collector <- v9, faults <- v10

(* A dynamic parameter and a static one.                                    *)
Config == INSTANCE WorkloadConfiguration WITH
    Order <- <<"p", "q">>, Static <- {"q"}, MaxVersions <- 2,
    MaxRevisions <- ConfigRevisions, StreamSize <- 1, MaxFaults <- ConfigFaults,
    desired <- v1, ident <- v2, target <- v3, report <- v4, doc <- v5, runtime <- v6,
    memory <- v7, proc <- v8, stream <- v9, late <- v10, faults <- v11

(* A client whose query changes much, and two that share a group.           *)
Query == INSTANCE QuerySubscription WITH
    Rows <- {"a"}, Clients <- {1}, Retain <- 2, Limit <- 2, Room <- 1,
    MaxCommits <- QueryCommits, MaxFaults <- 0,
    log <- v1, state <- v2, rows <- v3, commits <- v4, groups <- v5, poll <- v6,
    client <- v7, faults <- v8
Shared == INSTANCE QuerySubscription WITH
    Rows <- {"a"}, Clients <- {1, 2}, Retain <- 1, Limit <- 1, Room <- 1,
    MaxCommits <- 2, MaxFaults <- 1,
    log <- v1, state <- v2, rows <- v3, commits <- v4, groups <- v5, poll <- v6,
    client <- v7, faults <- v8

(* A poll of two devices beside three calls to the second one, of which the *)
(* last has a parameter without mapping.                                    *)
Modbus == INSTANCE ModbusConnector WITH
    Units <- {1, 2}, Unset <- 1, Points <- 2, Calls <- {1, 2, 3}, CallUnit <- <<2, 2, 2>>,
    CallKind <- <<"update", "query", "update">>, Unmapped <- {3}, MaxPolls <- 1,
    MaxFaults <- 1,
    reg <- v1, client <- v2, opMu <- v3, poll <- v4, shown <- v5, call <- v6, stopped <- v7,
    whole <- v8, faults <- v9

(* A server that is subscribed to, and one that is polled.                  *)
Subscribed == INSTANCE OpcuaConnector WITH
    Nodes <- {1, 2}, Polling <- FALSE, MaxChanges <- 1, MaxFaults <- 2,
    value <- v1, link <- v2, session <- v3, run <- v4, sub <- v5, due <- v6, left <- v7,
    shown <- v8, stop <- v9, faults <- v10
Polled == INSTANCE OpcuaConnector WITH
    Nodes <- {1, 2}, Polling <- TRUE, MaxChanges <- 1, MaxFaults <- 2,
    value <- v1, link <- v2, session <- v3, run <- v4, sub <- v5, due <- v6, left <- v7,
    shown <- v8, stop <- v9, faults <- v10

(* Two batches of templates that make the same name.                        *)
Templates == INSTANCE DefinitionPublishing WITH
    Definitions <- {1, 2, 3}, Name <- <<1, 2, 1>>, Legacy <- {}, LegacyDeps <- {<<>>},
    Batches <- {1, 2}, Made <- <<{1}, {2, 3}>>, MaxCalls <- 2, MaxVersions <- 0,
    MaxDrafts <- 1, MaxTime <- 1, MaxImport <- 0,
    definition <- v1, draft <- v2, batch <- v3, answered <- v4, calls <- v5, clock <- v6,
    cloud <- v7, log <- v8, known <- v9, edge <- v10

(* A plan of one edge, and one whose steps belong to another site: they may *)
(* have been taken over from it.                                            *)
Manual == INSTANCE Interventions WITH
    Steps <- 2, RemoteSteps <- {}, MaxInterventions <- 3, MaxFaults <- 1,
    doc <- v1, actions <- v2, device <- v3, theirs <- v4, run <- v5, queued <- v6,
    calls <- v7, lease <- v8, journal <- v9, sends <- v10, begun <- v11, faults <- v12
Fenced == INSTANCE Interventions WITH
    Steps <- 2, RemoteSteps <- {1, 2}, MaxInterventions <- 2, MaxFaults <- 1,
    doc <- v1, actions <- v2, device <- v3, theirs <- v4, run <- v5, queued <- v6,
    calls <- v7, lease <- v8, journal <- v9, sends <- v10, begun <- v11, faults <- v12

(* Two investigations of which one may cite the other.                      *)
Citing == INSTANCE Investigations WITH
    Inquiries <- {1, 2}, Resources <- {}, Expiring <- {}, MaxRounds <- 2, MaxResults <- 1,
    MaxChanges <- 0, MaxReads <- 0,
    inquiry <- v1, evidence <- v2, chat <- v3, granted <- v4, existing <- v5,
    revision <- v6, expired <- v7, reading <- v8, reads <- v9, consumed <- v10

(* The first of two edges loses the coordination service before it can      *)
(* finish; either one may be told to cancel.                                *)
Outage == INSTANCE SiteExecution WITH
    Edges <- {"a", "b"}, Steps <- {"s1", "s2", "d1"},
    StepEdge <- [s1 |-> "a", s2 |-> "b", d1 |-> "a"],
    NormalPlan <- <<"s1", "s2">>, DegradedPlan <- <<"d1">>,
    Runners <- {"ra", "rb"}, Handlers <- {"ha", "hb"},
    Home <- [ra |-> "a", rb |-> "b", ha |-> "a", hb |-> "b"], Downlink <- "ra",
    CancelEdges <- {"a", "b"}, RefusingEdges <- {"a"}, OutageEdges <- {"a"},
    MaxClaims <- 1, MaxCrashes <- 0, MaxVersion <- 5,
    lease <- v1, journal <- v2, active <- v3, doc <- v4, act <- v5, sent <- v6, thr <- v7,
    net <- v8, crashes <- v9

ASSUME PartConstants ==
       Platform!Approval!ApprovalConstants /\ Changes!ExchangeConstants
       /\ Proved!Archives!ArchiveConstants /\ Proved!Release!ReleaseConstants
       /\ Proved!Native!ProjectionConstants /\ Proved!Mqtt!MqttConstants
       /\ Proved!Tasks!LedgerConstants /\ Proved!History!HistoryConstants
       /\ Platform!Assistant!InvestigationConstants
       /\ Citing!InvestigationConstants /\ Platform!Pages!PageConstants
       /\ Manual!InterventionConstants /\ Fenced!InterventionConstants
       /\ Platform!Definition!DefinitionConstants /\ Templates!DefinitionConstants
       /\ Modbus!ModbusConstants
       /\ Platform!Shadows!ShadowConstants
       /\ Platform!Work!OrderConstants
       /\ Feed!FeedConstants /\ Query!QueryConstants /\ Shared!QueryConstants

-----------------------------------------------------------------------------
Init ==
    /\ part \in Parts
    /\ \/ part = "feed" /\ Feed!Init
       \/ part = "memory" /\ Memory!Init /\ Zero8
       \/ part = "buffer" /\ Proved!Buffer!Init /\ Zero11
       \/ part = "history" /\ Proved!History!Init /\ Zero13
       \/ part = "archive" /\ Proved!Archives!Init /\ Zero7
       \/ part = "local" /\ Local!Init /\ Zero11
       \/ part = "remote" /\ Remote!Init /\ Zero11
       \/ part = "agent" /\ Proved!Agent!Init /\ Zero13
       \/ part = "release" /\ Proved!Release!Init /\ Zero9
       \/ part = "approval" /\ Platform!Approval!Init /\ Zero9
       \/ part = "changes" /\ Changes!Init /\ Zero13
       \/ part = "alarm" /\ Platform!Alarms!Init /\ Zero8
       \/ part = "replayed" /\ Platform!Alarms!Init /\ OneOperation /\ Zero8
       \/ part = "rule" /\ Rule!Init /\ Zero8
       \/ part = "device" /\ Device!Init /\ Zero10
       \/ part = "outage" /\ Outage!Init /\ Zero9
       \/ part = "chain" /\ Proved!Native!Init /\ DefinitionOnly /\ Zero11
       \/ part = "native" /\ Proved!Native!Init /\ EntityOnly /\ Zero11
       \/ part = "adopted" /\ Proved!Tasks!Init /\ RecomputeOnly /\ Zero11
       \/ part = "ledger" /\ Proved!Tasks!Init /\ DeliveryOnly /\ Zero11
       \/ part = "pages" /\ Platform!Pages!Init /\ Zero7
       \/ part = "citing" /\ Citing!Init /\ Zero10
       \/ part = "rounds" /\ Platform!Assistant!Init /\ NoReader /\ Zero10
       \/ part = "inquiry" /\ Platform!Assistant!Init /\ OneResult /\ Zero10
       \/ part = "fenced" /\ Fenced!Init /\ Zero12
       \/ part = "manual" /\ Manual!Init /\ Zero12
       \/ part = "templates" /\ Templates!Init /\ Zero10
       \/ part = "importing" /\ Platform!Definition!Init /\ OneEdit /\ Zero10
       \/ part = "publishing" /\ Platform!Definition!Init /\ NoneNeeded /\ Zero10
       \/ part = "polled" /\ Polled!Init /\ Zero10
       \/ part = "subscribed" /\ Subscribed!Init /\ Zero10
       \/ part = "modbus" /\ Modbus!Init /\ Zero9
       \/ part = "upstream" /\ Proved!Mqtt!Init /\ EventOnly /\ Zero13
       \/ part = "command" /\ Proved!Mqtt!Init /\ CommandOnly /\ Zero13
       \/ part = "analysis" /\ Platform!Shadows!Init /\ OneConsumer /\ Zero7
       \/ part = "shadow" /\ Platform!Shadows!Init /\ NoShadowFaults /\ Zero7
       \/ part = "worked" /\ Platform!Work!Init /\ OneCall /\ Zero7
       \/ part = "orders" /\ Platform!Work!Init /\ TwoVersions /\ Zero7
       \/ part = "shared" /\ Shared!Init /\ Zero8
       \/ part = "query" /\ Query!Init /\ Zero8
       \/ part = "config" /\ Config!Init /\ Zero11

Is(p) == part = p /\ UNCHANGED part

Next ==
    \/ Is("feed") /\ Feed!Next
    \/ Is("memory") /\ Memory!Next /\ UNCHANGED After8
    \/ Is("buffer") /\ Proved!Buffer!Next /\ UNCHANGED After11
    \/ Is("history") /\ Proved!History!Next /\ UNCHANGED After13
    \/ Is("archive") /\ Proved!Archives!Next /\ UNCHANGED After7
    \/ Is("local") /\ Local!Next /\ UNCHANGED After11
    \/ Is("remote") /\ Remote!Next /\ UNCHANGED After11
    \/ Is("agent") /\ Proved!Agent!Next /\ UNCHANGED After13
    \/ Is("release") /\ Proved!Release!Next /\ UNCHANGED After9
    \/ Is("approval") /\ Platform!Approval!Next /\ UNCHANGED After9
    \/ Is("changes") /\ Changes!Next /\ NoOverlap' /\ UNCHANGED After13
    \/ Is("alarm") /\ UNCHANGED v8 /\ Platform!Alarms!Next /\ NativeAlone' /\ UNCHANGED After8
    \/ Is("replayed") /\ Platform!Alarms!Next /\ OneOperation' /\ UNCHANGED After8
    \/ Is("rule") /\ Rule!Next /\ UNCHANGED After8
    \/ Is("device") /\ Device!Next /\ UNCHANGED After10
    \/ Is("outage") /\ Outage!Next /\ UNCHANGED After9
    \/ Is("chain") /\ Proved!Native!Next /\ DefinitionOnly' /\ UNCHANGED After11
    \/ Is("native") /\ Proved!Native!Next /\ EntityOnly' /\ UNCHANGED After11
    \/ Is("adopted") /\ Proved!Tasks!Next /\ RecomputeOnly' /\ UNCHANGED After11
    \/ Is("ledger") /\ Proved!Tasks!Next /\ DeliveryOnly' /\ UNCHANGED After11
    \/ Is("pages") /\ Platform!Pages!Next /\ UNCHANGED After7
    \/ Is("citing") /\ Citing!Next /\ UNCHANGED After10
    \/ Is("rounds") /\ Platform!Assistant!Next /\ NoReader' /\ UNCHANGED After10
    \/ Is("inquiry") /\ Platform!Assistant!Next /\ OneResult' /\ UNCHANGED After10
    \/ Is("fenced") /\ Fenced!Next /\ UNCHANGED After12
    \/ Is("manual") /\ Manual!Next /\ UNCHANGED After12
    \/ Is("templates") /\ Templates!Next /\ UNCHANGED After10
    \/ Is("importing") /\ Platform!Definition!Next /\ OneEdit' /\ UNCHANGED After10
    \/ Is("publishing") /\ UNCHANGED v9 /\ Platform!Definition!Next /\ UNCHANGED After10
    \/ Is("polled") /\ Polled!Next /\ UNCHANGED After10
    \/ Is("subscribed") /\ Subscribed!Next /\ UNCHANGED After10
    \/ Is("modbus") /\ Modbus!Next /\ UNCHANGED After9
    \/ Is("upstream") /\ Proved!Mqtt!Next /\ EventOnly' /\ UNCHANGED After13
    \/ Is("command") /\ Proved!Mqtt!Next /\ CommandOnly' /\ UNCHANGED After13
    \/ Is("analysis") /\ Platform!Shadows!Next /\ OneConsumer' /\ UNCHANGED After7
    \/ Is("shadow") /\ Platform!Shadows!Next /\ NoShadowFaults' /\ UNCHANGED After7
    \/ Is("worked") /\ Platform!Work!Next /\ OneCall' /\ UNCHANGED After7
    \/ Is("orders") /\ Platform!Work!Next /\ TwoVersions' /\ UNCHANGED After7
    \/ Is("shared") /\ Shared!Next /\ UNCHANGED After8
    \/ Is("query") /\ Query!Next /\ UNCHANGED After8
    \/ Is("config") /\ Config!Next /\ UNCHANGED After11

(* The fairness of each component.  Only one of them has steps, so weak     *)
(* fairness of a disjunction over them is that of each one.                 *)
MainStep ==
    \/ Is("feed") /\ Feed!PublishStep
    \/ Is("buffer") /\ Proved!Buffer!CallStep /\ UNCHANGED After11
    \/ Is("history") /\ Proved!History!WorkerStep /\ UNCHANGED After13
    \/ Is("local") /\ Local!Step /\ UNCHANGED After11
    \/ Is("changes") /\ Changes!Step /\ NoOverlap' /\ UNCHANGED After13
    \/ Is("agent") /\ Proved!Agent!Agent /\ UNCHANGED After13
    \/ Is("rule") /\ Rule!Tick /\ UNCHANGED After8
    \/ Is("device") /\ Device!ConnectorStep /\ UNCHANGED After10
    \/ Is("config") /\ Config!Step /\ UNCHANGED After11
    \/ Is("query") /\ Query!Loop /\ UNCHANGED After8
    \/ Is("upstream") /\ Proved!Mqtt!ManagerStep /\ EventOnly' /\ UNCHANGED After13
    \/ Is("subscribed") /\ Subscribed!RunStep /\ UNCHANGED After10
    \/ Is("polled") /\ Polled!RunStep /\ UNCHANGED After10
    \/ Is("release") /\ Proved!Release!AgentStep("x") /\ UNCHANGED After9
SecondStep ==
    \/ Is("feed") /\ Feed!Closing
    \/ Is("buffer") /\ Proved!Buffer!ReplayStep /\ UNCHANGED After11
    \/ Is("history") /\ Proved!History!Evaluate(1) /\ UNCHANGED After13
    \/ Is("agent") /\ Proved!Agent!Program /\ UNCHANGED After13
    \/ Is("rule") /\ Rule!Elapse /\ UNCHANGED After8
    \/ Is("device") /\ Device!Restart /\ UNCHANGED After10
    \/ Is("config") /\ Config!Turn /\ UNCHANGED After11
    \/ Is("query") /\ Query!ClientStep(1) /\ UNCHANGED After8
    \/ Is("upstream") /\ Proved!Mqtt!OfferReading /\ EventOnly' /\ UNCHANGED After13
    \/ Is("subscribed") /\ Subscribed!SubscribeStep /\ UNCHANGED After10
    \/ Is("release") /\ Proved!Release!AgentStep("y") /\ UNCHANGED After9
ThirdStep ==
    \/ Is("feed") /\ (\E s \in {1, 2} : Feed!Receive(s) \/ Feed!Stop(s))
    \/ Is("buffer") /\ Proved!Buffer!SweepStep /\ UNCHANGED After11
    \/ Is("history") /\ Proved!History!Evaluate(2) /\ UNCHANGED After13
    \/ Is("subscribed") /\ Subscribed!LinkUp /\ UNCHANGED After10
    \/ Is("polled") /\ Polled!LinkUp /\ UNCHANGED After10
    \/ Is("release") /\ Proved!Release!Reconcile(1) /\ UNCHANGED After9
BufferStep(A) == Is("buffer") /\ A /\ UNCHANGED After11

Fairness ==
    /\ WF_vars(MainStep) /\ WF_vars(SecondStep) /\ WF_vars(ThirdStep)
    /\ WF_vars(BufferStep(Proved!Buffer!Connect))
    /\ WF_vars(BufferStep(Proved!Buffer!Lapse(1))) /\ WF_vars(BufferStep(Proved!Buffer!Lapse(2)))
    /\ WF_vars(BufferStep(Proved!Buffer!ReportGap(1)))
    /\ WF_vars(BufferStep(Proved!Buffer!ReportGap(2)))

SafetySpec == Init /\ [][Next]_vars
Spec == SafetySpec /\ Fairness
-----------------------------------------------------------------------------
TypeOK ==
    /\ part = "feed" => Feed!TypeOK
    /\ part = "memory" => Memory!TypeOK
    /\ part = "buffer" => Proved!Buffer!TypeOK
    /\ part = "history" => Proved!History!TypeOK
    /\ part = "archive" => Proved!Archives!TypeOK
    /\ part = "local" => Local!TypeOK
    /\ part = "remote" => Remote!TypeOK
    /\ part = "agent" => Proved!Agent!TypeOK
    /\ part = "release" => Proved!Release!TypeOK
    /\ part = "approval" => Platform!Approval!TypeOK
    /\ part = "changes" => Changes!TypeOK
    /\ part = "alarm" => Platform!Alarms!TypeOK
    /\ part = "replayed" => Platform!Alarms!TypeOK
    /\ part = "rule" => Rule!TypeOK
    /\ part = "device" => Device!TypeOK
    /\ part = "outage" => Outage!TypeOK
    /\ part = "chain" => Proved!Native!TypeOK
    /\ part = "native" => Proved!Native!TypeOK
    /\ part = "adopted" => Proved!Tasks!TypeOK
    /\ part = "ledger" => Proved!Tasks!TypeOK
    /\ part = "pages" => Platform!Pages!TypeOK
    /\ part = "citing" => Citing!TypeOK
    /\ part = "rounds" => Platform!Assistant!TypeOK
    /\ part = "inquiry" => Platform!Assistant!TypeOK
    /\ part = "fenced" => Fenced!TypeOK
    /\ part = "manual" => Manual!TypeOK
    /\ part = "templates" => Templates!TypeOK
    /\ part = "importing" => Platform!Definition!TypeOK
    /\ part = "publishing" => Platform!Definition!TypeOK
    /\ part = "polled" => Polled!TypeOK
    /\ part = "subscribed" => Subscribed!TypeOK
    /\ part = "modbus" => Modbus!TypeOK
    /\ part = "upstream" => Proved!Mqtt!TypeOK
    /\ part = "command" => Proved!Mqtt!TypeOK
    /\ part = "analysis" => Platform!Shadows!TypeOK
    /\ part = "shadow" => Platform!Shadows!TypeOK
    /\ part = "worked" => Platform!Work!TypeOK
    /\ part = "orders" => Platform!Work!TypeOK
    /\ part = "shared" => Shared!TypeOK
    /\ part = "query" => Query!TypeOK
    /\ part = "config" => Config!TypeOK

(* A published reading reaches a stream of its consumer, or it is recorded  *)
(* as a gap.                                                                *)
Accounted == part = "feed" => Feed!Accounted

(* No command is carried out by two calls at the same time or, after an     *)
(* intervention, once more; and no reading triggers a strategy, a request   *)
(* changes a work order or an observation enters a shadow evaluation twice; *)
(* a recomputation of an earlier version is adopted once.                   *)
OneExecution ==
    /\ part = "adopted" => Proved!Tasks!AdoptedOnce
    /\ part = "manual" => Manual!SentOnce
    /\ part = "fenced" => Fenced!SentOnce
    /\ part = "memory" => Memory!OneExecution
    /\ part = "rule" => Rule!TriggersOnce
    /\ part = "orders" => Platform!Work!TakenOnce
    /\ part = "worked" => Platform!Work!TakenOnce
    /\ part = "shadow" => Platform!Shadows!FollowsInputs /\ Platform!Shadows!OneRunEach
    /\ part = "analysis" => Platform!Shadows!FollowsInputs /\ Platform!Shadows!OneRunEach

(* An accepted reading is in the buffer, at the broker or recorded as a     *)
(* gap, an event its device takes for committed is stored, and a delivery   *)
(* to ThingsBoard ends only after it was shown.                             *)
NothingLost ==
    /\ part = "buffer" => Proved!Buffer!NothingLost
    /\ part = "upstream" => Proved!Mqtt!AckedIsStored
    /\ part = "native" => Proved!Native!DeliveredWasShown
    /\ part = "chain" => Proved!Native!DeliveredWasShown

(* An accepted late reading is counted, queued, or the job has to count it, *)
(* and what is to be delivered or computed has a task.                      *)
NothingForgotten ==
    /\ part = "history" => Proved!History!NothingForgotten
    /\ part = "ledger" => Proved!Tasks!NothingWithoutTask
    /\ part = "adopted" => Proved!Tasks!NothingWithoutTask

(* The worker of a stopped job or a cancelled run writes nothing more, and  *)
(* nothing is added to an investigation that has ended.                     *)
StoppedWritesNothing ==
    [][/\ part = "inquiry" => Platform!Assistant!NothingAdded
       /\ part = "rounds" => Platform!Assistant!NothingAdded
       /\ part = "history" => Proved!History!WritesOnlyOwn
       /\ part = "shadow" => Platform!Shadows!CancelledStands
       /\ part = "analysis" => Platform!Shadows!CancelledStands]_vars

(* Every point is in one place, a hot row or one block of the archive.      *)
OnePlace == part = "archive" => Proved!Archives!OnePlace

(* No point within its retention disappears.                                *)
KeptWhileRetained == [][part = "archive" => Proved!Archives!Keeps]_vars

(* A query misses no point stored before it began, a client shows what was  *)
(* stored and permitted at its cursor, and who follows pages to the end     *)
(* misses no document that was there and readable all the while.            *)
QueryMissesNothing ==
    /\ part = "pages" => Platform!Pages!PagesComplete
    /\ part = "archive" => Proved!Archives!QueryMissesNothing
    /\ part = "query" => Query!ShowsItsCursor
    /\ part = "shared" => Shared!ShowsItsCursor

(* An operation has one outcome, the same at the edge and in the cloud, a   *)
(* batch of drafts is made as a whole or not at all, a cancelled or         *)
(* completed execution is just that, whoever intervened, and a task and its *)
(* document end alike, changed only by operators who saw what they change.  *)
OneOutcome ==
    /\ part = "ledger" => Proved!Tasks!OperatorsSeeWhatTheyChange
    /\ part = "adopted" => Proved!Tasks!OperatorsSeeWhatTheyChange /\ Proved!Tasks!EndsAlike
    /\ part = "manual" => Manual!CancelledStays /\ Manual!CompletedIsDone
    /\ part = "fenced" => Fenced!CancelledStays /\ Fenced!CompletedIsDone
    /\ part = "templates" => Templates!BatchesWhole
    /\ part = "local" => Local!OneOutcome
    /\ part = "remote" => Remote!OneOutcome

(* What is shown of another place is what is there: with every receipt      *)
(* delivered the cloud shows the status of the edge, good readings are what *)
(* their device had at one time, without a session none is good, an answer  *)
(* that is called supported cites what its model had read, and ThingsBoard  *)
(* ends with the newest version of an entity.                               *)
ShownIsTrue ==
    /\ part = "native" => Proved!Native!NotOlderThanNoted /\ Proved!Native!NewestShown
    /\ part = "inquiry" => Platform!Assistant!AnswerRests /\ Platform!Assistant!SupportedIsTrue
    /\ part = "rounds" => Platform!Assistant!AnswerRests /\ Platform!Assistant!SupportedIsTrue
    /\ part = "citing" => Citing!AnswerRests /\ Citing!SupportedIsTrue
    /\ part = "modbus" => Modbus!ShowsWhole
    /\ part = "subscribed" => Subscribed!NoneGoodWithoutSession /\ Subscribed!SessionsClosed
    /\ part = "polled" => Polled!NoneGoodWithoutSession /\ Polled!SessionsClosed
    /\ part = "local" => Local!CloudShowsEdge
    /\ part = "remote" => Remote!CloudShowsEdge

(* The outcome the cloud knows of an operation stands, and a configuration, *)
(* the report of one, or the cursor of a client never gives way to an older *)
(* one; an investigation ends once.                                         *)
OutcomesStand ==
    [][/\ part = "inquiry" => Platform!Assistant!EndsOnce
       /\ part = "rounds" => Platform!Assistant!EndsOnce
       /\ part = "pages" => Platform!Pages!PagesGoOn
       /\ part = "local" => Local!Stand
       /\ part = "remote" => Remote!Stand
       /\ part = "device" => Device!NeverBack
       /\ part = "config" => Config!ReportsAdvance
       /\ part = "query" => Query!CursorsAdvance
       /\ part = "shared" => Shared!CursorsAdvance]_vars

(* A configuration shown as applied, or as running, is the one that runs,   *)
(* a command is answered as its device has dealt with it, and an execution  *)
(* is shown as over, and its steps with outcomes, when they are, but for a  *)
(* command of the coordinator before that a rejection, or a refusal, after  *)
(* the take-over did not look for (Overlooked, the code as it is).          *)
ReceiptTrue ==
    /\ part = "manual" => Manual!OutcomesTrue /\ Manual!OverIsQuiet
    /\ part = "fenced" => Fenced!OutcomesTrue /\ Fenced!OverIsQuiet
    /\ part = "command" => Proved!Mqtt!AnswerTrue
    /\ part = "modbus" => Modbus!SuccessIsWritten
    /\ part = "device" => Device!ReceiptTrue
    /\ part = "config" => Config!ReportTrue

(* The normal and the degraded plan of an execution do not run side by side.*)
BranchesApart == part = "outage" => Outage!BranchesApart

(* One program of the node runs at a time.                                  *)
OneProgram == part = "agent" => Proved!Agent!OneProgram

(* A batch enters on releases the present instances have run.               *)
EntersOnRunning == [][part = "release" => Proved!Release!RanBefore]_vars

(* A request goes on only with the signatures of two persons.               *)
TwoPersons == part = "approval" => Platform!Approval!TwoPersons

(* Nothing is dispatched or started on a signature that does not stand, no  *)
(* work order is changed on a responsibility or a right that does not, and  *)
(* no definition is published on a draft or on dependencies that do not.    *)
OnStandingSignatures ==
    [][/\ part = "approval" => Platform!Approval!Standing
       /\ part = "publishing" => Platform!Definition!PublishedProperly
       /\ part = "importing" => Platform!Definition!PublishedProperly
       /\ part = "orders" => Platform!Work!WorkedProperly
       /\ part = "worked" => Platform!Work!WorkedProperly]_vars

(* No cursor passes what the other side has not committed.                  *)
NothingSkipped == part = "changes" => Changes!NothingSkipped

(* Sites that know the same operations on an alarm show the same case, and  *)
(* each has a plan of every published version that it has, or isolated it;  *)
(* the journal of the sites can follow an execution whatever it missed.     *)
SitesAgree ==
    /\ part = "manual" => Manual!JournalFollows
    /\ part = "fenced" => Fenced!JournalFollows
    /\ part = "publishing" => Platform!Definition!PlansPresent
    /\ part = "importing" => Platform!Definition!PlansPresent
    /\ part = "alarm" => Platform!Alarms!SitesAgree
    /\ part = "replayed" => Platform!Alarms!SitesAgree

(* The handling of an alarm is completed only in a state that allows it.    *)
CompletionsAllowed ==
    [][/\ part = "alarm" => Platform!Alarms!CompletedProperly
       /\ part = "replayed" => Platform!Alarms!CompletedProperly]_vars

(* The calls of the gateway return: Publish is held up for ever only by a   *)
(* client that does not read, and its runtime always closes.                *)
CallsReturn ==
    /\ (part = "feed" /\ Feed!Locked)
         ~> (part = "feed" => ~Feed!Locked \/ \E s \in {1, 2} : v8[s].pc = "send")
    /\ (part = "feed" /\ v12 = "stopping") ~> (part = "feed" => v12 \in {"closed", "running"})

(* What was accepted is dealt with in the end: a buffered reading is        *)
(* delivered or reported missing, a late reading is counted unless its job  *)
(* is stopped, a changed document reaches the other side, a duration of a rule *)
(* that has run out takes effect, a saved connector is applied, a dynamic   *)
(* parameter is reported as running, a commit reaches the subscriber, a     *)
(* value of an OPC UA server is shown, and a reading passes the events of   *)
(* another connector.  In three cases the code never gets there, and these  *)
(* count as dealt with: the stop of a connector has failed, and its update  *)
(* is answered with that for ever (RefusedForGood); a right that an edge    *)
(* used was revoked, and every exchange with its change is refused          *)
(* (HeldByRight); and the late write of an abandoned call has set back what *)
(* the cloud noted, and the edge is refused (HonestNodeRefused).            *)
Accepted(m) ==
    \/ part = "rule" /\ Rule!Overdue /\ m = 1
    \/ part = "device" /\ Device!ConnectorWaits /\ m = 1
    \/ part = "config" /\ Config!ParameterWaits("p") /\ m = 1
    \/ part = "query" /\ Query!Behind(1) /\ m = 1
    \/ part = "changes" /\ Changes!Waiting(m)
    \/ part = "buffer" /\ m \in v6
    \/ part = "history" /\ m \in v11
    \/ part = "upstream" /\ v12 = "offered" /\ m = 1
    \/ part = "subscribed" /\ Subscribed!Behind(m)
    \/ part = "polled" /\ Polled!Behind(m)
DealtWith(m) ==
    \/ part = "rule" /\ ~Rule!Overdue
    \/ part = "device" /\ (~Device!ConnectorWaits \/ Device!RefusedForGood)
    \/ part = "config" /\ ~Config!ParameterWaits("p")
    \/ part = "query" /\ ~Query!Behind(1)
    \/ part = "changes" /\ Changes!Exchanged(m)
    \/ part = "buffer" /\ m \in v4 \cup v3
    \/ part = "history" /\ Proved!History!Counted(m)
    \/ part = "upstream" /\ v12 = "published"
    \/ part = "subscribed" /\ ~Subscribed!Behind(m)
    \/ part = "polled" /\ ~Polled!Behind(m)
AcceptedIsDealtWith == \A m \in {1, 2} : Accepted(m) ~> DealtWith(m)

(* What the cloud orders has an end that it learns of: an operation has an  *)
(* outcome, an assigned release runs or has failed, and an active deployment*)
(* ends or is held.                                                         *)
Ordered ==
    \/ part = "local" /\ Local!Pending("o")
    \/ part = "agent" /\ v1.generation > 0
    \/ part = "release" /\ Proved!Release!Active(1)
Ended ==
    \/ part = "local" /\ Local!Settled("o")
    \/ part = "agent" /\ Proved!Agent!Settled
    \/ part = "release" /\ ~Proved!Release!Active(1)
OrdersEnd == Ordered ~> Ended
=============================================================================
