# Formal model of the smart factory platform

This directory holds TLA+ models of the Go services in this repository, the TLC
configurations that check them on small instances, and TLAPS proofs of their
most important guarantees for every instance.

## 1. The system

| part | code | state it keeps | operations |
|---|---|---|---|
| gateway (DataTransfer) | `DataTransfer/internal` | command journal, durable outbox, replay buffer, device configuration | collects device data, executes commands, delivers messages until acknowledged |
| site control | `Platform/internal/control`, `store/control.go` | execution documents, transitions, action journal, evidence | approve, dispatch, run, cancel, reconcile, resume |
| site coordination | `Platform/internal/coordination` | lease, journal and active buckets in a NATS key-value store with three replicas | acquire, renew, validate, checkpoint, recover, serve remote steps |
| bridge | `Platform/internal/datatransfer` | inbox, outbox of configurations | accepts batches, sends commands, looks up results |
| exchange | `Platform/internal/cloudsync` | cursors, relays, conflicts | exchanges documents and observations between cloud and edges |
| store | `Platform/internal/store` | documents, observations, tasks, archive, query projection | transactions, claims, retention, archiving |
| rules and tasks | `engine`, `rulecore`, `compiledplan`, `tasks` | rule state, timers, history computations | evaluate, schedule, compute again |
| releases | `releaseagent`, `releaseruntime`, `releasebundle`, `application/releases.go` | release state files, deployments | stage, switch, check, report, roll out in batches |
| configuration center | `configcenter`, `nodeidentity`, `deviceconfig` | versions, node acknowledgements | publish, apply, confirm |
| applications | `application`, `scenetemplates`, `plugins` | work orders, shadow candidates, drafts, investigations | business operations |
| views | `thingsboard`, `ai`, `application/queries.go` | native mappings, evidence, subscriptions | project, poll, investigate, subscribe |
| front doors | `api`, `identity`, `notifications`, `Frontends` | sessions, deliveries | requests of users |

How they interact. A command from an approved plan runs through four parts:
`control` decides and keeps the action journal, `coordination` gives one edge
the lease of an execution and carries steps to the edge that owns the device,
`datatransfer.Bridge` hands the step to the gateway of that edge, and the
gateway's command service executes it once.  Measurements go the other way:
connectors, reporting strategy, outbox, bridge, store, rule engine, exchange.

What is hard, and what has to hold:

* *control and coordination* - two edges may both believe that they coordinate,
  every database commit and every key-value write is separate, step requests
  are delayed or answered late, operators step in meanwhile.  A device step
  must be carried out at most once, in order; the journal must only move
  forward; what is shown as over must be over.
* *approval* - rights, people, plans and conditions change between a signature
  and the step that rests on it.  Nothing goes on without two persons, nothing
  on what no longer stands.
* *gateway commands* - requests are repeated and concurrent, answers of devices
  are lost, the process restarts.  A command is executed no more often than
  allowed, and one definite outcome is told to everybody.
* *gateway readings* - queues are full, clients disconnect, the journal of gaps
  fails.  A reading reaches its consumer or is recorded as missing.
* *delivery, exchange, store* - acknowledgements are lost and repeated, claims
  expire while their holder still works, late data meets an archived block.
  Nothing that was acknowledged is lost, nothing is applied twice, no cursor
  passes what the other side has not committed.
* *rules, tasks, applications* - deliveries come in any order and again after a
  crash, documents change between a check and its commit, two sites decide at
  the same time.  Inputs count once, both sites come to the same decision.
* *releases, configuration* - restarts between two steps of a switch; the
  running version and the recorded one have to agree.

## 2. Modules

| module | models | proofs |
|---|---|---|
| `SiteExecution` | one coordinated execution over several edges | `SiteExecution_proofs` |
| `StepLedger` | what the execution promises about physical steps (abstract) | implemented by `SiteExecution` |
| `Interventions` | operators who cancel, reconcile and resume against a run | |
| `ControlApproval` | a request from its first signature to its start | `Document_proofs` |
| `ControlExchange` | an execution between cloud and edge: downlinks, receipts, operations | |
| `CommandService` | the gateway's command service and journal | `CommandService_proofs` |
| `TelemetryFeed` | a reading from the collection queue to the streams of consumers | `TelemetryFeed_proofs` |
| `Outbox` | durable messages from the gateway's outbox to the database of the edge | `Outbox_proofs` |
| `ReplayBuffer` | readings through the buffer of a gateway to the MQTT broker | `Component_proofs` |
| `MqttConnector`, `ModbusConnector`, `OpcuaConnector` | the connectors and the manager that runs them | `Component_proofs` (MQTT) |
| `DeviceConfiguration` | a connector's and a device's configuration from edge to gateway | |
| `WorkloadConfiguration` | the configuration of a node from the center to its program | |
| `ChangeExchange` | documents, permissions, audit records and cursors between cloud and edge | `ChangeExchange_proofs` |
| `AlarmHandling` | one alarm: rule engine, operations at two sites, ThingsBoard | `Document_proofs` |
| `RuleRuntime` | evaluation of a strategy: deliveries, timers, versions | |
| `HistoryReplay` | late readings and what is computed again for them | `Component_proofs` |
| `TaskLedger` | background tasks: adoption, work, cancellation, retry | `Component_proofs` |
| `ShadowAnalysis` | a rule evaluated beside the one in force | `Document_proofs` |
| `Archive` | hot rows and blocks of one series, with queries and retention | `Component_proofs` |
| `QuerySubscription` | the query projection and its subscribers | |
| `DefinitionPublishing` | drafts, publication, preparation, import, templates | `Document_proofs` |
| `WorkOrders` | work orders and their handlers | `Document_proofs` |
| `Investigations`, `DocumentPages` | what the assistant reads, keeps as evidence and cites | `Document_proofs` |
| `NativeProjection` | an entity or a definition as ThingsBoard shows it | `Component_proofs` |
| `ReleaseAgent`, `ReleaseDeployment` | a node's agent; deployments in batches in the cloud | `Component_proofs` |
| `MCSystem` | the components that have no run of their own | `MCSystem_proofs` |
| `MCSiteExecution`, `MCSiteUnfenced`, `MCCommandService`, `MCOutbox`, `MCTelemetryFeed`, `MCShadowState`, `MCUpstreamBlocked` | instances for TLC | |

Each module of a component begins with a comment that says what it models, from which files,
and what it leaves out; its constants named "bound" exist for TLC only.  The
notes below say how state and actions of the larger ones correspond to the code.

### MCSystem: a run for many components

`MCSystem` has a variable `part` and as many variables as the largest
component.  The first state chooses a component of `Parts`, and only this one
takes steps, so that the state space is the sum of those of its parts and each
property (`part = "feed" => Feed!Accounted`) is checked of its component
exactly as in a run of its own.  A property of `MCSystem` is one promise of the
system, kept by several components: `OneExecution` (nothing is carried out
twice), `NothingLost`, `NothingForgotten`, `OneOutcome`, `ShownIsTrue`,
`ReceiptTrue`, `SitesAgree`, `QueryMissesNothing`, `OutcomesStand`,
`StoppedWritesNothing`, `OnStandingSignatures` and so on; the comment above
each says what it means for which component.  Some components appear twice,
under constants that bring out different cases (`local` and `remote`, `orders`
and `worked`, `manual` and `fenced`, `native` and `chain`).  Components with a
module of proofs are instantiated from it.

### SiteExecution

A thread is one call in progress on an edge.  Runners execute `Service.Run` and
`Service.Cancel`, handlers execute `ServeCommands` and `ExecuteRemoteStep`.
Each database transaction and each key-value operation is one action, so all
interleavings between two of them are explored.

| variable | code |
|---|---|
| `lease` | key of the execution in the lease bucket; `rev` is the revision, `fence` 0 between the two writes of `Acquire` |
| `journal`, `active` | signed checkpoint and entry in the active bucket |
| `doc[e]` | `model.Execution` in the database of edge `e` |
| `act[e][s]` | `control_actions` of edge `e`: none, reserved, or the result |
| `sent[s]` | history: commands handed to the device of step `s` |
| `thr[t]` | local variables of a call: label, the document it read, step, result, the fence to release |
| `net` | step requests not yet received |

Actions follow the code: `Begin` (load or accept, recover and adopt the
journal), `Claim`, `Commit`, `LeaseHeld`, `CoordinationFails`, `Degrade`,
`Reject`, `Start`, `WriteJournal`, `WriteActive`, `PickStep`, `Reserve`,
`Refuse`, `Dispatch`, `Command`, `Timeout`, `Record`, `Finish`, `Release`;
`Receive`, `Import`, `Respond`; `BeginCancel`, `Cancel`; and as failures
`Abort`, `ExpireLease`, `Crash`.  An action that commits a document also
performs the first check of the checkpoint that follows (`Proceed`).

Abstractions: the clock (a lease can run out whenever it is held, which covers
every real timing), signatures, approvals, parameters and conditions (an edge
in `RefusingEdges` may refuse at any check), `REJECTED` and `TIMEOUT` as
`FAILURE`.  One execution is modelled: executions share no state but the
device, and a step belongs to one execution.

### Interventions

The same execution seen from the edge that coordinates it, with every result
kept apart and the gateway's journal (`device`) beside the edge's (`actions`):
`Cancel`, `Reconcile` and `Resume` are calls that read the document (`Begin`),
look outcomes up (`LookUp`), and commit if the version is still the one they
read; `Run` goes on meanwhile.  With `RemoteSteps` an intervention has to
acquire a newer fence and every commit is checkpointed.  The first state may be
one that was just taken over: `doc.command` is then a step which the coordinator
before has sent (`theirs[s] = "own"`) and of which this edge's `actions` know
nothing.  `Reject` is the end of a `Run` that finds a right, an approval, the
published version or a condition gone, before or after it acquired the lease;
`Before` is the same check made again between reservation and command.

### ControlApproval

A handler takes the documents its operation depends on one after the other
(`person`, `grants`, `org`, `plan`, `risk`), each with its version, and commits
if none of them has changed (`CheckRevisions`) and nobody has written the
request; `changes` counts what administrators and the plant change meanwhile.

### CommandService

`records` is the command journal (SQLite when `Durable`, else the map in
memory), `calls` the requests in progress, `sent` and `device` are histories of
what the device saw and answered, `answers` the replies given.  `Reserve` is
the transaction of `state.Store.Reserve` (or the map under the lock, together
with `prune`), `Route`, `Attempt`, `DeviceAnswers` and `DeviceFails` are
`execute`, `Complete` may fail before or after it took effect, `Reply` returns
or publishes, `Expire` ends the context of a call, `Close` and `Restart` end
the process.  The content of a command is a model value: equal contents have
equal digests.  The start deadline is a choice at both places it is checked.

### TelemetryFeed

`upstream` and `bpActive` are the collection queue of the connector manager,
`pub` is its loop together with the `Publish` it is in, `sub[s]` the
subscription of stream `s` with its bounded queue, `stream[s]` the goroutine
that serves the call, `consumers` and `saved` the registered consumers in
memory and in SQLite, `gaps` the journal of gaps (the pending groups and the
messages `FlushGaps` makes of them: one transaction moves them, so the model
keeps one set), `phase` the life of the runtime.  `Take`, `Observe`,
`Publish`, then one action for each turn of the loop over the subscribers
(`DrainStopped`, `Put`, `MakeRoom`, `Wait`), `RecordAbsent` and `Published`
follow `Manager.Start` and `Runtime.Publish`; `Register`, `Subscribe`,
`Receive`, `Sent`, `Disconnect`, `Stop`, `Drain` follow a stream;
`CancelRuntime` and `Close` are the two halves of `Runtime.Close`.  `Publish`
holds the read lock of the runtime while `Locked`; the actions that need the
write lock wait for it.  A failure of the sink or of the journal is a choice
bounded by `MaxFaults`.  A reading has one point; a gap is a pair of a scope
and a reading (the code merges gaps of a minute into one range with a count).
Streams without a consumer identifier are promised nothing and are left out,
and so is `BP_DEGRADE`, which slows collection and drops nothing.

### Outbox

`outbox` is the table `durable_outbox` (the place of a row is its sequence
number), `approved` the devices approved at the edge, `inbox` the edge's inbox,
`applied` counts how often the content of a message was written, `worker` is
the call of `PollPending` in progress, `net` the acknowledgements whose caller
gave up waiting.  `Poll`, `Prepare`, `Ingest`, `SendAck` and `EndOfTurn` follow
`PollPending` and `AcceptBatch`: messages are prepared outside of the
transaction, a batch is one transaction, each acknowledgement is a call of its
own, and a batch that failed anywhere is taken message by message (`After`).
`Ingest` may fail before or after its commit, an acknowledgement may be carried
out late (`LateAck`) or never, `Abandon` ends a poll anywhere: its time of five
seconds is over or the edge restarts.  A restart of the gateway changes no
table; the bridge sees failed calls.  Equal contents have equal digests.

## 3. Runs

| run | bounds | checks |
|---|---|---|
| `site_execution` | 2 edges, 2 normal steps and 1 degraded step, 1 runner and 1 handler per edge, 2 claims, 1 crash | `TypeOK`, `AtMostOnce`, `LedgerSpec`, `CompletedMeansDone`, `JournalProgress` |
| `command_journal` | a repeatable and a non-repeatable command, 2 contents, 2 concurrent requests, 1 retry, 1 restart | `TypeOK`, `SendBudget`, `NoFalseVerdict`, `AnswersFromJournal`, `OneExecution`, `SettledIsFinal`, `AcceptedIsAnswered` |
| `outbox` | 3 messages (one without device, two of different devices), 2 contents, polls of 2, 2 failures, 2 changes of approval | `TypeOK`, `AckedIsStored`, `AppliedOnce`, `DeliveredAmongRefused` |
| `system_safety` | the 41 parts of `MCSystem` | 15 invariants, 6 action properties |
| `system_liveness` | 14 of them, under `Fairness` | `CallsReturn`, `AcceptedIsDealtWith`, `OrdersEnd` |
| `cancel_resumed` | as `site_execution`, 3 claims | violates `CancelStops` |
| `unfenced_step` | two runners on one edge | violates `NormalStepsFenced` |
| `feed_changes` | 3 readings, 2 streams, 1 failure, `ON_CHANGE` | violates `ChangesDelivered` |
| `counted_once` | 2 late readings, no failure | violates `CountedOnce` |
| `second_program` | the agent may end while no file names its program | violates `OneProgram` |
| `shadow_state` | 3 observations of 2 devices | violates `FollowsInputs` |
| `upstream_blocked` | 1 event, its connector replaced once | violates `NeighbourServed` |

Bounds.  Two claims give one takeover, the smallest case in which an old and a
new coordinator coexist; one normal step on each edge gives a local and a
remote step in both orders of ownership; a single crash can fall between any
two actions.  The constraint `MCBound` of `site_execution` lets a cancellation
or an outage of coordination happen while the other edge has no part in the
execution yet and nothing has crashed; the part `outage` of `MCSystem` has them
at any time, under one claim and without crashes.  `MaxVersion` bounds how
often a run starts again.  Two requests are enough for a concurrent repetition,
a conflict and a repetition after a restart.  With queues of one reading the
second one finds a full queue; two streams of one consumer give the disconnect,
the reconnect and both alive at once.  Three messages and polls of two are the
smallest case in which a message lies behind a full poll.  In the parts of
`MCSystem` two persons, handlers, versions or readings are the fewest that can
meet each other, and the number of failures is the largest for which all parts
together can be checked in minutes: one for the buffer, the exchange, releases
and configuration, two for feed and replay, four for the agent, which has to
recover from one in the middle of another.  `ApprovalChanges` is 1: one change
between the reads of a handler and its commit; the proof covers any number.
The liveness run keeps what can hold a component up: a call of the exchange that
is given up while its handler goes on (two handlers), a revoked right, a
connector whose stop fails, a client that never reads.

Deadlock checking is off because these systems may stop: an execution ends,
and requests, failures and changes are bounded.

What the violations show: a cancellation whose checkpoint fails is not
repeated and the execution goes on elsewhere (`CancelStops`); a run that reads
a document degraded by another run of its edge sends a normal step with fence
0, which no check refuses (`NormalStepsFenced`); a publication that fails after
the reporting strategy accepted it is filtered when it is repeated
(`ChangesDelivered`); a reading that ingestion has just stored is counted by
the catch-up of a replay and once more live (`CountedOnce`); an agent that ends
while a program runs that no file names starts another one (`OneProgram`) - this
is so between its start and the note in `pending.json`, between its start by
`Restore` and the moment it is ready, and after a program that did not become
ready in twenty seconds was given up and the next release is prepared; a shadow
candidate of several devices forgets the state of those it has not just
evaluated (`FollowsInputs`); an event that its device sends again under another
identity is refused for ever and holds up every other connector
(`NeighbourServed`).

Where a passing run excludes such a case it says so: in the part `agent` the
agent ends at any time at which a file names each program (`NotedOnly`), the
shadow parts have one device, and in `site_execution` and `outage` an edge has
one runner, so `BranchesApart` is shown for one run at a time per edge.

### What the code does not keep, stated in a property

In these cases the code ends somewhere it should not.  No run is expected to
fail on them; each has a name, and the property of a passing run exempts states
of exactly this form, so that everything else is still checked.

*A command overlooked after a take-over* (`Interventions!Overlooked`, exempt from
`ReceiptTrue`).  An edge that takes an execution over has nothing of the steps
of the coordinator before in its own action journal.

* `reject` asks this journal only (`run.go:52-66`) and not `ActiveCommandID`, which
  `Cancel` does consult (`intervention.go:161`).  From the first state of the
  part `fenced` in which step 2 was taken over while it runs at its device, one
  step is enough: `Reject` records the final status "rejected".
* A step that is reserved again is checked again, and the refusal of `beforeStep`
  is recorded as its result (`run.go:489-511`): `Start`, `Reserve(2)`, `Before`
  (refused), `Record`, and the execution has failed with the result `FAILURE` of
  a command that is still under way and may succeed.

`architecture.md:67` (docs/implementation) says that what was under way when a
process ended is left as a result to be reconciled, and
`control-frontend-contract.md:18-19, 25, 47` (docs/evolution) that failed means a
definite result, rejected that the requirements for execution were not met, and
that an unknown result stays unknown until it is reconciled.  Without the
exemption TLC finds the two behaviours above in the part `fenced`.

*Three ways to wait for ever* (exempt from `AcceptedIsDealtWith`).  The liveness
run contains the events that lead there, and the formula counts their result as
the end of waiting:

* `DeviceConfiguration!RefusedForGood`.  When the old instance of a connector does
  not stop, `Manager.Apply` records the failure under the identifier of the
  update (`configmanager/manager.go:106-110, 140-151`) and answers every
  repetition with it (`76-82`); only a new version of the configuration is tried.
* `ChangeExchange!HeldByRight`.  When a right that an edge used was revoked before
  its operation reached the cloud, the import is refused (`business.go:129`), and
  with it the whole exchange (`exchange.go:88`), this one and every later one,
  whatever else they carry, until the right is given back.
* `ChangeExchange!HonestNodeRefused`.  `acknowledgeCursor` reads the progress of an
  edge and writes it in another transaction (`progress.go:17-48`).  When the edge
  has given a call up and that call still writes, it sets the cloud's note of
  what was offered back, and the next acknowledgement is taken for one of changes
  that were not offered (`progress.go:33-35`) - for ever, since an edge does not
  move its cursor back.

### Fairness

The safety runs assume none.  `AcceptedIsAnswered` assumes weak fairness of the
steps of each call: the goroutine of a call is scheduled, and a connector
returns from `SendCommand` at the latest when the context it was given ends.
`DeliveredAmongRefused` assumes that the loop of the bridge goes on (`Work`);
failures and changes of approval are bounded, so from some time on they stop.
`Fairness` of `MCSystem` is weak fairness of the workers of each part: the loop
of the manager with the `Publish` it is in, streams and `Close`; publication,
replay, sweep and the connection of the buffer; the task queue; the exchange
loop; the agent and the coordinator of deployments; rule worker and clock; the
configuration stream; the loop of subscriptions; a connector and its manager.
Each is a goroutine with a ticker or a queue (`app/workers.go`,
`connector/manager.go`, `northbound/mqtt`), which an error does not end.  It is
stated as three actions, one for each of up to three workers of a part, and
assumes nothing of clients, operators, failures or the devices.

## 4. Proofs

The theorems hold for any edges, plans, threads, people, streams, messages and
bounds that satisfy the assumptions.  Each of these is about what the code makes
true of its configuration: model values are distinct from `None`, numbers are
numbers, a runner is not a handler (`SiteAssumption`, `NoneAssumption`,
`PlanAssumption`: a step occurs in one plan once; `CommandAssumption`,
`OutboxAssumption`, `ApprovalConstants`, `FeedConstants`, `ExchangeConstants`,
`ArchiveConstants`: times are numbers; `ReleaseConstants`: the batches of a
deployment contain workloads; `HistoryConstants`: readings are numbered from 1;
`LedgerConstants`: a delivery is not a recomputation, a task is tried at least
once; and `PartConstants` for the
instances of `MCSystem`).  TLC evaluates all that are assumptions.

**`SiteExecution_proofs`**: `TypeCorrect`, `CommandedAtMostOnce` (`AtMostOnce`),
`JournalMovesForward` (`JournalProgress`).  `AtMostOnce` is not inductive: it
does not exclude a state in which a call is about to send a step that was sent
before.  The invariant `IInv` adds that a call past its reservation finds the
step in the action journal of its edge, that two calls never hold the same step
(`Exclusive`; a reservation succeeds only for a step without entry, and no
action ever removes an entry), and that a step without an entry, or held by a
call that has not sent it, was never sent.

Its second part proves `CompletedIsDone` (`CompletedMeansDone`) and
`ImplementsLedger` (`Spec => LedgerSpec`).  Both need that results are true
wherever they are kept.  `LInv` says of every copy - the action journals, the
documents, the checkpoint, the local variables of calls, the requests under
way - that a result in it is one the ledger has for the step (`Truth`), and
that whoever is past the last step has a result for each (`Settled`).  Every
step of `SiteExecution` is then a step of `StepLedger` or leaves the mapped
variables alone.

**`CommandService_proofs`**: `TypeCorrect`, `WithinBudget`, `VerdictsAreTrue`,
`AnswersAgree`, `ExecutedByOne` and `OutcomesAreFinal`, from `CInv`, which
relates the label of every call to the entry it reserved (`running` while the
call executes) and to the number of commands sent so far.

**`Outbox_proofs`**: `TypeCorrect`, `ForgottenWhenStored` (`AckedIsStored`) and
`WrittenOnce` (`AppliedOnce`).  `OInv` adds that an identifier has one row, that
every acknowledgement about to be sent or delayed is one of a stored content,
and that a message was written exactly when the inbox knows it.  The only fact
about numbers it needs is that a set of rows has a first element, which follows
from the well-foundedness of `<`.  That a poll holds at most `Limit` messages
(in `TypeOK`) is an argument about cardinalities of its own (`Bounded`).

**`Document_proofs`** holds the proofs about what people and workers do to
documents: read some, decide, and commit when the versions have not changed.
Each component is an instance with constants and variables of its own.  In all
of them the invariant says what a call that has not committed holds - not of the
documents as they are, which others change, but of the documents as they are
*if* their versions are the ones it noted.

*Approvals*: `TwoPersonsSign` (`TwoPersons`), `StandingSignatures` (nothing is
dispatched or started on a signature that does not stand) and
`SignaturesAreKept`.  `AInv` ties what a handler holds to the versions it read:
as long as the version of a document is the one it noted, the document says what
it noted (`HoldsDocuments`), and the same of the request (`HoldsRequest`).  The
comparison of versions in the commit then makes the checks, made on copies,
true of the documents themselves (`StandingStep`).

*Alarms*: `CompletedProperly` (`CompletionsAllowed`).  A call decides on the case
folded from the operations it knows and commits when their number has not
changed.  `AlarmInv` says that the operations of a site are never taken back
(`KnownAreMade`) and that with the same number the decision is still the right
one (`Decided`), although the alarm itself may have been re-evaluated.

*Definitions*: `PublishedOnActive` (`PublishedProperly`).  A publication walks
through all that its draft depends on, and compares the versions of what it
visited.  `EditInv` says that what it has read is the whole of what can be
reached, and that it does not lead back (`EditRight`).  The lemma `ReachStays`
is the reason why the comparison suffices: what can be reached changes only when
the version of something reached does.

*Work orders*: `WorkedAsThingsStand` (`TakenOnce`, `WorkedProperly`).  `WInv` says
of each call that what it checked holds as long as the versions of order, alarm
and persons are those it read (`CallsRight`), and of each entry of the order that
it answers a request, the same one whoever repeats it (`RequestsRight`).

*Shadow candidates*: `ObservedOnce` (`OneRunEach`) and `CancelledRunsStand`
(`CancelledStands`).  Two consumers may capture the same observation.  `ShadowInv`
says of a consumer that was about to store a run that, as long as the candidate
has the version it read, the number it took is the next one
(`HoldsCandidate`).  That a run has no input of a run before it is looked up in
the transaction itself.

*Investigations*: `SupportIsTrue` (`AnswerRests`, `SupportedIsTrue`) and
`InquiriesEnd` (`EndsOnce`, `NothingAdded`).  The request of the model outlives the
investigation, which may have failed, expired or been deleted, and goes on
writing.  `InquiryInv` says where the request can be for each status
(`CaseRight`): while it works the investigation runs, and what the model has
answered to is recorded but for the moment before its record (`ChatRight`).  So
a request that comes late finds the status changed.  Of a reader between two
queries it says that evidence which is held stays what it is (`ReadRight`), so
the references it was shown are those the model had.

*Pages of documents*: `PagesAreComplete` (`PagesComplete`).  A page ends when its
budget is used up, at a document that may not even be readable, and the next one
goes on behind it.  The invariant says that every document up to the place where
the reader is was shown to him, or has changed, or was not his to read, since he
began.

**`TelemetryFeed_proofs`**: `AllAccounted` (`Accounted`).  A reading that a
consumer is owed is handed over, in a gap, in a queue, or in a publication that
has not come to it.  `FInv` is the account: the queues and their order
(`Queues`), how far the publication has come through the subscribers
(`Publishing`), and for each reading and consumer where it is (`Accounts`).  A
lemma `KeptOn` lets every action show only what it does to one queue.

**`ChangeExchange_proofs`**: `TypeCorrect` and `NoneSkipped` (`NothingSkipped`).
The edge may give a call up while the cloud still works on it, so the invariant
cannot speak of the edge's own call alone.  `XInv` says of the request in every
handler, answered or abandoned, that the changes up to its cursor are in the
cloud's database or come with it, and that the cursor it acknowledges is one
behind which the edge has everything (`RequestHolds`); of an answer, that what
it passes is at the edge or in it (`AnswerHolds`, `ReplyHolds`).  Because logs and
databases only grow (`Grows`), each of these is kept by every step that does not
move the handler or the call itself.

**`Component_proofs`** holds the proofs about components that run beside others
in `MCSystem`, each an instance with constants and variables of its own.

*Archive*: `InOnePlace` (`OnePlace`) and `NoneDisappears` (`KeptWhileRetained`).
An inserted row is new, and the block it will go to differs from every other,
because the revisions of a time are numbered from 1 without a gap over rows and
blocks together (`Numbered`) - for as long as the time is within its retention,
which is when rows are inserted.  A block may be replaced by its remainder
because this was computed from the same contents and from a cut that the present
one has not fallen behind (`Retention`).  `RInv` also carries what rows and
blocks contain (`Stored`).  `NoPointMissed` (`QueryMissesNothing`): a query reads
the rows and then one block after the other, the latest first, while blocks are
committed and replaced.  `QueryRight` follows each point that was there when the
query began and still is: it is among those read, in a block that is still to be
read, or behind a full page.

*Agent*: `OneProgramRuns` (`OneProgram`).  The agent waits for the program it
stops, but it can only stop one that it knows.  The invariant `AInv` says who
knows the one that runs: the agent itself while it is alive and has a child;
otherwise `pending.json`, once the candidate was noted there; otherwise
`active.json`, and then of the release in it.  The theorem has the hypothesis
`NotedOnly`, that the agent does not end while a program runs that no file names.
Without it the theorem is false: the run `second_program` shows how.

*Deployments*: `EntersWhenRun` (`EntersOnRunning`): a batch enters and a
deployment completes only when the present instance of each workload has run the
release.  A report that comes late, or twice, is true of the instance with the
same epoch, of which there is only one (`LateTrue`), and a target shown as
running with the present epoch is one that the present instance has run
(`TargetTrue`).  `DInv` adds the shape of the documents.

*History*: `HistoryRemembers` (`NothingForgotten`).  Between the first window of
a run and its end, readings come in, are evaluated, or make the job pending.
`HInv` says that behind the cursor the draft has every stored reading
(`JobRight`): one that comes in order is behind the frozen range, because the
range ends no later than the last reading (`Reached`), and one that does not
makes a new generation of the job.  After the catch-up the draft lacks only
readings that wait for their live evaluation, which the mutex of the engine
holds back until the run has replaced the counts (`WorkerRight`).  What is
counted, or about to be (`Held`), then survives the replacement.  `HistoryStops`
(`StoppedWritesNothing`): a worker that still has the generation of its job
(`worker.fresh`) is at work only on a job that is not cancelled.

*Tasks*: `TasksAreSound` (`OperatorsSeeWhatTheyChange`, `AdoptedOnce`,
`NothingWithoutTask`, `EndsAlike`).  `TInv` relates row, document, task and
worker of one delivery or recomputation (`ThingRight`), and what an operator
holds to the present (`HeldRight`): the revision of a task counts exactly the
operations on it, so that a token which still fits belongs to a task on which
nobody has operated since; and the right of the present revision stands.

*Buffer*: `BufferLosesNothing` (`NothingLost`).  Rows are completed by their
numbers, after the broker confirmed them.  `BInv` says what each of the two
senders has in hand: when a sender was confirmed, its whole batch is at the
broker (`Delivered`).  A row that is completed therefore was received
(`Completed`), and one that goes without is recorded as a gap in the same
transaction (`Retained`, `RowsMove`).

*Projections to ThingsBoard*: `NewestIsShown` (`NewestShown`,
`DeliveredWasShown`).  Workers of several versions run at once.  `NInv` says
whose turn it is: the holder of the lock has compared its version with the
noted one and nobody else can have written since, so that what it notes is what
is shown (`Turns`, `Projected`).

*MQTT connector*: `MqttIsTrue` (`AckedIsStored`, `AnswerTrue`).  `MInv` follows
each message: an event keeps its identity through the queues until it is stored
and acknowledged (`Identified`, `Acknowledged`), and an answer on the wire, in
the pending entry or in the call is what the device addressed has done (`Told`).

**`MCSystem_proofs`** carries these to the system.  As `part` never changes, a
behaviour of `MCSystem` that begins with a component is a behaviour of this
component.  Proved of `MCSystem` are `Accounted`, `TwoPersons`, `NothingSkipped`,
`OnePlace`, `KeptWhileRetained`, `OneProgram` and `EntersOnRunning`, which are
promises of one component each, and five that several keep together:
`NothingForgotten` (history, tasks), `NothingLost` (buffer, MQTT connector,
projections), `CompletionsAllowed` (alarms, by themselves and beside a replay),
`OnStandingSignatures` (approvals, publication, work orders) and
`StoppedWritesNothing` (history, shadow candidates, investigations).

TLC checked every inductive invariant (`IInv`, `LInv`, `CInv`, `OInv`, the
two `AInv`, `FInv`, `XInv`, `RInv`, `DInv`, `HInv`, `TInv`, `BInv`, `NInv`, `MInv`,
`AlarmInv`, `EditInv`, `WInv`, `InquiryInv`, `QueryRight`, `PagesInv`, and
`ShadowInv` but for the set its runs are taken from, which it cannot enumerate)
before it was proved.

Only model-checked:

* liveness, which rests on fairness and `ENABLED` and is beyond the prover;
* `BranchesApart`, which does not hold in general: it needs that there is one
  call at a time on each edge (see the run `unfenced_step`);
* `SitesAgree`: that two sites fold the same operations into the same case needs
  that a set has only one sorted sequence, an induction over data; the same goes
  for the sequences that `ShadowAnalysis` filters and sorts (`FollowsInputs`);
* `QueryMissesNothing` of subscriptions (`ShowsItsCursor`); its two other
  conjuncts, archive and pages, are proved of their components;
* of `OneExecution`, `OneOutcome`, `ShownIsTrue`, `ReceiptTrue` and `OutcomesStand`
  the system's statement, which has a conjunct for each of many components.
  Single conjuncts are proved of their component: `TakenOnce`, `AdoptedOnce`,
  `OneRunEach`, `EndsAlike`, `NewestShown`, `AnswerTrue`, `AnswerRests`,
  `SupportedIsTrue`, `EndsOnce`.

## 5. Plan

1. Proofs: `ShowsItsCursor` of `QuerySubscription`, and the conjuncts of
   `OneExecution` that `Interventions` and `RuleRuntime` contribute, as further
   instances of `Document_proofs` and `Component_proofs`.
2. Model: discovery and the telemetry stream of the bridge; files and metadata
   of the applications.

## 6. Not modelled

Protocol drivers and conversions of values, generated code, user interfaces,
calls to external services, formatting and request parsing: they keep no state
between calls, or none that another part reads.  Sessions and tokens of users
(`identity`) are sequential checks; their results, rights that change at any
time, are in the modules that depend on them.  Encodings (blocks of the
archive, bundles, signatures, certificates) are one-to-one, and a failed check
is a failure of the step.  The start of a process (`app`) is the initial state
or the restart of its components, and periodic workers are interleavings.
