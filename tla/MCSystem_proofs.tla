--------------------------- MODULE MCSystem_proofs ---------------------------
(***************************************************************************)
(* What the modules of proofs show of a component for all values of its    *)
(* constants, for this component as it stands beside the others.           *)
(***************************************************************************)
EXTENDS MCSystem, TLAPS

\* The component that the first state has chosen is the only one with steps.
LEMMA PartStays ==
    ASSUME [Next]_vars
    PROVE  UNCHANGED part
  BY DEF Next, Is, vars

LEMMA ApprovalSteps ==
    ASSUME [Next]_vars, part = "approval"
    PROVE  [Platform!Approval!Next]_(Platform!Approval!vars)
  BY DEF Next, Is, vars, After7, Platform!Approval!vars

LEMMA FeedSteps ==
    ASSUME [Next]_vars, part = "feed"
    PROVE  [Feed!Next]_(Feed!vars)
  BY DEF Next, Is, vars, After7, Feed!vars, Feed!journalVars, Feed!historyVars

LEMMA ChangesSteps ==
    ASSUME [Next]_vars, part = "changes"
    PROVE  [Changes!Next]_(Changes!vars)
  BY DEF Next, Is, vars, After7, After13, Changes!vars

LEMMA ArchiveSteps ==
    ASSUME [Next]_vars, part = "archive"
    PROVE  [Proved!Archives!Next]_(Proved!Archives!vars)
  BY DEF Next, Is, vars, After7, Proved!Archives!vars

LEMMA AgentSteps ==
    ASSUME [Next]_vars, part = "agent"
    PROVE  [Proved!Agent!Next]_(Proved!Agent!vars)
  BY DEF Next, Is, vars, After7, After13, Proved!Agent!vars

LEMMA ReleaseSteps ==
    ASSUME [Next]_vars, part = "release"
    PROVE  [Proved!Release!Next]_(Proved!Release!vars)
  BY DEF Next, Is, vars, After7, After9, Proved!Release!vars

LEMMA HistorySteps ==
    ASSUME [Next]_vars, part = "history"
    PROVE  [Proved!History!Next]_(Proved!History!vars)
  BY ZenonT(40) DEF Next, Is, vars, After7, After13, Proved!History!vars

LEMMA TasksSteps ==
    ASSUME [Next]_vars, part \in {"ledger", "adopted"}
    PROVE  [Proved!Tasks!Next]_(Proved!Tasks!vars)
  BY DEF Next, Is, vars, After7, After11, Proved!Tasks!vars

LEMMA BufferSteps ==
    ASSUME [Next]_vars, part = "buffer"
    PROVE  [Proved!Buffer!Next]_(Proved!Buffer!vars)
  BY DEF Next, Is, vars, After7, After11, Proved!Buffer!vars

LEMMA NativeSteps ==
    ASSUME [Next]_vars, part \in {"native", "chain"}
    PROVE  [Proved!Native!Next]_(Proved!Native!vars)
  BY DEF Next, Is, vars, After7, After11, Proved!Native!vars

LEMMA MqttSteps ==
    ASSUME [Next]_vars, part \in {"command", "upstream"}
    PROVE  [Proved!Mqtt!Next]_(Proved!Mqtt!vars)
  BY DEF Next, Is, vars, After7, After13, Proved!Mqtt!vars

LEMMA AlarmSteps ==
    ASSUME [Next]_vars, part \in {"alarm", "replayed"}
    PROVE  [Platform!Alarms!Next]_(Platform!Alarms!vars)
  BY DEF Next, Is, vars, After7, After8, Platform!Alarms!vars

LEMMA DefinitionSteps ==
    ASSUME [Next]_vars, part \in {"publishing", "importing"}
    PROVE  [Platform!Definition!Next]_(Platform!Definition!vars)
  BY DEF Next, Is, vars, After7, After10, Platform!Definition!vars

LEMMA WorkSteps ==
    ASSUME [Next]_vars, part \in {"orders", "worked"}
    PROVE  [Platform!Work!Next]_(Platform!Work!vars)
  BY DEF Next, Is, vars, After7, Platform!Work!vars

LEMMA ShadowSteps ==
    ASSUME [Next]_vars, part \in {"shadow", "analysis"}
    PROVE  [Platform!Shadows!Next]_(Platform!Shadows!vars)
  BY DEF Next, Is, vars, After7, Platform!Shadows!vars

LEMMA InquirySteps ==
    ASSUME [Next]_vars, part \in {"inquiry", "rounds"}
    PROVE  [Platform!Assistant!Next]_(Platform!Assistant!vars)
  BY DEF Next, Is, vars, After7, After10, Platform!Assistant!vars

\* A published reading reaches a stream of its consumer, or it is recorded as
\* a gap (Runtime.Publish, RecordGap).
THEOREM AllAccounted == SafetySpec => []Accounted
<1>1. Init /\ part = "feed" => Feed!Init
  BY DEF Init
<1>2. [Next]_vars /\ part = "feed" => [Feed!Next]_(Feed!vars) /\ (part = "feed")'
  BY FeedSteps, PartStays
<1>3. [Next]_vars /\ ~(part = "feed") => ~(part = "feed")'
  BY PartStays
<1>4. Feed!Init /\ [][Feed!Next]_(Feed!vars) => []Feed!Accounted
  <2>1. Feed!Init => Feed!FInv
    BY PartConstants, Feed!InitFInv
  <2>2. Feed!FInv /\ [Feed!Next]_(Feed!vars) => Feed!FInv'
    BY PartConstants, Feed!StepKeeps
  <2>3. Feed!FInv => Feed!Accounted
    BY DEF Feed!FInv
  <2> QED
    BY <2>1, <2>2, <2>3, PTL
<1>5. Feed!Accounted => Accounted
  BY DEF Accounted
<1>6. ~(part = "feed") => Accounted
  BY DEF Accounted
<1> QED
  BY <1>1, <1>2, <1>3, <1>4, <1>5, <1>6, PTL DEF SafetySpec

\* The invariant of the approval, as a part of MCSystem.
LEMMA ApprovalPart == SafetySpec => [](part = "approval" => Platform!AInv)
<1>1. Init => (part = "approval" => Platform!AInv)
  BY PartConstants, Platform!InitAInv DEF Init
<1>2. (part = "approval" => Platform!AInv) /\ [Next]_vars
      => (part = "approval" => Platform!AInv)'
  BY ApprovalSteps, PartStays, PartConstants, Platform!StepKeeps
<1> QED
  BY <1>1, <1>2, PTL DEF SafetySpec

\* A request goes on only with the signatures of two persons (ApproveVersion,
\* enough).
THEOREM TwoPersonsSign == SafetySpec => []TwoPersons
<1>1. (part = "approval" => Platform!AInv) => TwoPersons
  BY DEF TwoPersons, Platform!AInv
<1> QED
  BY <1>1, ApprovalPart, PTL

\* No cursor of the exchange between edge and cloud passes what the other side
\* has not committed (Client.Exchange, acknowledgeCursor, CompleteMetadata).
THEOREM NoneSkipped == SafetySpec => []NothingSkipped
<1>1. Init /\ part = "changes" => Changes!Init
  BY DEF Init
<1>2. [Next]_vars /\ part = "changes" => [Changes!Next]_(Changes!vars) /\ (part = "changes")'
  BY ChangesSteps, PartStays
<1>3. [Next]_vars /\ ~(part = "changes") => ~(part = "changes")'
  BY PartStays
<1>4. Changes!Init /\ [][Changes!Next]_(Changes!vars) => []Changes!NothingSkipped
  <2>1. Changes!Init => Changes!XInv
    BY PartConstants, Changes!InitXInv
  <2>2. Changes!XInv /\ [Changes!Next]_(Changes!vars) => Changes!XInv'
    BY PartConstants, Changes!StepKeeps
  <2>3. Changes!XInv => Changes!NothingSkipped
    BY Changes!NoneIsSkipped
  <2> QED
    BY <2>1, <2>2, <2>3, PTL
<1>5. Changes!NothingSkipped => NothingSkipped
  BY DEF NothingSkipped
<1>6. ~(part = "changes") => NothingSkipped
  BY DEF NothingSkipped
<1> QED
  BY <1>1, <1>2, <1>3, <1>4, <1>5, <1>6, PTL DEF SafetySpec

\* The invariant of the archive, of the archive as a part of MCSystem.
LEMMA ArchivePart == SafetySpec => [](part = "archive" => Proved!RInv)
<1>1. Init => (part = "archive" => Proved!RInv)
  BY PartConstants, Proved!ArchiveInit DEF Init
<1>2. (part = "archive" => Proved!RInv) /\ [Next]_vars => (part = "archive" => Proved!RInv)'
  <2> SUFFICES ASSUME part = "archive" => Proved!RInv, [Next]_vars, part' = "archive"
               PROVE  Proved!RInv'
    OBVIOUS
  <2>1. part = "archive"
    BY PartStays
  <2> QED
    BY <2>1, ArchiveSteps, PartConstants, Proved!ArchiveKeeps
<1> QED
  BY <1>1, <1>2, PTL DEF SafetySpec

\* Every point is in one place, a hot row or one block of the archive
\* (commitArchive, expireArchives).
THEOREM InOnePlace == SafetySpec => []OnePlace
<1>1. (part = "archive" => Proved!RInv) => OnePlace
  BY DEF OnePlace, Proved!RInv
<1> QED
  BY <1>1, ArchivePart, PTL

\* No point within its retention disappears, whatever is inserted while a
\* block is prepared or replaced (ArchiveObservations, ApplyRetention).
THEOREM NoneDisappears == SafetySpec => KeptWhileRetained
<1>1. (part = "archive" => Proved!RInv) /\ [Next]_vars
      => [part = "archive" => Proved!Archives!Keeps]_vars
  <2> SUFFICES ASSUME part = "archive" => Proved!RInv, [Next]_vars, part = "archive"
               PROVE  Proved!Archives!Keeps
    OBVIOUS
  <2> QED
    BY ArchiveSteps, PartConstants, Proved!NothingDropped
<1> QED
  BY <1>1, ArchivePart, PTL DEF SafetySpec, KeptWhileRetained

\* The programs of a node run one after the other (stop, Restore), as the
\* agent of MCSystem does not end while a program runs that no file names.
THEOREM OneProgramRuns == SafetySpec => []OneProgram
<1>1. Init => (part = "agent" => Proved!AInv)
  BY Proved!AgentInit DEF Init
<1>2. (part = "agent" => Proved!AInv) /\ [Next]_vars => (part = "agent" => Proved!AInv)'
  <2> SUFFICES ASSUME part = "agent" => Proved!AInv, [Next]_vars, part' = "agent"
               PROVE  Proved!AInv'
    OBVIOUS
  <2>1. part = "agent"
    BY PartStays
  <2> QED
    BY <2>1, AgentSteps, PartConstants, Proved!AgentKeeps
<1>3. (part = "agent" => Proved!AInv) => OneProgram
  BY Proved!KnownIsOne DEF OneProgram
<1> QED
  BY <1>1, <1>2, <1>3, PTL DEF SafetySpec

\* A batch enters, and a deployment completes, only on releases that the
\* present instances have run (Report, reconcileOne).
THEOREM EntersWhenRun == SafetySpec => EntersOnRunning
<1>1. Init => (part = "release" => Proved!DInv)
  BY PartConstants, Proved!InitDInv DEF Init
<1>2. (part = "release" => Proved!DInv) /\ [Next]_vars
      => /\ (part = "release" => Proved!DInv)'
         /\ [part = "release" => Proved!Release!RanBefore]_vars
  <2> SUFFICES ASSUME part = "release" => Proved!DInv, [Next]_vars
               PROVE  /\ part' = "release" => Proved!DInv'
                      /\ [part = "release" => Proved!Release!RanBefore]_vars
    OBVIOUS
  <2>1. CASE part = "release"
    <3>1. Proved!DInv' /\ Proved!Release!RanBefore
      BY <2>1, ReleaseSteps, PartConstants, Proved!ReleaseStep
    <3> QED
      BY <3>1
  <2>2. CASE part # "release"
    BY <2>2, PartStays
  <2> QED
    BY <2>1, <2>2
<1> QED
  BY <1>1, <1>2, PTL DEF SafetySpec, EntersOnRunning

\* The invariant of the ledger of tasks, of the ledger as a part of MCSystem.
LEMMA TasksPart == SafetySpec => [](part \in {"ledger", "adopted"} => Proved!TInv)
<1>1. Init => (part \in {"ledger", "adopted"} => Proved!TInv)
  BY PartConstants, Proved!LedgerInit DEF Init
<1>2. (part \in {"ledger", "adopted"} => Proved!TInv) /\ [Next]_vars
      => (part \in {"ledger", "adopted"} => Proved!TInv)'
  <2> SUFFICES ASSUME part \in {"ledger", "adopted"} => Proved!TInv, [Next]_vars,
                      part' \in {"ledger", "adopted"}
               PROVE  Proved!TInv'
    OBVIOUS
  <2>1. part \in {"ledger", "adopted"}
    BY PartStays
  <2> QED
    BY <2>1, TasksSteps, PartConstants, Proved!LedgerKeeps
<1> QED
  BY <1>1, <1>2, PTL DEF SafetySpec

\* The invariant of the recomputation of history, as a part of MCSystem.
LEMMA HistoryPart == SafetySpec => [](part = "history" => Proved!HInv)
<1>1. Init => (part = "history" => Proved!HInv)
  BY PartConstants, Proved!HistoryInit DEF Init
<1>2. (part = "history" => Proved!HInv) /\ [Next]_vars => (part = "history" => Proved!HInv)'
  <2> SUFFICES ASSUME part = "history" => Proved!HInv, [Next]_vars, part' = "history"
               PROVE  Proved!HInv'
    OBVIOUS
  <2>1. part = "history"
    BY PartStays
  <2> QED
    BY <2>1, HistorySteps, PartConstants, Proved!HistoryKeeps
<1> QED
  BY <1>1, <1>2, PTL DEF SafetySpec

\* An accepted reading is counted, queued, or the job has to count it, and
\* what is to be delivered or computed has a task (IngestMessages,
\* Recompute, ReconcileTasks).
THEOREM NoneIsForgotten == SafetySpec => []NothingForgotten
<1>1. /\ part = "history" => Proved!HInv
      /\ part \in {"ledger", "adopted"} => Proved!TInv
      => NothingForgotten
  BY PartConstants, Proved!NoneForgotten, Proved!LedgerSound DEF NothingForgotten
<1> QED
  BY <1>1, HistoryPart, TasksPart, PTL

\* The invariant of the buffer of a gateway, as a part of MCSystem.
LEMMA BufferPart == SafetySpec => [](part = "buffer" => Proved!BInv)
<1>1. Init => (part = "buffer" => Proved!BInv)
  BY PartConstants, Proved!BufferInit DEF Init
<1>2. (part = "buffer" => Proved!BInv) /\ [Next]_vars
      => (part = "buffer" => Proved!BInv)'
  <2> SUFFICES ASSUME part = "buffer" => Proved!BInv, [Next]_vars,
                      part' = "buffer"
               PROVE  Proved!BInv'
    OBVIOUS
  <2>1. part = "buffer"
    BY PartStays
  <2> QED
    BY <2>1, BufferSteps, PartConstants, Proved!BufferKeeps
<1> QED
  BY <1>1, <1>2, PTL DEF SafetySpec

\* The invariant of the projection to ThingsBoard, as a part of MCSystem.
LEMMA NativePart == SafetySpec => [](part \in {"native", "chain"} => Proved!NInv)
<1>1. Init => (part \in {"native", "chain"} => Proved!NInv)
  BY PartConstants, Proved!NativeInit DEF Init
<1>2. (part \in {"native", "chain"} => Proved!NInv) /\ [Next]_vars
      => (part \in {"native", "chain"} => Proved!NInv)'
  <2> SUFFICES ASSUME part \in {"native", "chain"} => Proved!NInv, [Next]_vars,
                      part' \in {"native", "chain"}
               PROVE  Proved!NInv'
    OBVIOUS
  <2>1. part \in {"native", "chain"}
    BY PartStays
  <2> QED
    BY <2>1, NativeSteps, PartConstants, Proved!NativeKeeps
<1> QED
  BY <1>1, <1>2, PTL DEF SafetySpec

\* The invariant of the connector of MQTT devices, as a part of MCSystem.
LEMMA MqttPart == SafetySpec => [](part \in {"command", "upstream"} => Proved!MInv)
<1>1. Init => (part \in {"command", "upstream"} => Proved!MInv)
  BY PartConstants, Proved!MqttInit DEF Init
<1>2. (part \in {"command", "upstream"} => Proved!MInv) /\ [Next]_vars
      => (part \in {"command", "upstream"} => Proved!MInv)'
  <2> SUFFICES ASSUME part \in {"command", "upstream"} => Proved!MInv, [Next]_vars,
                      part' \in {"command", "upstream"}
               PROVE  Proved!MInv'
    OBVIOUS
  <2>1. part \in {"command", "upstream"}
    BY PartStays
  <2> QED
    BY <2>1, MqttSteps, PartConstants, Proved!MqttKeeps
<1> QED
  BY <1>1, <1>2, PTL DEF SafetySpec

\* An accepted reading is in the buffer, at the broker or recorded as a gap
\* (Buffer.Enqueue, replayOnce), an event its device takes for committed is
\* stored (publishEvent), and a delivery to ThingsBoard ends only after it was
\* shown (projectTask).
THEOREM NothingIsLost == SafetySpec => []NothingLost
<1>1. /\ part = "buffer" => Proved!BInv
      /\ part \in {"native", "chain"} => Proved!NInv
      /\ part \in {"command", "upstream"} => Proved!MInv
      => NothingLost
  BY PartConstants, Proved!BufferRetains, Proved!NativeShows, Proved!MqttSound DEF NothingLost
<1> QED
  BY <1>1, BufferPart, NativePart, MqttPart, PTL

\* The handling of an alarm is completed only in a state that allows it, at
\* the site where it is completed (Business.ActOnAlarm, alarmAction).
THEOREM CompletedProperly == SafetySpec => CompletionsAllowed
<1> DEFINE Here == part \in {"alarm", "replayed"}
<1>1. Init => (Here => Platform!AlarmInv)
  BY Platform!AlarmsInit DEF Init
<1>2. (Here => Platform!AlarmInv) /\ [Next]_vars
      => /\ (Here => Platform!AlarmInv)'
         /\ [/\ part = "alarm" => Platform!Alarms!CompletedProperly
             /\ part = "replayed" => Platform!Alarms!CompletedProperly]_vars
  <2> SUFFICES ASSUME Here => Platform!AlarmInv, [Next]_vars
               PROVE  /\ Here' => Platform!AlarmInv'
                      /\ [/\ part = "alarm" => Platform!Alarms!CompletedProperly
                          /\ part = "replayed" => Platform!Alarms!CompletedProperly]_vars
    OBVIOUS
  <2>1. CASE Here
    <3>1. Platform!AlarmInv' /\ Platform!Alarms!CompletedProperly
      BY <2>1, AlarmSteps, Platform!AlarmsKeep
    <3> QED
      BY <3>1
  <2>2. CASE ~Here
    <3>1. ~Here'
      BY <2>2, PartStays
    <3> QED
      BY <2>2, <3>1
  <2> QED
    BY <2>1, <2>2
<1> QED
  BY <1>1, <1>2, PTL DEF SafetySpec, CompletionsAllowed

\* Nothing is dispatched or started on a signature that does not stand
\* (executionAccess, CheckRevisions), no work order is changed on a
\* responsibility or a right that does not (ChangeWorkOrder, HandoverWorkOrder),
\* and no definition is published on a draft or on dependencies that do not
\* (Definitions.Publish, CheckDependencies).
THEOREM AllStands == SafetySpec => OnStandingSignatures
<1> DEFINE Sound ==
        /\ part \in {"publishing", "importing"} => Platform!EditInv
        /\ part \in {"orders", "worked"} => Platform!WInv
<1>1. Init => Sound
  BY PartConstants, Platform!EditsInit, Platform!OrderInit DEF Init
<1>2. ASSUME part = "approval" => Platform!AInv, Sound, [Next]_vars
      PROVE  /\ Sound'
             /\ part = "approval" => Platform!Approval!Standing
             /\ part \in {"publishing", "importing"} => Platform!Definition!PublishedProperly
             /\ part \in {"orders", "worked"} => Platform!Work!WorkedProperly
  <2>1. UNCHANGED part
    BY <1>2, PartStays
  <2>2. CASE part = "approval"
    <3>1. Platform!Approval!Standing
      BY <1>2, <2>2, ApprovalSteps, PartConstants, Platform!StandingStep
    <3> QED
      BY <2>1, <2>2, <3>1
  <2>3. CASE part \in {"publishing", "importing"}
    <3>1. Platform!EditInv' /\ Platform!Definition!PublishedProperly
      BY <1>2, <2>3, DefinitionSteps, PartConstants, Platform!EditsKeep
    <3> QED
      BY <2>1, <2>3, <3>1
  <2>4. CASE part \in {"orders", "worked"}
    <3>1. Platform!WInv' /\ Platform!Work!WorkedProperly
      BY <1>2, <2>4, WorkSteps, PartConstants, Platform!OrderKeeps
    <3> QED
      BY <2>1, <2>4, <3>1
  <2> QED
    BY <2>1, <2>2, <2>3, <2>4
<1>3. (part = "approval" => Platform!AInv) /\ Sound /\ [Next]_vars
      => /\ Sound'
         /\ [/\ part = "approval" => Platform!Approval!Standing
             /\ part = "publishing" => Platform!Definition!PublishedProperly
             /\ part = "importing" => Platform!Definition!PublishedProperly
             /\ part = "orders" => Platform!Work!WorkedProperly
             /\ part = "worked" => Platform!Work!WorkedProperly]_vars
  <2> HIDE DEF Sound
  <2> QED
    BY <1>2
<1> QED
  <2> HIDE DEF Sound
  <2> QED
    BY <1>1, <1>3, ApprovalPart, PTL DEF SafetySpec, OnStandingSignatures

\* The worker of a stopped job writes nothing more (commitEvaluation,
\* BuildRollupsGuarded), a shadow run that was cancelled goes no further
\* (CommitAnalysisStep), and nothing is added to an investigation that has
\* ended or was deleted (Record, Delivered, Delete).
THEOREM StoppedStays == SafetySpec => StoppedWritesNothing
<1> DEFINE Sound == /\ part \in {"shadow", "analysis"} => Platform!ShadowInv
                    /\ part \in {"inquiry", "rounds"} => Platform!InquiryInv
<1>1. Init => Sound
  BY PartConstants, Platform!ShadowInit, Platform!InquiryInit DEF Init
<1>2. ASSUME part = "history" => Proved!HInv, Sound, [Next]_vars
      PROVE  /\ Sound'
             /\ part = "history" => Proved!History!WritesOnlyOwn
             /\ part \in {"shadow", "analysis"} => Platform!Shadows!CancelledStands
             /\ part \in {"inquiry", "rounds"} => Platform!Assistant!NothingAdded
  <2>1. UNCHANGED part
    BY <1>2, PartStays
  <2>2. CASE part = "history"
    <3>1. Proved!History!WritesOnlyOwn
      BY <1>2, <2>2, HistorySteps, PartConstants, Proved!WorkerStops
    <3> QED
      BY <2>1, <2>2, <3>1
  <2>3. CASE part \in {"shadow", "analysis"}
    <3>1. Platform!ShadowInv' /\ Platform!Shadows!CancelledStands
      BY <1>2, <2>3, ShadowSteps, Platform!ShadowKeeps, Platform!CancelledStay
    <3> QED
      BY <2>1, <2>3, <3>1
  <2>4. CASE part \in {"inquiry", "rounds"}
    <3>1. Platform!InquiryInv' /\ Platform!Assistant!NothingAdded
      BY <1>2, <2>4, InquirySteps, PartConstants, Platform!InquiryKeeps, Platform!InquiryMoves
    <3> QED
      BY <2>1, <2>4, <3>1
  <2> QED
    BY <2>1, <2>2, <2>3, <2>4
<1>3. (part = "history" => Proved!HInv) /\ Sound /\ [Next]_vars
      => /\ Sound'
         /\ [/\ part = "inquiry" => Platform!Assistant!NothingAdded
             /\ part = "rounds" => Platform!Assistant!NothingAdded
             /\ part = "history" => Proved!History!WritesOnlyOwn
             /\ part = "shadow" => Platform!Shadows!CancelledStands
             /\ part = "analysis" => Platform!Shadows!CancelledStands]_vars
  <2> HIDE DEF Sound
  <2> QED
    BY <1>2
<1> QED
  <2> HIDE DEF Sound
  <2> QED
    BY <1>1, <1>3, HistoryPart, PTL DEF SafetySpec, StoppedWritesNothing

=============================================================================
