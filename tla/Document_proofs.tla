---------------------------- MODULE Document_proofs ----------------------------
(***************************************************************************)
(* Proofs about the documents of the platform.  Whoever changes one has    *)
(* read it and others before, outside a transaction, and commits when none *)
(* of them has a new version: what the proofs show is that the versions    *)
(* compared are enough.                                                    *)
(*   Approval    a control request goes on with the signatures of two      *)
(*               persons, and starts only on signatures that stand;        *)
(*   Alarms      an alarm is completed only in a state that allows it;     *)
(*   Definition  a definition is published on active dependencies;         *)
(*   Work        who works on an order may do so when that is stored.      *)
(* Of the candidates of the archive and of the assistant's investigations  *)
(* it is shown too what nobody does to them once they have ended:          *)
(*   Shadows     each input of a candidate has one run, and a run that was *)
(*               cancelled remains so;                                     *)
(*   Assistant   an answer rests on evidence, and what has ended stays.    *)
(* And a client that reads documents page by page misses none (Pages).     *)
(***************************************************************************)
EXTENDS Naturals, FiniteSets, Sequences, FiniteSetTheorems,
        SequenceTheorems, WellFoundedInduction, TLAPS

CONSTANTS
    Users, Holds, Requester, Handlers, ApprovalChanges,
    Persons, ClockTimes, MaxOperations, MaxReplays,
    Definitions, Name, Legacy, LegacyDeps, Batches, Made, MaxCalls, MaxVersions, MaxDrafts,
    MaxTime, MaxImport,
    Administrators, OrderActions, Requests, Calls, OrderVersions, OrderChanges,
    Points, SensorOf, Revised, Observers, Budget, MaxEpochs, MaxRuns, ShadowChanges, ShadowFaults,
    Inquiries, Resources, MaxRounds, Expiring, MaxResults, InquiryChanges, MaxReads,
    Documents, Wanted, PageLimit, ScanBudget, PageChanges,
    None

VARIABLES
    person, grants, org, plan, risk, request, expired, handler, changes,
    operations, known, alarm, present, caller, alarmReplay, native, replays,
    definition, drafts, batches, answered, edits, clock, cloud, log, imported, edge,
    members, rights, reviewed, workOrder, taken, asked, orderChanges,
    candidate, runs, job, analysis, observer, shadowChanges, shadowFaults,
    inquiry, evidence, chat, granted, existing, revision, overdue, reading, reads, consumed,
    version, readable, pageChanges, page, cursor, got, steady

Approval == INSTANCE ControlApproval WITH MaxChanges <- ApprovalChanges
Alarms == INSTANCE AlarmHandling WITH
    Times <- ClockTimes, made <- operations, ops <- known, handler <- caller,
    replay <- alarmReplay
Definition == INSTANCE DefinitionPublishing WITH
    draft <- drafts, batch <- batches, calls <- edits, known <- imported
Work == INSTANCE WorkOrders WITH
    Actions <- OrderActions, MaxVersion <- OrderVersions, MaxChanges <- OrderChanges,
    person <- members, alarm <- reviewed, order <- workOrder,
    requests <- taken, call <- asked, changes <- orderChanges
Shadows == INSTANCE ShadowAnalysis WITH
    DeviceOf <- SensorOf, MaxChanges <- ShadowChanges, MaxFaults <- ShadowFaults,
    cand <- candidate, work <- analysis, changes <- shadowChanges, faults <- shadowFaults
Assistant == INSTANCE Investigations WITH MaxChanges <- InquiryChanges, expired <- overdue
Pages == INSTANCE DocumentPages WITH
    Limit <- PageLimit, MaxChanges <- PageChanges, changes <- pageChanges

-----------------------------------------------------------------------------
(* The approval of one request, whatever the persons, their roles and the   *)
(* number of handlers.  A handler commits on what it has read.  So the      *)
(* invariant is about what a handler holds: if nobody has written the       *)
(* request since, it is what the handler has read (HoldsRequest); if no     *)
(* document has a new version, what it has looked at still stands           *)
(* (HoldsDocuments).                                                        *)
Kinds == {"request", "approve", "dispatch", "start"}
Statuses == {"none", "awaiting_approval", "approved", "queued", "running", "rejected"}

Document ==
    [status : Statuses, v : Nat, plan : Nat, risk : 0 .. 2,
     signed : SUBSET [user : Users, role : {"none", "engineer", "leader"}]]

HandlerState ==
    [pc : {"idle", "check", "commit"}, kind : Kinds \cup {"none"}, by : Users,
     role : {"none", "engineer", "leader"}, doc : Document, people : [Users -> Nat],
     grants : Nat, org : Nat, plan : Nat, outcome : Statuses]

Typed ==
    /\ person \in [Users -> [v : Nat \ {0}, active : BOOLEAN, roles : SUBSET STRING]]
    /\ grants \in [v : Nat, to : SUBSET Users]
    /\ org \in [v : Nat, leaders : SUBSET Users]
    /\ plan \in [v : Nat]
    /\ risk \in 0 .. 2
    /\ request \in Document
    /\ handler \in [Handlers -> HandlerState]

Working(o) == o.pc \in {"check", "commit"}

\* The request as the handler has read it, but for the basis.
SameRequest(o) ==
    o.doc.status = request.status /\ o.doc.signed = request.signed /\ o.doc.plan = request.plan

\* What a handler that commits has found.
Found(o) ==
    /\ o.outcome \in {"queued", "running"} =>
          o.kind \in {"dispatch", "start"} /\ Approval!Enough(o.doc.signed) /\ o.doc.plan = o.plan
    /\ o.outcome = "approved" =>
          /\ o.kind = "approve"
          /\ \/ Approval!Enough(o.doc.signed \cup {[user |-> o.by, role |-> o.role]})
             \/ o.doc.status = "approved"
    /\ o.kind = "approve" => o.by \notin Approval!Signers(o.doc)

HoldsRequest(o) ==
    Working(o) =>
        /\ o.kind \in Kinds
        /\ o.doc.v <= request.v
        /\ o.doc.v = request.v => SameRequest(o)
        /\ o.kind = "approve" => o.doc.status \in {"awaiting_approval", "approved"}
        /\ o.kind = "dispatch" => o.doc.plan = o.plan
        /\ o.pc = "commit" => Found(o)

\* What a handler that has found the signatures sufficient relies on.
Relies(o) == o.pc = "commit" /\ o.outcome \in {"queued", "running"}

HoldsDocuments(o) ==
    Working(o) =>
        /\ \A u \in Users : o.people[u] <= person[u].v
        /\ o.grants <= grants.v /\ o.org <= org.v /\ o.plan <= plan.v
        /\ Relies(o) =>
              /\ \A u \in Approval!Signers(o.doc) \cup {Requester} : o.people[u] # 0
              /\ Approval!Unrevised(o) => /\ \A a \in o.doc.signed : Approval!Stands(a)
                                          /\ Approval!Permitted(Requester)

AInv ==
    /\ Typed
    /\ Approval!TwoPersons
    /\ \A h \in Handlers : HoldsRequest(handler[h])
    /\ \A h \in Handlers : HoldsDocuments(handler[h])

-----------------------------------------------------------------------------
LEMMA IdleType ==
    ASSUME Approval!ApprovalConstants
    PROVE  Approval!Idle \in HandlerState /\ ~Working(Approval!Idle)
<1>1. Approval!NoRequest \in Document
  BY DEF Approval!NoRequest, Document, Statuses
<1> QED
  BY <1>1 DEF Approval!Idle, HandlerState, Working, Statuses, Approval!ApprovalConstants

LEMMA InitAInv == Approval!ApprovalConstants /\ Approval!Init => AInv
<1> SUFFICES ASSUME Approval!ApprovalConstants, Approval!Init PROVE AInv
  OBVIOUS
<1>1. Approval!NoRequest \in Document /\ Approval!TwoPersons
  BY DEF Approval!Init, Approval!NoRequest, Document, Statuses, Approval!TwoPersons
<1>2. Typed
  BY <1>1, IdleType DEF Approval!Init, Typed, Approval!ApprovalConstants
<1> QED
  BY <1>1, <1>2, IdleType DEF Approval!Init, AInv, HoldsRequest, HoldsDocuments

\* What Demands and Outcome leave of a handler that goes on to commit.
LEMMA CheckOutcome ==
    ASSUME NEW o, NEW outcome, o.kind \in Kinds,
           \/ outcome = "rejected" /\ o.kind # "approve"
           \/ Approval!Demands(o) /\ outcome = Approval!Outcome(o),
           o.kind = "approve" => o.doc.status \in {"awaiting_approval", "approved"},
           o.kind = "dispatch" => o.doc.plan = o.plan
    PROVE  /\ outcome \in {"queued", "running"} =>
                 /\ o.kind \in {"dispatch", "start"} /\ Approval!Carried(o)
                 /\ Approval!Permitted(Requester)
                 /\ o.doc.plan = o.plan
           /\ outcome = "approved" =>
                 /\ o.kind = "approve"
                 /\ \/ Approval!Enough(o.doc.signed \cup {[user |-> o.by, role |-> o.role]})
                    \/ o.doc.status = "approved"
           /\ o.kind = "approve" => o.by \notin Approval!Signers(o.doc)
           /\ outcome \in Statuses
<1>1. CASE outcome = "rejected" /\ o.kind # "approve"
  BY <1>1 DEF Statuses
<1>2. CASE Approval!Demands(o) /\ outcome = Approval!Outcome(o) /\ o.kind = "request"
  BY <1>2 DEF Approval!Outcome, Statuses
<1>3. CASE Approval!Demands(o) /\ outcome = Approval!Outcome(o) /\ o.kind = "approve"
  BY <1>3 DEF Approval!Outcome, Approval!Demands, Approval!Signable, Statuses
<1>4. CASE Approval!Demands(o) /\ outcome = Approval!Outcome(o) /\ o.kind = "dispatch"
  BY <1>4 DEF Approval!Outcome, Approval!Demands, Statuses
<1>5. CASE Approval!Demands(o) /\ outcome = Approval!Outcome(o) /\ o.kind = "start"
  BY <1>5 DEF Approval!Outcome, Approval!Demands, Statuses
<1> QED
  BY <1>1, <1>2, <1>3, <1>4, <1>5 DEF Kinds

-----------------------------------------------------------------------------
(***************************************************************************)
(* The steps of handlers                                                   *)
(***************************************************************************)
\* A handler that takes a new state leaves the others alone.
LEMMA HandlerMoves ==
    ASSUME AInv, NEW h \in Handlers, NEW o \in HandlerState,
           handler' = [handler EXCEPT ![h] = o],
           HoldsRequest(o), HoldsDocuments(o),
           UNCHANGED <<Approval!documents, risk, request>>
    PROVE  AInv'
<1>1. Typed'
  BY DEF AInv, Typed, Approval!documents
<1>2. Approval!TwoPersons'
  BY DEF AInv, Approval!TwoPersons, Approval!Enough
<1>3. \A k \in Handlers : handler'[k] = IF k = h THEN o ELSE handler[k]
  BY DEF AInv, Typed
<1>4. ASSUME NEW k \in Handlers PROVE HoldsRequest(handler[k])'
  BY <1>3 DEF AInv, HoldsRequest, Working, SameRequest, Found, Approval!Enough, Approval!Signers
<1>5. ASSUME NEW k \in Handlers PROVE HoldsDocuments(handler[k])'
  BY <1>3 DEF AInv, HoldsDocuments, Working, Relies, Approval!Unrevised, Approval!Stands,
         Approval!Permitted, Approval!Leads, Approval!Signers, Approval!documents
<1> QED
  BY <1>1, <1>2, <1>4, <1>5 DEF AInv

LEMMA AuthorizeKeeps ==
    ASSUME Approval!ApprovalConstants, AInv,
           NEW h \in Handlers, NEW kind \in Kinds, NEW u \in Users,
           NEW role \in {"none", "engineer", "leader"}, Approval!Authorize(h, kind, u, role)
    PROVE  AInv'
<1> DEFINE o == [Approval!Idle EXCEPT !.pc = "check", !.kind = kind, !.by = u, !.role = role,
                             !.doc = request, !.people[u] = person[u].v, !.grants = grants.v,
                             !.plan = plan.v]
<1>1. handler' = [handler EXCEPT ![h] = o] /\ UNCHANGED <<Approval!documents, risk, request>>
  BY DEF Approval!Authorize
<1>2. /\ Approval!Idle.people = [w \in Users |-> 0] /\ Approval!Idle.org = 0
      /\ Approval!Idle \in HandlerState
  BY IdleType DEF Approval!Idle
<1>3. /\ request \in Document /\ plan.v \in Nat /\ grants.v \in Nat /\ org.v \in Nat
      /\ \A w \in Users : person[w].v \in Nat
  BY DEF AInv, Typed
<1>4. o \in HandlerState
  BY <1>2, <1>3 DEF HandlerState
<1>5. /\ o.pc = "check" /\ o.kind = kind /\ o.doc = request /\ o.grants = grants.v
      /\ o.plan = plan.v /\ o.org = 0
      /\ \A w \in Users : o.people[w] = IF w = u THEN person[u].v ELSE 0
  BY <1>2 DEF HandlerState
<1>6. /\ kind = "approve" => request.status \in {"awaiting_approval", "approved"}
      /\ kind = "dispatch" => request.plan = plan.v
  BY DEF Approval!Authorize, Approval!Begins
<1> HIDE DEF o
<1>7. HoldsRequest(o)
  BY <1>3, <1>5, <1>6 DEF HoldsRequest, SameRequest, Document
<1>8. HoldsDocuments(o)
  BY <1>3, <1>5 DEF HoldsDocuments, Relies
<1> QED
  BY <1>1, <1>4, <1>7, <1>8, HandlerMoves

LEMMA CheckKeeps ==
    ASSUME Approval!ApprovalConstants, AInv, NEW h \in Handlers, Approval!Check(h)
    PROVE  AInv'
<1> DEFINE o == handler[h]
           read == Approval!Signers(o.doc) \cup {o.by, Requester}
           fits == person[o.by].v = o.people[o.by] /\ Approval!Demands(o) /\ Approval!SameBasis(o)
           outcome == IF fits THEN Approval!Outcome(o) ELSE "rejected"
           n == [o EXCEPT !.pc = "commit", !.org = org.v, !.outcome = outcome,
                          !.doc.risk = IF o.kind = "request" THEN risk ELSE @,
                          !.people = [u \in Users |-> IF u \in read THEN person[u].v ELSE 0]]
<1>1. /\ o \in HandlerState /\ o.pc = "check" /\ HoldsRequest(o) /\ HoldsDocuments(o)
      /\ o.doc \in Document
      /\ UNCHANGED <<Approval!documents, risk, request>>
  BY DEF Approval!Check, AInv, Typed, HandlerState
<1>2. CASE handler' = [handler EXCEPT ![h] = Approval!Idle]
  BY <1>1, <1>2, IdleType, HandlerMoves DEF HoldsRequest, HoldsDocuments
<1>3. CASE handler' = [handler EXCEPT ![h] = n] /\ (fits \/ o.kind = "start")
  <2>1. \/ outcome = "rejected" /\ o.kind # "approve"
        \/ Approval!Demands(o) /\ outcome = Approval!Outcome(o)
    BY <1>3
  <2> HIDE DEF outcome
  <2>2. /\ org.v \in Nat /\ risk \in 0 .. 2 /\ grants.v \in Nat
        /\ \A u \in Users : person[u].v \in Nat \ {0}
    BY DEF AInv, Typed
  <2>3. /\ o.kind \in Kinds
        /\ o.kind = "approve" => o.doc.status \in {"awaiting_approval", "approved"}
        /\ o.kind = "dispatch" => o.doc.plan = o.plan
    BY <1>1 DEF HoldsRequest, Working
  <2>4. /\ outcome \in {"queued", "running"} =>
              /\ o.kind \in {"dispatch", "start"} /\ Approval!Carried(o)
              /\ Approval!Permitted(Requester)
              /\ o.doc.plan = o.plan
        /\ outcome = "approved" =>
              /\ o.kind = "approve"
              /\ \/ Approval!Enough(o.doc.signed \cup {[user |-> o.by, role |-> o.role]})
                 \/ o.doc.status = "approved"
        /\ o.kind = "approve" => o.by \notin Approval!Signers(o.doc)
        /\ outcome \in Statuses
    <3> HIDE DEF o
    <3> QED
      BY <2>1, <2>3, CheckOutcome
  <2>5. [u \in Users |-> IF u \in read THEN person[u].v ELSE 0] \in [Users -> Nat]
    BY <2>2
  <2>6. n \in HandlerState
    BY <1>1, <2>2, <2>4, <2>5 DEF HandlerState, Document
  <2>7. /\ n.pc = "commit" /\ n.org = org.v /\ n.outcome = outcome /\ n.kind = o.kind
        /\ n.by = o.by /\ n.role = o.role /\ n.grants = o.grants /\ n.plan = o.plan
        /\ n.doc.v = o.doc.v /\ n.doc.status = o.doc.status /\ n.doc.signed = o.doc.signed
        /\ n.doc.plan = o.doc.plan
        /\ n.people = [u \in Users |-> IF u \in read THEN person[u].v ELSE 0]
    BY <1>1 DEF HandlerState, Document
  <2> HIDE DEF n
  <2>8. Approval!Signers(n.doc) = Approval!Signers(o.doc) /\ Approval!Signers(o.doc) \subseteq Users
    BY <1>1, <2>7 DEF Approval!Signers, Document
  <2>9. HoldsRequest(n)
    BY <1>1, <2>3, <2>4, <2>7, <2>8 DEF HoldsRequest, Working, SameRequest, Found, Approval!Carried
  <2>10. HoldsDocuments(n)
    <3>1. \A u \in Users : n.people[u] <= person[u].v
      BY <2>2, <2>7
    <3>2. n.grants <= grants.v /\ n.org <= org.v /\ n.plan <= plan.v
      BY <1>1, <2>2, <2>7 DEF HoldsDocuments, Working
    <3>3. \A u \in Approval!Signers(n.doc) \cup {Requester} : n.people[u] # 0
      BY <2>2, <2>7, <2>8 DEF Approval!ApprovalConstants
    <3>4. Relies(n) => (\A a \in n.doc.signed : Approval!Stands(a)) /\ Approval!Permitted(Requester)
      BY <2>4, <2>7 DEF Relies, Approval!Carried
    <3> QED
      BY <3>1, <3>2, <3>3, <3>4 DEF HoldsDocuments
  <2> QED
    BY <1>1, <1>3, <2>6, <2>9, <2>10, HandlerMoves
<1> QED
  BY <1>2, <1>3 DEF Approval!Check

\* A request that is written, by a handler that then rests: whoever else has
\* read it has read an older version.
LEMMA WrittenOnce ==
    ASSUME Approval!ApprovalConstants, AInv, NEW h \in Handlers,
           handler' = [handler EXCEPT ![h] = Approval!Idle],
           request' \in Document, request'.v = request.v + 1, Approval!TwoPersons',
           UNCHANGED <<Approval!documents, risk>>
    PROVE  AInv'
<1>1. Typed'
  BY IdleType DEF AInv, Typed, Approval!documents
<1>2. \A k \in Handlers : handler'[k] = IF k = h THEN Approval!Idle ELSE handler[k]
  BY DEF AInv, Typed
<1>3. request.v \in Nat /\ \A k \in Handlers : handler[k].doc.v \in Nat
  BY DEF AInv, Typed, HandlerState, Document
<1>4. ASSUME NEW k \in Handlers PROVE HoldsRequest(handler[k])'
  <2>1. CASE k = h
    BY <1>2, <2>1, IdleType DEF HoldsRequest, Working
  <2>2. CASE k # h
    <3>1. HoldsRequest(handler[k]) /\ handler'[k] = handler[k]
      BY <1>2, <2>2 DEF AInv
    <3>2. Working(handler[k]) =>
              handler[k].doc.v <= request'.v /\ handler[k].doc.v # request'.v
      BY <1>3, <3>1 DEF HoldsRequest
    <3> QED
      BY <3>1, <3>2 DEF HoldsRequest, Working, Found, Approval!Enough, Approval!Signers
  <2> QED
    BY <2>1, <2>2
<1>5. ASSUME NEW k \in Handlers PROVE HoldsDocuments(handler[k])'
  <2>1. CASE k = h
    BY <1>2, <2>1, IdleType DEF HoldsDocuments, Working
  <2>2. CASE k # h
    BY <1>2, <2>2 DEF AInv, HoldsDocuments, Working, Relies, Approval!Unrevised,
           Approval!Stands, Approval!Permitted, Approval!Leads, Approval!Signers,
           Approval!documents
  <2> QED
    BY <2>1, <2>2
<1> QED
  BY <1>1, <1>4, <1>5 DEF AInv

\* One more signature takes nothing from those that are enough.
LEMMA EnoughGrows ==
    ASSUME NEW signed, NEW more, Approval!Enough(signed), signed \subseteq more
    PROVE  Approval!Enough(more)
  BY DEF Approval!Enough

LEMMA CommitKeeps ==
    ASSUME Approval!ApprovalConstants, AInv, NEW h \in Handlers, Approval!Commit(h)
    PROVE  AInv'
<1> DEFINE o == handler[h]
           signed == IF o.kind = "approve" THEN {[user |-> o.by, role |-> o.role]} ELSE {}
           w == [status |-> o.outcome, v |-> request.v + 1, risk |-> o.doc.risk,
                 plan |-> IF o.kind = "request" THEN o.plan ELSE o.doc.plan,
                 signed |-> o.doc.signed \cup signed]
<1>1. /\ o \in HandlerState /\ o.doc \in Document /\ o.pc = "commit" /\ HoldsRequest(o)
      /\ handler' = [handler EXCEPT ![h] = Approval!Idle] /\ UNCHANGED <<Approval!documents, risk>>
      /\ request \in Document
  BY DEF Approval!Commit, AInv, Typed, HandlerState
<1>2. CASE UNCHANGED request
  BY <1>1, <1>2, IdleType, HandlerMoves DEF HoldsRequest, HoldsDocuments
<1>3. CASE request' = w /\ Approval!Unwritten(o)
  <2>1. signed \in SUBSET [user : Users, role : {"none", "engineer", "leader"}]
    BY <1>1 DEF HandlerState
  <2> HIDE DEF o
  <2>2. SameRequest(o) /\ Found(o)
    BY <1>1, <1>3 DEF HoldsRequest, Working, Approval!Unwritten
  <2>3. o.doc.signed \in SUBSET [user : Users, role : {"none", "engineer", "leader"}]
    BY <1>1 DEF Document
  <2>4. w \in Document
    BY <1>1, <2>1, <2>3 DEF Document, HandlerState
  <2>5. /\ w.status = o.outcome /\ w.v = request.v + 1
        /\ w.signed = o.doc.signed \cup signed
    OBVIOUS
  <2>6. w.status \in {"approved", "queued", "running"} => Approval!Enough(w.signed)
    <3>1. CASE o.outcome \in {"queued", "running"}
      BY <2>2, <2>5, <3>1, EnoughGrows DEF Found
    <3>2. CASE o.outcome = "approved"
      <4>1. CASE o.doc.status = "approved"
        <5>1. Approval!Enough(request.signed)
          BY <2>2, <4>1 DEF SameRequest, AInv, Approval!TwoPersons
        <5> QED
          BY <2>2, <2>5, <5>1, EnoughGrows DEF SameRequest
      <4>2. CASE Approval!Enough(o.doc.signed \cup {[user |-> o.by, role |-> o.role]})
        BY <2>2, <2>5, <3>2, <4>2 DEF Found
      <4> QED
        BY <2>2, <3>2, <4>1, <4>2 DEF Found
    <3> QED
      BY <2>5, <3>1, <3>2
  <2>7. \A a, b \in w.signed : a.user = b.user => a = b
    <3>1. \A a, b \in o.doc.signed : a.user = b.user => a = b
      BY <2>2 DEF SameRequest, AInv, Approval!TwoPersons
    <3>2. \A a \in o.doc.signed, b \in signed : a.user # b.user
      BY <2>2 DEF Found, Approval!Signers
    <3>3. \A a, b \in signed : a = b
      OBVIOUS
    <3> HIDE DEF signed
    <3> QED
      BY <2>5, <3>1, <3>2, <3>3
  <2> HIDE DEF w
  <2> QED
    BY <1>1, <1>3, <2>4, <2>5, <2>6, <2>7, WrittenOnce DEF Approval!TwoPersons
<1> QED
  BY <1>2, <1>3 DEF Approval!Commit

-----------------------------------------------------------------------------
(***************************************************************************)
(* The steps around the handlers: a document that changes gets a version   *)
(* no handler has read                                                     *)
(***************************************************************************)
LEMMA ChangePersonKeeps ==
    ASSUME Approval!ApprovalConstants, AInv, NEW u \in Users, Approval!ChangePerson(u)
    PROVE  AInv'
<1>1. PICK active \in BOOLEAN, roles \in {person[u].roles, person[u].roles \ {"leader"}} :
        person' = [person EXCEPT ![u] = [v |-> @.v + 1, active |-> active, roles |-> roles]]
  BY DEF Approval!ChangePerson
<1>2. UNCHANGED <<grants, org, plan, risk, request, handler>>
  BY DEF Approval!ChangePerson
<1>3. /\ person' \in [Users -> [v : Nat \ {0}, active : BOOLEAN, roles : SUBSET STRING]]
      /\ person'[u].v = person[u].v + 1
      /\ \A x \in Users : person[x].v \in Nat
      /\ \A x \in Users \ {u} : person'[x] = person[x]
  <2>1. person[u].v \in Nat /\ person[u].roles \in SUBSET STRING
    BY DEF AInv, Typed
  <2>2. [v |-> person[u].v + 1, active |-> active, roles |-> roles]
          \in [v : Nat \ {0}, active : BOOLEAN, roles : SUBSET STRING]
    BY <2>1
  <2> QED
    BY <1>1, <2>2 DEF AInv, Typed
<1>4. Typed' /\ Approval!TwoPersons'
  BY <1>2, <1>3 DEF AInv, Typed, Approval!TwoPersons, Approval!Enough
<1>5. ASSUME NEW h \in Handlers PROVE HoldsRequest(handler[h])'
  BY <1>2 DEF AInv, HoldsRequest, Working, SameRequest, Found, Approval!Enough, Approval!Signers
<1>6. ASSUME NEW h \in Handlers PROVE HoldsDocuments(handler[h])'
  <2>0. PICK o \in HandlerState : o = handler[h]
    BY DEF AInv, Typed
  <2>1. /\ HoldsDocuments(o) /\ handler'[h] = o /\ \A x \in Users : o.people[x] \in Nat
        /\ o.doc \in Document
    BY <1>2, <2>0 DEF AInv, HandlerState
  <2>2. Working(o) => \A x \in Users : o.people[x] <= person'[x].v
    BY <1>3, <2>1 DEF HoldsDocuments
  <2>3. ASSUME Relies(o), Working(o), Approval!Unrevised(o)'
        PROVE  (\A a \in o.doc.signed : Approval!Stands(a))' /\ Approval!Permitted(Requester)'
    <3>1. o.people[u] = 0
      BY <1>3, <2>1, <2>3 DEF HoldsDocuments, Approval!Unrevised
    <3>2. u \notin Approval!Signers(o.doc) \cup {Requester}
      BY <2>1, <2>3, <3>1 DEF HoldsDocuments
    <3>3. Approval!Unrevised(o)
      BY <1>2, <1>3, <2>3, <3>1 DEF Approval!Unrevised
    <3>4. (\A a \in o.doc.signed : Approval!Stands(a)) /\ Approval!Permitted(Requester)
      BY <2>1, <2>3, <3>3 DEF HoldsDocuments
    <3>5. person'[Requester] = person[Requester]
      BY <1>3, <3>2 DEF Approval!ApprovalConstants
    <3>6. \A a \in o.doc.signed : person'[a.user] = person[a.user]
      BY <1>3, <2>1, <3>2 DEF Document, Approval!Signers
    <3> QED
      BY <1>2, <3>4, <3>5, <3>6 DEF Approval!Stands, Approval!Permitted, Approval!Leads
  <2>4. Working(o) => o.grants <= grants'.v /\ o.org <= org'.v /\ o.plan <= plan'.v
    BY <1>2, <2>1 DEF HoldsDocuments
  <2> QED
    BY <2>1, <2>2, <2>3, <2>4 DEF HoldsDocuments, Working, Relies, Approval!Signers,
           Approval!Unrevised
<1> QED
  BY <1>4, <1>5, <1>6 DEF AInv

\* Grants, the organization and the plan; what is not a document moves nothing.
LEMMA DocumentKeeps ==
    ASSUME AInv, UNCHANGED <<person, request, handler>>, risk' \in 0 .. 2,
           grants' \in [v : Nat, to : SUBSET Users], org' \in [v : Nat, leaders : SUBSET Users],
           plan' \in [v : Nat],
           grants' = grants \/ grants'.v = grants.v + 1,
           org' = org \/ org'.v = org.v + 1,
           plan' = plan \/ plan'.v = plan.v + 1
    PROVE  AInv'
<1>1. Typed' /\ Approval!TwoPersons'
  BY DEF AInv, Typed, Approval!TwoPersons, Approval!Enough
<1>2. ASSUME NEW h \in Handlers PROVE HoldsRequest(handler[h])'
  BY DEF AInv, HoldsRequest, Working, SameRequest, Found, Approval!Enough, Approval!Signers
<1>3. ASSUME NEW h \in Handlers PROVE HoldsDocuments(handler[h])'
  <2>0. PICK o \in HandlerState : o = handler[h]
    BY DEF AInv, Typed
  <2>1. /\ HoldsDocuments(o) /\ handler'[h] = o
        /\ grants.v \in Nat /\ org.v \in Nat /\ plan.v \in Nat
        /\ o.grants \in Nat /\ o.org \in Nat /\ o.plan \in Nat
    BY <2>0 DEF AInv, Typed, HandlerState
  <2>2. Working(o) => o.grants <= grants'.v /\ o.org <= org'.v /\ o.plan <= plan'.v
    BY <2>1 DEF HoldsDocuments
  <2>3. ASSUME Relies(o), Working(o), Approval!Unrevised(o)'
        PROVE  (\A a \in o.doc.signed : Approval!Stands(a))' /\ Approval!Permitted(Requester)'
    <3>1. grants' = grants /\ org' = org /\ plan'.v = plan.v
      BY <2>1, <2>3 DEF HoldsDocuments, Approval!Unrevised
    <3> QED
      BY <2>1, <2>3, <3>1 DEF HoldsDocuments, Approval!Unrevised, Approval!Stands,
             Approval!Permitted, Approval!Leads
  <2> QED
    BY <2>1, <2>2, <2>3 DEF HoldsDocuments, Working, Relies, Approval!Signers, Approval!Unrevised
<1> QED
  BY <1>1, <1>2, <1>3 DEF AInv

LEMMA StepKeeps ==
    ASSUME Approval!ApprovalConstants, AInv, [Approval!Next]_(Approval!vars)
    PROVE  AInv'
<1>1. ASSUME NEW h \in Handlers, NEW kind \in Kinds, NEW u \in Users,
             NEW role \in {"none", "engineer", "leader"}, Approval!Authorize(h, kind, u, role)
      PROVE  AInv'
  BY <1>1, AuthorizeKeeps
<1>2. ASSUME NEW h \in Handlers, Approval!Check(h) PROVE AInv'
  BY <1>2, CheckKeeps
<1>3. ASSUME NEW h \in Handlers, Approval!Commit(h) PROVE AInv'
  BY <1>3, CommitKeeps
<1>4. ASSUME NEW u \in Users, Approval!ChangePerson(u) PROVE AInv'
  BY <1>4, ChangePersonKeeps
<1>5. CASE Approval!ChangeGrants
  BY <1>5, DocumentKeeps DEF Approval!ChangeGrants, AInv, Typed
<1>6. CASE Approval!ChangeOrganization
  BY <1>6, DocumentKeeps DEF Approval!ChangeOrganization, AInv, Typed
<1>7. CASE Approval!Publish
  BY <1>7, DocumentKeeps DEF Approval!Publish, AInv, Typed
<1>8. CASE Approval!ChangeConditions
  BY <1>8, DocumentKeeps DEF Approval!ChangeConditions, AInv, Typed, Approval!documents
<1>9. CASE Approval!Expire
  BY <1>9, DocumentKeeps DEF Approval!Expire, AInv, Typed, Approval!documents
<1>10. CASE UNCHANGED Approval!vars
  BY <1>10, DocumentKeeps DEF Approval!vars, AInv, Typed
<1> QED
  BY <1>1, <1>2, <1>3, <1>4, <1>5, <1>6, <1>7, <1>8, <1>9, <1>10 DEF Approval!Next, Kinds

-----------------------------------------------------------------------------
\* What every handler holds, it holds in every state that can be reached.
THEOREM ApprovalInvariance == Approval!ApprovalConstants => (Approval!Spec => []AInv)
<1> SUFFICES ASSUME Approval!ApprovalConstants PROVE Approval!Spec => []AInv
  OBVIOUS
<1>1. Approval!Init => AInv
  BY InitAInv
<1>2. AInv /\ [Approval!Next]_(Approval!vars) => AInv'
  BY StepKeeps
<1> QED
  BY <1>1, <1>2, PTL DEF Approval!Spec

\* A request goes on only with the signatures of an engineer and of a leader
\* who are two persons, on the basis they have signed (ApproveVersion, enough).
THEOREM TwoPersonsSign == Approval!ApprovalConstants => (Approval!Spec => []Approval!TwoPersons)
<1> SUFFICES ASSUME Approval!ApprovalConstants PROVE Approval!Spec => []Approval!TwoPersons
  OBVIOUS
<1>1. AInv => Approval!TwoPersons
  BY DEF AInv
<1> QED
  BY <1>1, ApprovalInvariance, PTL

\* Only a handler that commits writes the request, over what it has read.
LEMMA WhoWrites ==
    ASSUME Approval!ApprovalConstants, AInv, [Approval!Next]_(Approval!vars), request' # request
    PROVE  \E h \in Handlers :
             /\ Approval!Commit(h) /\ handler[h].pc = "commit" /\ Approval!Unwritten(handler[h])
             /\ request'.status = handler[h].outcome
             /\ request'.plan = IF handler[h].kind = "request" THEN handler[h].plan
                                ELSE handler[h].doc.plan
             /\ handler[h].doc.signed \subseteq request'.signed
             /\ handler[h].kind # "approve" => request'.signed = handler[h].doc.signed
             /\ \/ Approval!Unrevised(handler[h])
                \/ handler[h].outcome = "rejected"
<1>1. PICK h \in Handlers : Approval!Commit(h)
  BY ZenonT(40) DEF Approval!Next, Approval!vars, Approval!Authorize, Approval!Check,
         Approval!ChangePerson, Approval!ChangeGrants, Approval!ChangeOrganization,
         Approval!Publish, Approval!ChangeConditions, Approval!Expire
<1> DEFINE o == handler[h]
           signed == IF o.kind = "approve" THEN {[user |-> o.by, role |-> o.role]} ELSE {}
<1>2. /\ o.pc = "commit" /\ Approval!Unwritten(o)
      /\ Approval!Unrevised(o) \/ o.outcome = "rejected"
      /\ request' = [status |-> o.outcome, v |-> request.v + 1, risk |-> o.doc.risk,
                     plan |-> IF o.kind = "request" THEN o.plan ELSE o.doc.plan,
                     signed |-> o.doc.signed \cup signed]
  BY <1>1 DEF Approval!Commit
<1>3. o.kind # "approve" => o.doc.signed \cup signed = o.doc.signed
  OBVIOUS
<1> HIDE DEF signed
<1>4. /\ request'.status = o.outcome
      /\ request'.plan = IF o.kind = "request" THEN o.plan ELSE o.doc.plan
      /\ request'.signed = o.doc.signed \cup signed
  BY <1>2
<1> QED
  BY <1>1, <1>2, <1>3, <1>4

LEMMA StandingStep ==
    ASSUME Approval!ApprovalConstants, AInv, [Approval!Next]_(Approval!vars)
    PROVE  Approval!Standing
<1> SUFFICES ASSUME request'.status # request.status, request'.status \in {"queued", "running"}
             PROVE  /\ \A a \in request'.signed : Approval!Stands(a)
                    /\ Approval!Permitted(Requester) /\ request'.plan = plan.v
  BY DEF Approval!Standing
<1>1. request' # request
  OBVIOUS
<1>2. PICK h \in Handlers :
           /\ Approval!Commit(h) /\ handler[h].pc = "commit" /\ Approval!Unwritten(handler[h])
           /\ request'.status = handler[h].outcome
           /\ request'.plan = IF handler[h].kind = "request" THEN handler[h].plan
                              ELSE handler[h].doc.plan
           /\ handler[h].doc.signed \subseteq request'.signed
           /\ handler[h].kind # "approve" => request'.signed = handler[h].doc.signed
           /\ \/ Approval!Unrevised(handler[h])
              \/ handler[h].outcome = "rejected"
  BY <1>1, WhoWrites
<1>3. HoldsRequest(handler[h]) /\ HoldsDocuments(handler[h])
  BY DEF AInv
<1>4. Approval!Unrevised(handler[h]) /\ Relies(handler[h]) /\ Working(handler[h])
  BY <1>2 DEF Relies, Working
<1>5. /\ handler[h].kind \in {"dispatch", "start"}
      /\ handler[h].doc.plan = handler[h].plan
  BY <1>2, <1>3, <1>4 DEF HoldsRequest, Found
<1>6. (\A a \in handler[h].doc.signed : Approval!Stands(a)) /\ Approval!Permitted(Requester)
  BY <1>3, <1>4 DEF HoldsDocuments
<1> QED
  BY <1>2, <1>4, <1>5, <1>6 DEF Approval!Unrevised

\* A request is dispatched or started only on signatures that would be given
\* again at that moment, for a requester who may still ask, and by the plan
\* that is published (executionAccess, CheckRevisions).
THEOREM StandingSignatures ==
    Approval!ApprovalConstants => (Approval!Spec => Approval!OnStandingSignatures)
<1> SUFFICES ASSUME Approval!ApprovalConstants PROVE Approval!Spec => Approval!OnStandingSignatures
  OBVIOUS
<1>1. AInv /\ [Approval!Next]_(Approval!vars) => [Approval!Standing]_(Approval!vars)
  BY StandingStep
<1> QED
  BY <1>1, ApprovalInvariance, PTL DEF Approval!Spec, Approval!OnStandingSignatures

\* A signature that has been given stays, however handlers overtake each other.
THEOREM SignaturesAreKept ==
    Approval!ApprovalConstants => (Approval!Spec => Approval!SignaturesStay)
<1> SUFFICES ASSUME Approval!ApprovalConstants PROVE Approval!Spec => Approval!SignaturesStay
  OBVIOUS
<1>1. ASSUME AInv, [Approval!Next]_(Approval!vars) PROVE [Approval!Stay]_(Approval!vars)
  <2> SUFFICES ASSUME request' # request PROVE Approval!Stay
    BY DEF Approval!Stay
  <2>1. PICK h \in Handlers :
             /\ handler[h].pc = "commit" /\ Approval!Unwritten(handler[h])
             /\ handler[h].doc.signed \subseteq request'.signed
    BY <1>1, WhoWrites
  <2>2. HoldsRequest(handler[h])
    BY <1>1 DEF AInv
  <2> QED
    BY <2>1, <2>2 DEF HoldsRequest, Working, Approval!Unwritten, SameRequest, Approval!Stay
<1> QED
  BY <1>1, ApprovalInvariance, PTL DEF Approval!Spec, Approval!SignaturesStay

-----------------------------------------------------------------------------
(* The handling of an alarm.  A call decides before it writes, so it must   *)
(* be that what it decided on still holds: the operations it had seen and   *)
(* the alarm are the only things a decision depends on (Decided).           *)
AlarmState == [exists : BOOLEAN, active : BOOLEAN, ack : BOOLEAN]
Actions == {"acknowledge", "assign", "complete", "reopen"}
Operation == [action : Actions \cup {"none"}, person : Persons \cup {Alarms!Nobody},
              site : Alarms!Sites, at : ClockTimes, basis : SUBSET Nat]
Caller == [pc : {"idle", "commit"}, action : Actions \cup {"none"},
           person : Persons \cup {Alarms!Nobody}, seen : Nat, alarm : AlarmState]

AlarmsTyped ==
    /\ operations \in Seq(Operation)
    /\ known \in [Alarms!Sites -> Seq(Nat)]
    /\ alarm \in [Alarms!Sites -> AlarmState] /\ present \in [Alarms!Sites -> AlarmState]
    /\ caller \in [Alarms!Sites -> Caller]
    /\ alarmReplay.old \in AlarmState
KnownAreMade ==
    \A s \in Alarms!Sites : \A i \in 1..Len(known[s]) : known[s][i] \in 1..Len(operations)

Decided(s) ==
    caller[s].pc = "commit" =>
        /\ caller[s].seen <= Len(known[s])
        /\ caller[s].seen = Len(known[s]) =>
              Alarms!Allows(caller[s].alarm, s, caller[s].action, caller[s].person)

AlarmInv == AlarmsTyped /\ KnownAreMade /\ \A s \in Alarms!Sites : Decided(s)

LEMMA AlarmsInit ==
    ASSUME Alarms!Init
    PROVE  AlarmInv
<1> USE DEF Alarms!Init, Alarms!Sites, Alarms!NoAlarm, Alarms!NoCall, Alarms!NoReplay, Alarms!Nobody
<1>1. AlarmsTyped
  BY DEF AlarmsTyped, AlarmState, Caller
<1>2. KnownAreMade /\ \A s \in Alarms!Sites : Decided(s)
  BY DEF KnownAreMade, Decided
<1> QED
  BY <1>1, <1>2 DEF AlarmInv

\* Both documents of an alarm as they are, or acknowledged.
AlarmAcknowledged(s) ==
    \/ UNCHANGED <<alarm, present>>
    \/ /\ alarm' = [alarm EXCEPT ![s].ack = TRUE]
       /\ present' = [present EXCEPT ![s] = alarm'[s]]

LEMMA AcknowledgedTyped ==
    ASSUME AlarmInv, NEW s \in Alarms!Sites, AlarmAcknowledged(s)
    PROVE  alarm' \in [Alarms!Sites -> AlarmState] /\ present' \in [Alarms!Sites -> AlarmState]
<1>1. /\ alarm \in [Alarms!Sites -> AlarmState] /\ present \in [Alarms!Sites -> AlarmState]
      /\ alarm[s] \in AlarmState
  BY DEF AlarmInv, AlarmsTyped
<1>2. [alarm[s] EXCEPT !.ack = TRUE] \in AlarmState
  BY <1>1 DEF AlarmState
<1> DEFINE a == [alarm[s] EXCEPT !.ack = TRUE]
<1>3. [alarm EXCEPT ![s].ack = TRUE] = [alarm EXCEPT ![s] = a]
  OBVIOUS
<1> HIDE DEF a
<1>4. CASE /\ alarm' = [alarm EXCEPT ![s] = a]
           /\ present' = [present EXCEPT ![s] = alarm'[s]]
  <2>1. a \in AlarmState
    BY <1>2 DEF a
  <2>2. alarm' \in [Alarms!Sites -> AlarmState]
    BY <1>1, <1>4, <2>1
  <2>3. alarm'[s] \in AlarmState
    BY <2>2
  <2> QED
    BY <1>1, <1>4, <2>2, <2>3
<1> QED
  BY <1>1, <1>3, <1>4 DEF AlarmAcknowledged

LEMMA CaseAcknowledged ==
    \A s \in Alarms!Sites : Alarms!Case(s).ack \in BOOLEAN
  BY DEF Alarms!Case, Alarms!CaseOf

\* What a site allows depends on the operations that it knows.
LEMMA AllowedStill ==
    ASSUME AlarmInv, NEW s \in Alarms!Sites, known'[s] = known[s],
           \A i \in 1..Len(operations) : operations'[i] = operations[i]
    PROVE  /\ Alarms!Known(s)' = Alarms!Known(s)
           /\ \A a, action, who :
                 Alarms!Allows(a, s, action, who)' <=> Alarms!Allows(a, s, action, who)
<1>1. Alarms!Known(s)' = Alarms!Known(s)
  <2>1. \A o \in Alarms!ToSet(known[s]) : operations'[o] = operations[o]
    BY DEF AlarmInv, AlarmsTyped, KnownAreMade, Alarms!ToSet
  <2> QED
    BY <2>1 DEF Alarms!Known, Alarms!ToSet
<1>2. Alarms!Case(s)' = Alarms!Case(s)
  BY <1>1 DEF Alarms!Case
<1> QED
  BY <1>1, <1>2 DEF Alarms!Allows

\* A call that does not move, at a site to which nothing came.
LEMMA DecidedStill ==
    ASSUME AlarmInv, NEW s \in Alarms!Sites, known'[s] = known[s], caller'[s] = caller[s],
           \A i \in 1..Len(operations) : operations'[i] = operations[i]
    PROVE  Decided(s)'
<1>1. \A a, action, who :
         Alarms!Allows(a, s, action, who)' <=> Alarms!Allows(a, s, action, who)
  BY AllowedStill
<1>2. Decided(s)
  BY DEF AlarmInv
<1> QED
  BY <1>1, <1>2 DEF Decided

LEMMA DecideStep ==
    ASSUME AlarmInv, NEW s \in Alarms!Sites, NEW action \in Actions,
           NEW who \in Persons \cup {Alarms!Nobody}, Alarms!Decide(s, action, who)
    PROVE  AlarmInv'
<1>1. /\ UNCHANGED <<operations, known, alarm, present, alarmReplay>>
      /\ caller' = [caller EXCEPT ![s] = [pc |-> "commit", action |-> action,
            person |-> who, seen |-> Len(known[s]), alarm |-> alarm[s]]]
      /\ Alarms!Allows(alarm[s], s, action, who)
  BY DEF Alarms!Decide, Alarms!Allowed
<1>2. AlarmsTyped' /\ KnownAreMade'
  BY <1>1 DEF AlarmInv, AlarmsTyped, KnownAreMade, Caller
<1>3. Decided(s)'
  <2>1. Alarms!Allows(alarm[s], s, action, who)'
    BY <1>1, AllowedStill
  <2>2. /\ caller'[s].action = action /\ caller'[s].person = who
        /\ caller'[s].seen = Len(known[s]) /\ caller'[s].alarm = alarm[s]
    BY <1>1 DEF AlarmInv, AlarmsTyped
  <2>3. Len(known[s]) \in Nat
    BY DEF AlarmInv, AlarmsTyped
  <2> QED
    BY <1>1, <2>1, <2>2, <2>3 DEF Decided
<1>4. ASSUME NEW t \in Alarms!Sites \ {s} PROVE Decided(t)'
  BY <1>1, DecidedStill DEF AlarmInv, AlarmsTyped
<1> QED
  BY <1>2, <1>3, <1>4 DEF AlarmInv

\* A commit writes what the call decided on, or gives up.
LEMMA CommitStep ==
    ASSUME AlarmInv, NEW s \in Alarms!Sites, Alarms!Commit(s)
    PROVE  AlarmInv' /\ Alarms!CompletedProperly
<1> DEFINE h == caller[s]
<1>1. /\ h.pc = "commit" /\ caller' = [caller EXCEPT ![s] = Alarms!NoCall]
      /\ UNCHANGED alarmReplay
  BY DEF Alarms!Commit
<1>2. caller' \in [Alarms!Sites -> Caller]
  <2>1. Alarms!NoCall \in Caller
    BY DEF Alarms!NoCall, Alarms!NoAlarm, Caller, AlarmState
  <2> QED
    BY <1>1, <2>1 DEF AlarmInv, AlarmsTyped
<1>3. Decided(s)'
  BY <1>1 DEF AlarmInv, AlarmsTyped, Decided, Alarms!NoCall
<1>4. CASE UNCHANGED <<operations, known, alarm, present>>
  <2>1. AlarmsTyped' /\ KnownAreMade'
    BY <1>1, <1>2, <1>4 DEF AlarmInv, AlarmsTyped, KnownAreMade
  <2>2. ASSUME NEW t \in Alarms!Sites \ {s} PROVE Decided(t)'
    BY <1>1, <1>4, DecidedStill DEF AlarmInv, AlarmsTyped
  <2>3. Alarms!CompletedProperly
    BY <1>4 DEF Alarms!CompletedProperly, AlarmInv, AlarmsTyped
  <2> QED
    BY <1>3, <2>1, <2>2, <2>3 DEF AlarmInv
<1>5. CASE /\ Alarms!Unchanged(s)
           /\ \E t \in ClockTimes :
                LET o == [action |-> h.action, person |-> h.person, site |-> s,
                          at |-> t, basis |-> Alarms!ToSet(known[s])]
                IN operations' = Append(operations, o)
                   /\ Alarms!Apply(s, Len(operations) + 1, Append(operations, o))
  <2>1. PICK t \in ClockTimes :
          LET o == [action |-> h.action, person |-> h.person, site |-> s,
                    at |-> t, basis |-> Alarms!ToSet(known[s])]
          IN operations' = Append(operations, o)
             /\ Alarms!Apply(s, Len(operations) + 1, Append(operations, o))
    BY <1>5
  <2> DEFINE o == [action |-> h.action, person |-> h.person, site |-> s,
                   at |-> t, basis |-> Alarms!ToSet(known[s])]
             n == Len(operations) + 1
  <2>2. /\ operations' = Append(operations, o)
        /\ known' = [known EXCEPT ![s] = Append(@, n)]
        /\ AlarmAcknowledged(s)
    BY <2>1 DEF Alarms!Apply, Alarms!Acknowledge, AlarmAcknowledged
  <2>3. o \in Operation /\ n \in Nat /\ n = Len(operations) + 1
    <3>1. Alarms!ToSet(known[s]) \subseteq Nat
      BY DEF Alarms!ToSet, AlarmInv, AlarmsTyped
    <3>2. h.action \in Actions \cup {"none"} /\ h.person \in Persons \cup {Alarms!Nobody}
      BY DEF AlarmInv, AlarmsTyped, Caller
    <3>3. Len(operations) \in Nat
      BY DEF AlarmInv, AlarmsTyped
    <3> QED
      BY <3>1, <3>2, <3>3 DEF Operation
  <2>4. o.action = h.action /\ o.person = h.person /\ o.site = s
    OBVIOUS
  <2> HIDE DEF o, n
  <2>5. /\ operations' \in Seq(Operation) /\ Len(operations') = n /\ operations'[n] = o
        /\ \A i \in 1..Len(operations) : operations'[i] = operations[i]
    <3>1. operations \in Seq(Operation)
      BY DEF AlarmInv, AlarmsTyped
    <3> QED
      BY <2>2, <2>3, <3>1
  <2>6. known' \in [Alarms!Sites -> Seq(Nat)]
    BY <2>2, <2>3 DEF AlarmInv, AlarmsTyped
  <2>7. AlarmsTyped'
    BY <1>1, <1>2, <2>2, <2>5, <2>6, AcknowledgedTyped DEF AlarmInv, AlarmsTyped
  <2>8. KnownAreMade'
    <3> SUFFICES ASSUME NEW u \in Alarms!Sites, NEW i \in 1..Len(known'[u])
                 PROVE  known'[u][i] \in 1..n
      BY <2>5 DEF KnownAreMade
    <3>1. known[u] \in Seq(Nat) /\ Len(known[u]) \in Nat
      BY DEF AlarmInv, AlarmsTyped
    <3>2. i \in 1..Len(known[u]) => known[u][i] \in 1..n
      BY <2>3 DEF AlarmInv, AlarmsTyped, KnownAreMade
    <3>3. known'[u] = IF u = s THEN Append(known[u], n) ELSE known[u]
      BY <2>2 DEF AlarmInv, AlarmsTyped
    <3>4. n \in 1..n
      BY <2>3 DEF AlarmInv, AlarmsTyped
    <3> QED
      BY <2>3, <3>1, <3>2, <3>3, <3>4
  <2>9. ASSUME NEW u \in Alarms!Sites \ {s} PROVE Decided(u)'
    <3>1. known'[u] = known[u] /\ caller'[u] = caller[u]
      BY <1>1, <2>2 DEF AlarmInv, AlarmsTyped
    <3> QED
      BY <2>5, <3>1, DecidedStill
  <2>10. Alarms!CompletedProperly
    <3>1. Alarms!Allows(h.alarm, s, h.action, h.person)
      BY <1>1, <1>5 DEF AlarmInv, Decided, Alarms!Unchanged
    <3>2. h.alarm = alarm[s]
      BY <1>5 DEF Alarms!Unchanged
    <3>3. operations'[Len(operations')] = o
      BY <2>5
    <3> QED
      BY <2>4, <3>1, <3>2, <3>3 DEF Alarms!CompletedProperly, Alarms!Allowed
  <2> QED
    BY <1>3, <2>7, <2>8, <2>9, <2>10 DEF AlarmInv
<1> QED
  BY <1>4, <1>5 DEF Alarms!Commit

\* The exchange only appends to what a site knows, so nothing that was decided
\* there is committed any more.
LEMMA DeliverStep ==
    ASSUME AlarmInv, NEW s \in Alarms!Sites, NEW t \in Alarms!Sites, Alarms!Deliver(s, t)
    PROVE  AlarmInv'
<1>1. PICK o \in Alarms!Outstanding(s, t) : Alarms!Apply(t, o, operations)
  BY DEF Alarms!Deliver
<1>2. /\ UNCHANGED <<operations, caller, alarmReplay>> /\ AlarmAcknowledged(t)
      /\ known' = [known EXCEPT ![t] = Append(@, o)]
  BY <1>1 DEF Alarms!Deliver, Alarms!Apply, Alarms!Acknowledge, AlarmAcknowledged
<1>3. o \in 1..Len(operations)
  BY DEF Alarms!Outstanding, Alarms!ToSet, AlarmInv, AlarmsTyped, KnownAreMade
<1>4. o \in Nat
  BY <1>3
<1>5. known' \in [Alarms!Sites -> Seq(Nat)]
  BY <1>2, <1>4 DEF AlarmInv, AlarmsTyped
<1>6. AlarmsTyped'
  BY <1>2, <1>5, AcknowledgedTyped DEF AlarmInv, AlarmsTyped
<1>7. ASSUME NEW u \in Alarms!Sites
      PROVE  /\ known[u] \in Seq(Nat) /\ Len(known[u]) \in Nat
             /\ known'[u] = IF u = t THEN Append(known[u], o) ELSE known[u]
  BY <1>2 DEF AlarmInv, AlarmsTyped
<1>8. KnownAreMade'
  <2> SUFFICES ASSUME NEW u \in Alarms!Sites, NEW i \in 1..Len(known'[u])
               PROVE  known'[u][i] \in 1..Len(operations)
    BY <1>2 DEF KnownAreMade
  <2>1. i \in 1..Len(known[u]) => known[u][i] \in 1..Len(operations)
    BY DEF AlarmInv, KnownAreMade
  <2>2. known[u] \in Seq(Nat) /\ Len(known[u]) \in Nat
    BY <1>7
  <2>3. CASE known'[u] = known[u]
    BY <2>1, <2>3
  <2>4. CASE known'[u] = Append(known[u], o)
    <3>1. i \in 1..Len(known[u]) + 1
          /\ known'[u][i] = IF i <= Len(known[u]) THEN known[u][i] ELSE o
      BY <1>4, <2>2, <2>4
    <3> QED
      BY <1>3, <2>1, <2>2, <3>1
  <2> QED
    BY <1>7, <2>3, <2>4
<1>9. ASSUME NEW u \in Alarms!Sites PROVE Decided(u)'
  <2>1. CASE u = t
    <3>1. Len(known'[t]) = Len(known[t]) + 1 /\ Len(known[t]) \in Nat
      <4>1. known[t] \in Seq(Nat) /\ known'[t] = Append(known[t], o)
        BY <1>7
      <4> QED
        BY <1>4, <4>1
    <3>2. caller[t].pc = "commit" => caller[t].seen <= Len(known[t]) /\ caller[t].seen \in Nat
      BY DEF AlarmInv, AlarmsTyped, Decided, Caller
    <3> QED
      BY <1>2, <2>1, <3>1, <3>2 DEF Decided
  <2>2. CASE u # t
    BY <1>2, <1>7, <2>2, DecidedStill
  <2> QED
    BY <2>1, <2>2
<1> QED
  BY <1>6, <1>8, <1>9 DEF AlarmInv

\* The steps that change the alarm, and not what was decided of it.
LEMMA AlarmSteps ==
    ASSUME AlarmInv, UNCHANGED <<operations, known, caller>>, alarmReplay.old' \in AlarmState,
           alarm' \in [Alarms!Sites -> AlarmState], present' \in [Alarms!Sites -> AlarmState]
    PROVE  AlarmInv'
<1>1. AlarmsTyped' /\ KnownAreMade'
  BY DEF AlarmInv, AlarmsTyped, KnownAreMade
<1>2. ASSUME NEW s \in Alarms!Sites PROVE Decided(s)'
  BY DecidedStill
<1> QED
  BY <1>1, <1>2 DEF AlarmInv

LEMMA AlarmsKeep ==
    ASSUME AlarmInv, [Alarms!Next]_(Alarms!vars)
    PROVE  AlarmInv' /\ Alarms!CompletedProperly
<1> USE DEF Alarms!Sites
<1>1. ASSUME UNCHANGED operations PROVE Alarms!CompletedProperly
  BY <1>1 DEF Alarms!CompletedProperly, AlarmInv, AlarmsTyped
<1>2. ASSUME NEW s \in Alarms!Sites, Alarms!Act(s)
      PROVE  AlarmInv' /\ Alarms!CompletedProperly
  <2>1. ASSUME NEW a \in {"acknowledge", "reopen"}, Alarms!Decide(s, a, Alarms!Nobody)
        PROVE  AlarmInv' /\ Alarms!CompletedProperly
    BY <1>1, <2>1, DecideStep DEF Alarms!Decide, Actions
  <2>2. ASSUME NEW p \in Persons, NEW a \in {"assign", "complete"}, Alarms!Decide(s, a, p)
        PROVE  AlarmInv' /\ Alarms!CompletedProperly
    BY <1>1, <2>2, DecideStep DEF Alarms!Decide, Actions
  <2> QED
    BY <1>2, <2>1, <2>2, CommitStep DEF Alarms!Act
<1>3. CASE Alarms!Deliver("edge", "cloud") \/ Alarms!Deliver("cloud", "edge")
  BY <1>1, <1>3, DeliverStep DEF Alarms!Deliver
<1>4. ASSUME NEW s \in Alarms!Sites, NEW a \in BOOLEAN, Alarms!Evaluate(s, a)
      PROVE  AlarmInv' /\ Alarms!CompletedProperly
  <2>1. /\ alarm' \in [Alarms!Sites -> AlarmState] /\ present' \in [Alarms!Sites -> AlarmState]
        /\ UNCHANGED <<operations, known, caller, alarmReplay>>
    BY <1>4, CaseAcknowledged DEF Alarms!Evaluate, AlarmInv, AlarmsTyped, AlarmState
  <2> QED
    BY <1>1, <2>1, AlarmSteps DEF AlarmInv, AlarmsTyped
<1>5. CASE Alarms!BeginReplay
  BY <1>1, <1>5, AlarmSteps DEF Alarms!BeginReplay, AlarmInv, AlarmsTyped
<1>6. CASE Alarms!FinishReplay
  <2>1. /\ alarm' \in [Alarms!Sites -> AlarmState] /\ present' \in [Alarms!Sites -> AlarmState]
        /\ UNCHANGED <<operations, known, caller>> /\ alarmReplay'.old \in AlarmState
    <3> DEFINE old == alarmReplay.old
    <3>1. /\ UNCHANGED <<operations, known, caller>> /\ alarmReplay' = Alarms!NoReplay
          /\ old \in AlarmState
          /\ alarm \in [Alarms!Sites -> AlarmState] /\ present \in [Alarms!Sites -> AlarmState]
      BY <1>6 DEF Alarms!FinishReplay, AlarmInv, AlarmsTyped
    <3>2. Alarms!NoReplay.old \in AlarmState
      BY DEF Alarms!NoReplay, Alarms!NoAlarm, AlarmState
    <3>3. PICK a \in {alarm["edge"]} \cup {[old EXCEPT !.active = FALSE]}
                       \cup {[exists |-> TRUE, active |-> x, ack |-> old.ack] : x \in BOOLEAN} :
             /\ alarm' \in {alarm, [alarm EXCEPT !["edge"] = a]}
             /\ present' \in {present, [present EXCEPT !["edge"] = a],
                               [present EXCEPT !["edge"] = old]}
      BY <1>6, <3>1 DEF Alarms!FinishReplay
    <3>4. a \in AlarmState
      <4> HIDE DEF old
      <4>1. alarm["edge"] \in AlarmState
        BY <3>1
      <4>2. [old EXCEPT !.active = FALSE] \in AlarmState
        BY <3>1 DEF AlarmState
      <4>3. \A x \in BOOLEAN : [exists |-> TRUE, active |-> x, ack |-> old.ack] \in AlarmState
        BY <3>1 DEF AlarmState
      <4> QED
        BY <3>3, <4>1, <4>2, <4>3
    <3> QED
      BY <3>1, <3>2, <3>3, <3>4
  <2> QED
    BY <1>1, <2>1, AlarmSteps
<1>7. CASE Alarms!Project \/ Alarms!AcknowledgedThere \/ Alarms!Poll
  BY <1>1, <1>7, AlarmSteps
     DEF Alarms!Project, Alarms!AcknowledgedThere, Alarms!Poll, AlarmInv, AlarmsTyped
<1>8. CASE Alarms!UpdateNative
  <2>1. /\ alarm' \in [Alarms!Sites -> AlarmState] /\ present' \in [Alarms!Sites -> AlarmState]
        /\ UNCHANGED <<operations, known, caller, alarmReplay>>
    <3>1. UNCHANGED <<operations, known, caller, alarmReplay>> /\ AlarmAcknowledged("edge")
      BY <1>8 DEF Alarms!UpdateNative, Alarms!Acknowledge, AlarmAcknowledged
    <3> QED
      BY <3>1, AcknowledgedTyped
  <2> QED
    BY <1>1, <2>1, AlarmSteps DEF AlarmInv, AlarmsTyped
<1>9. CASE UNCHANGED Alarms!vars
  BY <1>1, <1>9, AlarmSteps DEF Alarms!vars, AlarmInv, AlarmsTyped
<1> QED
  BY <1>2, <1>3, <1>4, <1>5, <1>6, <1>7, <1>8, <1>9 DEF Alarms!Next

\* The handling of an alarm is completed only in a state that allows it, at the
\* site where it is completed (Business.ActOnAlarm, alarmAction).
THEOREM CompletedProperly == Alarms!Spec => Alarms!CompletionsAllowed
<1>1. Alarms!Init => AlarmInv
  BY AlarmsInit
<1>2. AlarmInv /\ [Alarms!Next]_(Alarms!vars)
      => AlarmInv' /\ [Alarms!CompletedProperly]_(Alarms!vars)
  BY AlarmsKeep
<1> QED
  BY <1>1, <1>2, PTL DEF Alarms!Spec, Alarms!CompletionsAllowed

-----------------------------------------------------------------------------
(* The definitions of rules.  What a publication has read is compared when  *)
(* it is stored, version by version; this says something of dependencies    *)
(* of dependencies only because all of these were among what was read       *)
(* (EditRight): as long as none of them has a new version, what can be      *)
(* reached from the draft is the same (ReachStays).                         *)
Version == [status : {"published", "inactive"}, deps : SUBSET Definitions, time : Nat]
DraftState == [version : Nat, base : Nat, deps : SUBSET Definitions, batch : Batches \cup {None}]
Publication == [op : {"publish"}, of : Definitions, deps : SUBSET Definitions, base : Nat,
                draft : Nat \ {0}, seen : SUBSET (Definitions \X Nat), time : Nat]

DefinitionsTyped ==
    /\ definition \in [Definitions -> Seq(Version)]
    /\ drafts \in [Definitions -> DraftState]
    /\ clock \in Nat

EditTyped(x) ==
    /\ x.op \in {"save", "deactivate"} =>
          x.of \in Definitions /\ x.deps \in SUBSET Definitions /\ x.base \in Nat
    /\ x.op = "save" => x.draft \in Nat
    /\ x.op = "deactivate" => x.time \in Nat
    /\ x.op = "publish" =>
          /\ x \in Publication /\ x.draft <= drafts[x.of].version
          /\ \A s \in x.seen : s[2] <= Len(definition[s[1]])
    /\ x.op = "batch" /\ x.status = "prepared" =>
          x.of \in Batches /\ \A d \in Made[x.of] : x.catalogue[d][2] = 0
    /\ x.op = "batch" => x.of \in Batches

EditRight(x) ==
    x.op = "publish" /\ Definition!Fresh(x) =>
        /\ x.deps = drafts[x.of].deps
        /\ x.base = drafts[x.of].base /\ x.base = Definition!Current(x.of)
        /\ x.of \notin Definition!Reach(x.deps)
        /\ x.seen = Definition!Seen(Definition!Reach(x.deps) \cup {x.of})
        /\ x.time > 0 => \A e \in Definition!Reach(x.deps) : Definition!Active(e)

EditInv == DefinitionsTyped /\ \A x \in edits : EditTyped(x) /\ EditRight(x)

LEMMA Versions ==
    ASSUME NEW s \in Seq(Version)
    PROVE  /\ Len(s) \in Nat
           /\ s # <<>> => s[Len(s)] \in Version
  OBVIOUS

LEMMA Dependencies ==
    ASSUME DefinitionsTyped, NEW d \in Definitions
    PROVE  Definition!DepsOf(d) \subseteq Definitions
  BY Versions DEF DefinitionsTyped, Definition!DepsOf, Definition!Current, Version

\* What can be reached depends on what can be reached.
LEMMA ReachStays ==
    ASSUME DefinitionsTyped, DefinitionsTyped', NEW deps \in SUBSET Definitions,
           \A e \in Definition!Reach(deps) : definition'[e] = definition[e]
    PROVE  Definition!Reach(deps)' = Definition!Reach(deps)
<1> DEFINE R == Definition!Reach(deps)
<1>1. \A e \in R : Definition!DepsOf(e)' = Definition!DepsOf(e)
  BY DEF Definition!DepsOf, Definition!Current
<1>2. R \subseteq Definitions /\ deps \subseteq R
  BY DEF Definition!Reach
<1>3. \A f \in R : Definition!DepsOf(f) \subseteq R
  BY <1>2, Dependencies DEF Definition!Reach
<1>4. Definition!Reach(deps)' \subseteq R
  <2> SUFFICES ASSUME NEW e \in Definition!Reach(deps)' PROVE e \in R
    OBVIOUS
  <2>1. \A f \in R : Definition!DepsOf(f)' \subseteq R
    BY <1>1, <1>3
  <2> QED
    BY <1>2, <2>1 DEF Definition!Reach
<1>5. R \subseteq Definition!Reach(deps)'
  <2> SUFFICES ASSUME NEW e \in R, NEW S \in SUBSET Definitions, deps \subseteq S,
                      \A f \in S : Definition!DepsOf(f)' \subseteq S
               PROVE  e \in S
    BY <1>2 DEF Definition!Reach
  <2>1. deps \subseteq S \cap R /\ S \cap R \in SUBSET Definitions
    BY <1>2
  <2>2. \A f \in S \cap R : Definition!DepsOf(f) \subseteq S \cap R
    BY <1>1, <1>3
  <2> QED
    BY <2>1, <2>2 DEF Definition!Reach
<1> QED
  BY <1>4, <1>5

\* A definition has one more version, or is as it was, and so has a draft.
Later(d) == definition'[d] = definition[d] \/ Len(definition'[d]) = Len(definition[d]) + 1
Edited(d) == drafts'[d] = drafts[d] \/ drafts'[d].version = drafts[d].version + 1
Onward == DefinitionsTyped' /\ \A d \in Definitions : Later(d) /\ Edited(d)

LEMMA EditStays ==
    ASSUME EditInv, Onward, NEW x \in edits
    PROVE  EditTyped(x)' /\ EditRight(x)'
<1> USE DEF EditInv, Onward
<1>1. EditTyped(x)'
  <2>1. ASSUME x.op = "publish"
        PROVE  /\ x.draft <= drafts'[x.of].version
               /\ \A s \in x.seen : s[2] <= Len(definition'[s[1]])
    <3>1. x \in Publication /\ x.draft <= drafts[x.of].version
          /\ \A s \in x.seen : s[2] <= Len(definition[s[1]])
      BY <2>1 DEF EditTyped
    <3>2. x.of \in Definitions /\ x.draft \in Nat /\ x.seen \subseteq Definitions \X Nat
      BY <3>1 DEF Publication
    <3>3. x.draft <= drafts'[x.of].version
      <4>1. drafts[x.of].version \in Nat
        BY <3>2 DEF DefinitionsTyped, DraftState
      <4> QED
        BY <3>1, <3>2, <4>1 DEF Edited
    <3>4. ASSUME NEW s \in x.seen PROVE s[2] <= Len(definition'[s[1]])
      <4>1. s[1] \in Definitions /\ s[2] \in Nat /\ s[2] <= Len(definition[s[1]])
        BY <3>1, <3>2
      <4>2. Len(definition[s[1]]) \in Nat
        BY <4>1 DEF DefinitionsTyped
      <4> QED
        BY <4>1, <4>2 DEF Later
    <3> QED
      BY <3>3, <3>4
  <2> QED
    BY <2>1 DEF EditTyped
<1>2. ASSUME x.op = "publish", Definition!Fresh(x)'
      PROVE  /\ Definition!Fresh(x) /\ drafts'[x.of] = drafts[x.of]
             /\ \A s \in x.seen : definition'[s[1]] = definition[s[1]]
  <2>1. x \in Publication /\ x.draft <= drafts[x.of].version
        /\ \A s \in x.seen : s[2] <= Len(definition[s[1]])
    BY <1>2 DEF EditTyped
  <2>2. x.of \in Definitions /\ x.draft \in Nat /\ x.seen \subseteq Definitions \X Nat
    BY <2>1 DEF Publication
  <2>3. drafts'[x.of] = drafts[x.of] /\ drafts[x.of].version = x.draft
    <3>1. drafts[x.of].version \in Nat
      BY <2>2 DEF DefinitionsTyped, DraftState
    <3>2. drafts'[x.of].version = x.draft
      BY <1>2 DEF Definition!Fresh
    <3> QED
      BY <2>1, <2>2, <3>1, <3>2 DEF Edited
  <2>4. ASSUME NEW s \in x.seen
        PROVE  definition'[s[1]] = definition[s[1]] /\ Definition!Current(s[1]) = s[2]
    <3>1. s[1] \in Definitions /\ s[2] \in Nat /\ s[2] <= Len(definition[s[1]])
      BY <2>1, <2>2
    <3>2. Len(definition[s[1]]) \in Nat
      BY <3>1 DEF DefinitionsTyped
    <3>3. Len(definition'[s[1]]) = s[2]
      BY <1>2 DEF Definition!Fresh, Definition!Unchanged, Definition!Current
    <3> QED
      BY <3>1, <3>2, <3>3 DEF Later, Definition!Current
  <2> QED
    BY <2>3, <2>4 DEF Definition!Fresh, Definition!Unchanged
<1>3. EditRight(x)'
  <2> SUFFICES ASSUME x.op = "publish", Definition!Fresh(x)'
               PROVE  /\ x.deps = drafts'[x.of].deps
                      /\ x.base = drafts'[x.of].base /\ x.base = Definition!Current(x.of)'
                      /\ x.of \notin Definition!Reach(x.deps)'
                      /\ x.seen = Definition!Seen(Definition!Reach(x.deps) \cup {x.of})'
                      /\ x.time > 0 => \A e \in Definition!Reach(x.deps)' : Definition!Active(e)'
    BY DEF EditRight
  <2> DEFINE R == Definition!Reach(x.deps)
  <2>1. /\ x.deps = drafts[x.of].deps
        /\ x.base = drafts[x.of].base /\ x.base = Definition!Current(x.of)
        /\ x.of \notin R /\ x.seen = Definition!Seen(R \cup {x.of})
        /\ x.time > 0 => \A e \in R : Definition!Active(e)
    BY <1>2 DEF EditRight
  <2>2. \A e \in R \cup {x.of} : definition'[e] = definition[e]
    <3> TAKE e \in R \cup {x.of}
    <3>1. <<e, Definition!Current(e)>> \in x.seen
      BY <2>1 DEF Definition!Seen
    <3> QED
      BY <1>2, <3>1
  <2>3. x.deps \in SUBSET Definitions
    BY DEF EditTyped, Publication
  <2>4. Definition!Reach(x.deps)' = R
    BY <2>2, <2>3, ReachStays
  <2>5. \A e \in R \cup {x.of} : /\ Definition!Current(e)' = Definition!Current(e)
                                 /\ Definition!Active(e)' <=> Definition!Active(e)
    BY <2>2 DEF Definition!Current, Definition!Active
  <2>6. Definition!Seen(Definition!Reach(x.deps) \cup {x.of})' = Definition!Seen(R \cup {x.of})
    BY <2>4, <2>5 DEF Definition!Seen
  <2> QED
    BY <1>2, <2>1, <2>4, <2>5, <2>6
<1> QED
  BY <1>1, <1>3

\* The operations that only read.
LEMMA BeginSteps ==
    ASSUME EditInv, UNCHANGED <<definition, drafts, clock>>, NEW x,
           EditTyped(x), EditRight(x), edits' \subseteq edits \cup {x}
    PROVE  EditInv'
<1>1. Onward
  BY DEF EditInv, DefinitionsTyped, Onward, Later, Edited
<1>2. ASSUME NEW y \in edits' PROVE EditTyped(y)' /\ EditRight(y)'
  <2>1. CASE y \in edits
    BY <1>1, <2>1, EditStays
  <2>2. CASE y = x
    <3>1. EditTyped(x)'
      BY DEF EditTyped
    <3>2. EditRight(x)'
      BY DEF EditRight, Definition!Fresh, Definition!Unchanged, Definition!Current,
             Definition!Reach, Definition!DepsOf, Definition!Seen, Definition!Active
    <3> QED
      BY <2>2, <3>1, <3>2
  <2> QED
    BY <2>1, <2>2
<1> QED
  BY <1>1, <1>2 DEF EditInv, Onward

LEMMA StoreSteps ==
    ASSUME EditInv, Onward, edits' \subseteq edits
    PROVE  EditInv'
  BY EditStays DEF EditInv, Onward

LEMMA EditsInit ==
    ASSUME Definition!DefinitionConstants, Definition!Init
    PROVE  EditInv
<1>1. edits = {} /\ clock \in Nat
  BY DEF Definition!Init
<1>2. definition \in [Definitions -> Seq(Version)]
  <2>1. PICK deps \in LegacyDeps : definition =
          [d \in Definitions |-> IF d \notin Legacy THEN <<>>
             ELSE <<[status |-> "published", deps |-> deps[d], time |-> 1]>>]
    BY DEF Definition!Init
  <2>2. \A d \in Legacy : [status |-> "published", deps |-> deps[d], time |-> 1] \in Version
    BY DEF Definition!DefinitionConstants, Version
  <2> QED
    BY <2>1, <2>2
<1>3. drafts \in [Definitions -> DraftState]
  BY DEF Definition!Init, DraftState
<1> QED
  BY <1>1, <1>2, <1>3 DEF EditInv, DefinitionsTyped

LEMMA BeginOps ==
    ASSUME Definition!DefinitionConstants, EditInv,
           \/ \E d \in Definitions :
                 \/ \E deps \in SUBSET (Definitions \ {d}) : Definition!BeginSave(d, deps)
                 \/ Definition!BeginPublish(d) \/ Definition!BeginDeactivate(d)
           \/ \E b \in Batches : Definition!BeginBatch(b)
    PROVE  EditInv' /\ UNCHANGED definition
<1>1. ASSUME NEW d \in Definitions, NEW deps \in SUBSET (Definitions \ {d}),
             Definition!BeginSave(d, deps)
      PROVE  EditInv' /\ UNCHANGED definition
  <2> DEFINE x == [op |-> "save", of |-> d, deps |-> deps, base |-> Definition!Current(d),
                   draft |-> drafts[d].version,
                   seen |-> Definition!Seen(Definition!Reach(deps) \cup {d})]
  <2>1. edits' = edits \cup {x} /\ UNCHANGED <<definition, drafts, clock>>
    BY <1>1 DEF Definition!BeginSave, Definition!Begin
  <2>2. EditTyped(x) /\ EditRight(x)
    BY DEF EditTyped, EditRight, EditInv, DefinitionsTyped, DraftState, Definition!Current
  <2> QED
    BY <2>1, <2>2, BeginSteps
<1>2. ASSUME NEW d \in Definitions, Definition!BeginPublish(d)
      PROVE  EditInv' /\ UNCHANGED definition
  <2> DEFINE R == Definition!Reach(drafts[d].deps)
             x == [op |-> "publish", of |-> d, deps |-> drafts[d].deps, base |-> drafts[d].base,
                   draft |-> drafts[d].version, seen |-> Definition!Seen(R \cup {d}),
                   time |-> 0]
  <2>1. /\ edits' = edits \cup {x} /\ UNCHANGED <<definition, drafts, clock>>
        /\ drafts[d].version > 0 /\ drafts[d].base = Definition!Current(d) /\ d \notin R
    BY <1>2 DEF Definition!BeginPublish, Definition!Begin, Definition!Accessible
  <2>2. drafts[d] \in DraftState
    BY DEF EditInv, DefinitionsTyped
  <2>3. R \subseteq Definitions
    BY DEF Definition!Reach
  <2>4. \A e \in Definitions : Definition!Current(e) \in Nat
    BY DEF Definition!Current, EditInv, DefinitionsTyped
  <2>5. /\ Definition!Seen(R \cup {d}) \in SUBSET (Definitions \X Nat)
        /\ \A s \in Definition!Seen(R \cup {d}) : s[2] <= Len(definition[s[1]])
    BY <2>3, <2>4 DEF Definition!Seen, Definition!Current
  <2> HIDE DEF R
  <2>6. x \in Publication
    <3> DEFINE seen == Definition!Seen(R \cup {d})
    <3>1. drafts[d].deps \in SUBSET Definitions /\ drafts[d].base \in Nat
      BY <2>2 DEF DraftState
    <3>2. drafts[d].version \in Nat \ {0}
      BY <2>1, <2>2 DEF DraftState
    <3>3. seen \in SUBSET (Definitions \X Nat)
      BY <2>5
    <3> HIDE DEF seen
    <3>4. [op |-> "publish", of |-> d, deps |-> drafts[d].deps, base |-> drafts[d].base,
           draft |-> drafts[d].version, seen |-> seen, time |-> 0] \in Publication
      BY <3>1, <3>2, <3>3 DEF Publication
    <3> QED
      BY <3>4 DEF seen
  <2>7. /\ x.op = "publish" /\ x.of = d /\ x.deps = drafts[d].deps /\ x.base = drafts[d].base
        /\ x.draft = drafts[d].version /\ x.time = 0 /\ x.seen = Definition!Seen(R \cup {d})
    OBVIOUS
  <2> HIDE DEF x
  <2>8. EditTyped(x)
    <3>1. x.draft <= drafts[x.of].version
      <4>1. drafts[d].version \in Nat
        BY <2>2 DEF DraftState
      <4> QED
        BY <2>7, <4>1
    <3>2. \A s \in x.seen : s[2] <= Len(definition[s[1]])
      BY <2>5, <2>7
    <3> QED
      BY <2>6, <2>7, <3>1, <3>2 DEF EditTyped
  <2>9. EditRight(x)
    BY <2>1, <2>7 DEF EditRight, R
  <2> QED
    BY <2>1, <2>8, <2>9, BeginSteps
<1>3. ASSUME NEW d \in Definitions, Definition!BeginDeactivate(d)
      PROVE  EditInv' /\ UNCHANGED definition
  <2> DEFINE x == [op |-> "deactivate", of |-> d, deps |-> Definition!DepsOf(d),
                   base |-> Definition!Current(d), time |-> clock]
  <2>1. edits' = edits \cup {x} /\ UNCHANGED <<definition, drafts, clock>>
    BY <1>3 DEF Definition!BeginDeactivate, Definition!Begin
  <2>2. EditTyped(x) /\ EditRight(x)
    BY Dependencies DEF EditTyped, EditRight, EditInv, DefinitionsTyped, Definition!Current
  <2> QED
    BY <2>1, <2>2, BeginSteps
<1>4. ASSUME NEW b \in Batches, Definition!BeginBatch(b)
      PROVE  EditInv' /\ UNCHANGED definition
  <2> DEFINE x == [op |-> "batch", of |-> b, version |-> batches[b].version,
                   catalogue |-> Definition!Catalogue,
                   status |-> IF Definition!Clash(b) THEN "failed" ELSE "prepared"]
  <2>1. edits' = edits \cup {x} /\ UNCHANGED <<definition, drafts, clock>>
    BY <1>4 DEF Definition!BeginBatch, Definition!Begin
  <2>2. ~Definition!Clash(b) => \A d \in Made[b] : Definition!Catalogue[d][2] = 0
    <3> SUFFICES ASSUME ~Definition!Clash(b), NEW d \in Made[b]
                 PROVE  Definition!Catalogue[d][2] = 0
      OBVIOUS
    <3>1. d \in Definitions /\ ~(drafts[d].version > 0)
      BY DEF Definition!Clash, Definition!Taken, Definition!DefinitionConstants
    <3>2. drafts[d].version \in Nat
      BY <3>1 DEF EditInv, DefinitionsTyped, DraftState
    <3> QED
      BY <3>1, <3>2 DEF Definition!Catalogue
  <2>3. EditTyped(x) /\ EditRight(x)
    BY <2>2 DEF EditTyped, EditRight
  <2> QED
    BY <2>1, <2>3, BeginSteps
<1> QED
  BY <1>1, <1>2, <1>3, <1>4

\* One more version of a definition, whose draft is newer as well or as it was.
LEMMA OneLater ==
    ASSUME EditInv, NEW d \in Definitions, NEW v \in Version, UNCHANGED clock,
           definition' = [definition EXCEPT ![d] = Append(@, v)],
           drafts' \in [Definitions -> DraftState],
           \A e \in Definitions : Edited(e)
    PROVE  /\ Onward
           /\ \A e \in Definitions : Definition!New(e) =>
                 e = d /\ definition'[e][Len(definition'[e])] = v
<1>1. ASSUME NEW e \in Definitions
      PROVE  /\ definition[e] \in Seq(Version) /\ Len(definition[e]) \in Nat
             /\ definition'[e] = IF e = d THEN Append(definition[e], v) ELSE definition[e]
  BY DEF EditInv, DefinitionsTyped
<1>2. definition' \in [Definitions -> Seq(Version)]
  BY DEF EditInv, DefinitionsTyped
<1>3. ASSUME NEW e \in Definitions PROVE Later(e)
  BY <1>1 DEF Later
<1>4. ASSUME NEW e \in Definitions, Definition!New(e)
      PROVE  e = d /\ definition'[e][Len(definition'[e])] = v
  BY <1>1, <1>4 DEF Definition!New
<1> QED
  BY <1>2, <1>3, <1>4 DEF Onward, EditInv, DefinitionsTyped

LEMMA SaveStep ==
    ASSUME EditInv, NEW x \in edits, Definition!CommitSave(x)
    PROVE  EditInv' /\ UNCHANGED definition
<1>1. CASE Definition!Away(x)
  <2>1. Onward
    BY <1>1 DEF Definition!Away, Definition!CommitSave, EditInv, DefinitionsTyped, Onward,
           Later, Edited
  <2> QED
    BY <1>1, <2>1, StoreSteps DEF Definition!Away, Definition!End
<1>2. CASE ~Definition!Away(x)
  <2> DEFINE n == [version |-> x.draft + 1, base |-> x.base, deps |-> x.deps, batch |-> None]
  <2>1. /\ Definition!Fresh(x) /\ drafts' = [drafts EXCEPT ![x.of] = n]
        /\ edits' \subseteq edits /\ UNCHANGED <<definition, clock>>
    BY <1>2 DEF Definition!CommitSave, Definition!End
  <2>2. /\ x.of \in Definitions /\ x.deps \in SUBSET Definitions /\ x.base \in Nat
        /\ x.draft \in Nat
    BY DEF EditInv, EditTyped, Definition!CommitSave
  <2>3. n \in DraftState /\ n.version = x.draft + 1
    BY <2>2 DEF DraftState
  <2> HIDE DEF n
  <2>4. Onward
    BY <2>1, <2>2, <2>3 DEF EditInv, DefinitionsTyped, Onward, Later, Edited, Definition!Fresh
  <2> QED
    BY <2>1, <2>4, StoreSteps
<1> QED
  BY <1>1, <1>2

LEMMA ValidateStep ==
    ASSUME EditInv, NEW x \in edits, Definition!Validate(x)
    PROVE  EditInv' /\ UNCHANGED definition
<1>1. x.op = "publish" /\ x.time = 0 /\ UNCHANGED <<definition, drafts, clock>>
  BY DEF Definition!Validate
<1> DEFINE n == [x EXCEPT !.time = clock]
<1>2. CASE edits' \subseteq edits
  BY <1>1, <1>2, StoreSteps DEF EditInv, DefinitionsTyped, Onward, Later, Edited
<1>3. CASE /\ edits' \subseteq edits \cup {n}
           /\ \A e \in Definition!Reach(x.deps) : Definition!Active(e)
  <2>1. x \in Publication
    BY <1>1 DEF EditInv, EditTyped
  <2>2. clock \in Nat
    BY DEF EditInv, DefinitionsTyped
  <2>3. /\ n \in Publication /\ n.op = x.op /\ n.of = x.of /\ n.deps = x.deps /\ n.base = x.base
        /\ n.draft = x.draft /\ n.seen = x.seen
    BY <2>1, <2>2 DEF Publication
  <2> HIDE DEF n
  <2>4. EditTyped(n)
    BY <1>1, <2>3 DEF EditInv, EditTyped
  <2>5. EditRight(n)
    BY <1>1, <1>3, <2>3 DEF EditInv, EditRight, Definition!Fresh
  <2> QED
    BY <1>1, <1>3, <2>4, <2>5, BeginSteps
<1> QED
  BY <1>2, <1>3 DEF Definition!Validate, Definition!End

LEMMA PublishStep ==
    ASSUME EditInv, NEW x \in edits, Definition!CommitPublish(x)
    PROVE  EditInv' /\ Definition!PublishedProperly
<1>1. CASE Definition!Away(x)
  <2>1. Onward /\ UNCHANGED definition
    BY <1>1 DEF Definition!Away, Definition!CommitPublish, EditInv, DefinitionsTyped, Onward,
           Later, Edited
  <2>2. Definition!PublishedProperly
    BY <2>1 DEF Definition!PublishedProperly, Definition!New, EditInv, DefinitionsTyped
  <2> QED
    BY <1>1, <2>1, <2>2, StoreSteps DEF Definition!Away, Definition!End
<1>2. CASE ~Definition!Away(x)
  <2> DEFINE v == [status |-> "published", deps |-> x.deps, time |-> x.time]
  <2>1. /\ Definition!Fresh(x) /\ x.op = "publish" /\ x.time > 0
        /\ definition' = [definition EXCEPT ![x.of] = Append(@, v)]
        /\ drafts' = [drafts EXCEPT ![x.of].version = @ + 1, ![x.of].base = x.base + 1]
        /\ edits' \subseteq edits /\ UNCHANGED clock
    BY <1>2 DEF Definition!CommitPublish, Definition!Append1, Definition!End
  <2>2. x \in Publication /\ x.of \in Definitions /\ x.deps \in SUBSET Definitions
        /\ x.base \in Nat /\ x.time \in Nat
    BY <2>1 DEF EditInv, EditTyped, Publication
  <2>3. v \in Version /\ v.deps = x.deps
    BY <2>2 DEF Version
  <2> HIDE DEF v
  <2>4. drafts' \in [Definitions -> DraftState] /\ \A e \in Definitions : Edited(e)
    <3> DEFINE k == [drafts[x.of] EXCEPT !.version = @ + 1, !.base = x.base + 1]
    <3>1. drafts[x.of] \in DraftState
      BY <2>2 DEF EditInv, DefinitionsTyped
    <3>2. k \in DraftState /\ k.version = drafts[x.of].version + 1
      <4> DEFINE o == drafts[x.of]
                 l == [o EXCEPT !.version = o.version + 1]
      <4>1. o \in DraftState /\ o.version + 1 \in Nat /\ x.base + 1 \in Nat
        BY <2>2, <3>1 DEF DraftState
      <4> HIDE DEF o
      <4>2. l \in DraftState /\ l.version = o.version + 1
        BY <4>1 DEF DraftState
      <4> HIDE DEF l
      <4>3. [l EXCEPT !.base = x.base + 1] \in DraftState
            /\ [l EXCEPT !.base = x.base + 1].version = o.version + 1
        BY <4>1, <4>2 DEF DraftState
      <4> QED
        BY <4>3 DEF l, o
    <3>3. drafts' = [drafts EXCEPT ![x.of] = k]
      BY <2>1, <2>2 DEF EditInv, DefinitionsTyped
    <3> HIDE DEF k
    <3> QED
      BY <2>2, <3>2, <3>3 DEF EditInv, DefinitionsTyped, Edited
  <2>5. /\ Onward
        /\ \A e \in Definitions : Definition!New(e) =>
              e = x.of /\ definition'[e][Len(definition'[e])] = v
    BY <2>1, <2>2, <2>3, <2>4, OneLater
  <2>6. Definition!PublishedProperly
    <3> SUFFICES ASSUME NEW d \in Definitions, Definition!New(d)
                 PROVE  LET deps == definition'[d][Len(definition'[d])].deps
                        IN  /\ deps = drafts[d].deps /\ drafts[d].base = Definition!Current(d)
                            /\ d \notin Definition!Reach(deps)
                            /\ \A e \in Definition!Reach(deps) : Definition!Active(e)
      BY DEF Definition!PublishedProperly
    <3>1. d = x.of /\ definition'[d][Len(definition'[d])] = v
      BY <2>5
    <3>2. /\ x.deps = drafts[d].deps /\ drafts[d].base = Definition!Current(d)
          /\ d \notin Definition!Reach(x.deps)
          /\ \A e \in Definition!Reach(x.deps) : Definition!Active(e)
      BY <2>1, <3>1 DEF EditInv, EditRight
    <3> QED
      BY <2>3, <3>1, <3>2
  <2> QED
    BY <2>1, <2>5, <2>6, StoreSteps
<1> QED
  BY <1>1, <1>2

LEMMA DeactivateStep ==
    ASSUME EditInv, NEW x \in edits, Definition!CommitDeactivate(x)
    PROVE  EditInv' /\ Definition!PublishedProperly
<1>1. CASE Definition!Away(x)
  <2>1. Onward /\ UNCHANGED definition
    BY <1>1 DEF Definition!Away, Definition!CommitDeactivate, EditInv, DefinitionsTyped, Onward,
           Later, Edited
  <2>2. Definition!PublishedProperly
    BY <2>1 DEF Definition!PublishedProperly, Definition!New, EditInv, DefinitionsTyped
  <2> QED
    BY <1>1, <2>1, <2>2, StoreSteps DEF Definition!Away, Definition!End
<1>2. CASE ~Definition!Away(x)
  <2> DEFINE v == [status |-> "inactive", deps |-> x.deps, time |-> x.time]
  <2>1. /\ x.op = "deactivate"
        /\ definition' = [definition EXCEPT ![x.of] = Append(@, v)]
        /\ edits' \subseteq edits /\ UNCHANGED <<drafts, clock>>
    BY <1>2 DEF Definition!CommitDeactivate, Definition!Append1, Definition!End
  <2>2. x.of \in Definitions /\ x.deps \in SUBSET Definitions /\ x.time \in Nat
    BY <2>1 DEF EditInv, EditTyped
  <2>3. v \in Version /\ v.status = "inactive"
    BY <2>2 DEF Version
  <2> HIDE DEF v
  <2>4. /\ Onward
        /\ \A e \in Definitions : Definition!New(e) =>
              e = x.of /\ definition'[e][Len(definition'[e])] = v
    BY <2>1, <2>2, <2>3, OneLater DEF EditInv, DefinitionsTyped, Edited
  <2>5. Definition!PublishedProperly
    BY <2>3, <2>4 DEF Definition!PublishedProperly
  <2> QED
    BY <2>1, <2>4, <2>5, StoreSteps
<1> QED
  BY <1>1, <1>2

LEMMA BatchStep ==
    ASSUME Definition!DefinitionConstants, EditInv, NEW x \in edits, Definition!CommitBatch(x)
    PROVE  EditInv' /\ UNCHANGED definition
<1>1. CASE Definition!Away(x)
  <2>1. Onward
    BY <1>1 DEF Definition!Away, Definition!CommitBatch, EditInv, DefinitionsTyped, Onward,
           Later, Edited
  <2> QED
    BY <1>1, <2>1, StoreSteps DEF Definition!Away, Definition!End
<1>2. CASE ~Definition!Away(x)
  <2> DEFINE n == [version |-> 1, base |-> 0, deps |-> {}, batch |-> x.of]
  <2>1. /\ Definition!BatchFresh(x) /\ x.op = "batch"
        /\ drafts' = [d \in Definitions |-> IF x.status = "prepared" /\ d \in Made[x.of]
                                            THEN n ELSE drafts[d]]
        /\ edits' \subseteq edits /\ UNCHANGED <<definition, clock>>
    BY <1>2 DEF Definition!CommitBatch, Definition!End
  <2>2. x.of \in Batches /\ (x.status = "prepared" => \A d \in Made[x.of] : x.catalogue[d][2] = 0)
    BY <2>1 DEF EditInv, EditTyped
  <2>3. n \in DraftState /\ n.version = 1
    BY <2>2 DEF DraftState
  <2> HIDE DEF n
  <2>4. ASSUME NEW d \in Definitions
        PROVE  drafts'[d] \in DraftState /\ Edited(d)
    <3>1. CASE x.status = "prepared" /\ d \in Made[x.of]
      <4>1. drafts[d].version = 0
        <5>1. x.catalogue[d] = <<Definition!Current(d), drafts[d].version>>
          BY <2>1 DEF Definition!BatchFresh, Definition!Catalogue
        <5>2. x.catalogue[d][2] = 0
          BY <2>2, <3>1
        <5> QED
          BY <5>1, <5>2
      <4>2. drafts'[d] = n
        BY <2>1, <3>1
      <4> QED
        BY <2>3, <4>1, <4>2 DEF Edited
    <3>2. CASE ~(x.status = "prepared" /\ d \in Made[x.of])
      BY <2>1, <3>2 DEF Edited, EditInv, DefinitionsTyped
    <3> QED
      BY <3>1, <3>2
  <2>5. Onward
    BY <2>1, <2>4 DEF EditInv, DefinitionsTyped, Onward, Later
  <2> QED
    BY <2>1, <2>5, StoreSteps
<1> QED
  BY <1>1, <1>2

LEMMA EditsKeep ==
    ASSUME Definition!DefinitionConstants, EditInv, [Definition!Next]_(Definition!vars)
    PROVE  EditInv' /\ Definition!PublishedProperly
<1>1. ASSUME UNCHANGED definition PROVE Definition!PublishedProperly
  BY <1>1 DEF Definition!PublishedProperly, Definition!New, EditInv, DefinitionsTyped
<1>2. ASSUME UNCHANGED <<definition, drafts>>, clock' \in Nat, edits' \subseteq edits PROVE EditInv'
  <2>1. Onward
    BY <1>2 DEF EditInv, DefinitionsTyped, Onward, Later, Edited
  <2> QED
    BY <1>2, <2>1, StoreSteps
<1>3. CASE \/ \E d \in Definitions :
                 \/ \E deps \in SUBSET (Definitions \ {d}) : Definition!BeginSave(d, deps)
                 \/ Definition!BeginPublish(d) \/ Definition!BeginDeactivate(d)
           \/ \E b \in Batches : Definition!BeginBatch(b)
  BY <1>1, <1>3, BeginOps
<1>4. ASSUME NEW x \in edits,
             \/ Definition!CommitSave(x) \/ Definition!Validate(x)
             \/ Definition!CommitPublish(x) \/ Definition!CommitDeactivate(x)
             \/ Definition!CommitBatch(x)
      PROVE  EditInv' /\ Definition!PublishedProperly
  BY <1>1, <1>4, SaveStep, ValidateStep, PublishStep, DeactivateStep, BatchStep
<1>5. CASE \E n \in 1..MaxImport : Definition!ImportChanges(n)
  BY <1>1, <1>2, <1>5 DEF Definition!ImportChanges, EditInv, DefinitionsTyped
<1>6. CASE Definition!Restart
  BY <1>1, <1>2, <1>6 DEF Definition!Restart, EditInv, DefinitionsTyped
<1>7. CASE Definition!Advance
  BY <1>1, <1>2, <1>7 DEF Definition!Advance, EditInv, DefinitionsTyped
<1>8. CASE UNCHANGED Definition!vars
  BY <1>1, <1>2, <1>8 DEF Definition!vars, EditInv, DefinitionsTyped
<1> QED
  BY <1>3, <1>4, <1>5, <1>6, <1>7, <1>8 DEF Definition!Next

\* A version is published from the draft as it stands, at a moment at which all
\* that it depends on is active and does not depend on it (Definitions.Publish,
\* CheckDependencies).
THEOREM PublishedOnActive ==
    Definition!DefinitionConstants
      => (Definition!Spec => [][Definition!PublishedProperly]_(Definition!vars))
<1> SUFFICES ASSUME Definition!DefinitionConstants
             PROVE  Definition!Spec => [][Definition!PublishedProperly]_(Definition!vars)
  OBVIOUS
<1>1. Definition!Init => EditInv
  BY EditsInit
<1>2. EditInv /\ [Definition!Next]_(Definition!vars)
      => EditInv' /\ [Definition!PublishedProperly]_(Definition!vars)
  BY EditsKeep
<1> QED
  BY <1>1, <1>2, PTL DEF Definition!Spec

-----------------------------------------------------------------------------
(* The work orders.  A call commits on what it has read as long as none of  *)
(* these documents has a new version (HoldsRights, HoldsPersons,            *)
(* HoldsOrder); what it checked then still holds.  A request takes effect   *)
(* once because every entry of the order is that of a request that is kept. *)
Given == {"create", "assign", "handover"}
OrderOperations == Work!AllActions \cup Given
Evidences == [kind : {"none", "version", "acts"}, version : Nat]
Someone == Persons \cup {Work!Nobody}
OrderInput == [id : Requests, action : OrderOperations, version : Nat, to : Someone,
               evidence : Evidences]
Entry == [who : Persons, id : Requests, action : OrderOperations, evidence : Evidences]
OrderState == [status : {"none", "open", "in_progress", "completed"}, assignee : Someone,
               dep : Nat, version : Nat, entries : Seq(Entry)]

OrderTyped ==
    /\ members \in [Persons -> [dep : {1, 2}, version : Nat]]
    /\ rights \in [may : SUBSET Persons, version : Nat]
    /\ reviewed \in [version : Nat, acts : Nat]
    /\ workOrder \in OrderState
    /\ workOrder.version = 0 => workOrder.status = "none"

InputRight(i) ==
    /\ i \in OrderInput /\ i.version <= workOrder.version
    /\ i.to # Work!Nobody <=> i.action \in Given
    /\ i.action = "create" => i.version = 0

HoldsRights(h) ==
    /\ h.rights \in Nat /\ h.rights <= rights.version
    /\ h.rights = rights.version =>
          h.who \in rights.may /\ (h.input.action \in Given => h.input.to \in rights.may)
HoldsPersons(h) ==
    /\ \A p \in DOMAIN h.person :
           p \in Persons /\ h.person[p] \in Nat /\ h.person[p] <= members[p].version
    /\ h.input.action \in Given =>
          /\ h.input.to \in DOMAIN h.person
          /\ h.person[h.input.to] = members[h.input.to].version =>
                members[h.input.to].dep = h.dep
HoldsAssignee(h) ==
    LET a == workOrder.assignee IN
    /\ h.who \in Administrators \/ h.who = a
    /\ a \in DOMAIN h.person
    /\ h.rights = rights.version => a \in rights.may
    /\ h.person[a] = members[a].version => members[a].dep = workOrder.dep
HoldsOrder(h) ==
    h.input.action # "create" /\ h.input.version = workOrder.version =>
        /\ Work!StatusAllows(workOrder, h.input.action)
        /\ h.input.action # "assign" => HoldsAssignee(h)

Asked(h) ==
    /\ h.who \in Persons /\ InputRight(h.input) /\ h.dep \in Nat
    /\ HoldsRights(h) /\ HoldsPersons(h) /\ HoldsOrder(h)
CallsRight ==
    /\ asked = [c \in Calls |-> asked[c]]
    /\ \A h \in {asked[c] : c \in Calls} : h.pc # "idle" => Asked(h)

Answers(r, e) ==
    r.who = e.who /\ r.input.id = e.id /\ Work!Operation(r.input.action) = Work!Operation(e.action)
RequestsRight ==
    /\ \A r \in taken : InputRight(r.input)
    /\ \A i \in 1 .. Len(workOrder.entries) : \E r \in taken : Answers(r, workOrder.entries[i])

WInv == OrderTyped /\ CallsRight /\ RequestsRight /\ Work!TakenOnce

LEMMA OrderInit ==
    ASSUME Work!OrderConstants, Work!Init
    PROVE  WInv
<1>1. workOrder \in OrderState /\ workOrder.entries = <<>> /\ workOrder.status = "none"
  BY DEF Work!Init, Work!NoOrder, OrderState, Someone
<1>2. OrderTyped
  BY <1>1 DEF Work!Init, OrderTyped
<1>3. CallsRight
  BY DEF Work!Init, CallsRight, Work!NoCall
<1>4. RequestsRight /\ Work!TakenOnce
  BY <1>1 DEF Work!Init, RequestsRight, Work!TakenOnce
<1> QED
  BY <1>2, <1>3, <1>4 DEF WInv

LEMMA InputsRight ==
    ASSUME Work!OrderConstants, WInv, NEW who \in Persons,
           NEW i \in Work!Repeated(who) \cup
                     UNION {Work!Fresh(a) : a \in IF workOrder.version = 0 THEN {"create"}
                                                  ELSE OrderActions \cup {"handover"}}
    PROVE  InputRight(i)
<1>1. CASE i \in Work!Repeated(who)
  <2>1. CASE \E r \in taken : i = r.input
    BY <2>1 DEF WInv, RequestsRight
  <2>2. CASE \E c \in Calls : asked[c].pc # "idle" /\ i = asked[c].input
    BY <2>2 DEF WInv, CallsRight, Asked
  <2> QED
    BY <1>1, <2>1, <2>2 DEF Work!Repeated
<1>2. ASSUME NEW a \in IF workOrder.version = 0 THEN {"create"}
                       ELSE OrderActions \cup {"handover"},
             i \in Work!Fresh(a)
      PROVE  InputRight(i)
  <2>1. PICK m \in Requests, t \in Work!Targets(a), e \in Work!Evidence(a) :
            i = [id |-> m, action |-> a, version |-> workOrder.version, to |-> t, evidence |-> e]
    BY <1>2 DEF Work!Fresh
  <2>2. workOrder.version \in Nat
    BY DEF WInv, OrderTyped, OrderState
  <2>3. a \in OrderOperations /\ (a = "create" => workOrder.version = 0)
    BY DEF Work!OrderConstants, OrderOperations, Given, Work!AllActions
  <2>4. e \in Evidences
    <3>1. reviewed.version \in Nat /\ reviewed.acts \in Nat
      BY DEF WInv, OrderTyped
    <3> QED
      BY <3>1 DEF Work!Evidence, Evidences, Work!NoEvidence
  <2>5. t \in Someone /\ (t # Work!Nobody <=> a \in Given)
    <3>1. CASE a \in {"create", "assign"}
      BY <3>1 DEF Work!Targets, Given, Work!OrderConstants, Someone
    <3>2. CASE a = "handover"
      BY <3>2 DEF Work!Targets, Given, Work!OrderConstants, Someone
    <3>3. CASE a \notin Given
      BY <3>3 DEF Work!Targets, Given, Someone
    <3> QED
      BY <3>1, <3>2, <3>3 DEF Given
  <2>6. i \in OrderInput /\ i.version = workOrder.version /\ i.to = t /\ i.action = a
    BY <2>1, <2>2, <2>3, <2>4, <2>5 DEF OrderInput
  <2> QED
    BY <2>2, <2>3, <2>5, <2>6 DEF InputRight
<1> QED
  BY <1>1, <1>2

\* What a call has read that begins to commit.
LEMMA AskedRight ==
    ASSUME Work!OrderConstants, WInv, NEW c \in Calls, NEW who \in Persons,
           NEW i, InputRight(i), Work!Ask(c, who, i)
    PROVE  /\ \E h : asked' = [asked EXCEPT ![c] = h] /\ Asked(h)
           /\ UNCHANGED <<members, rights, reviewed, workOrder, taken>>
<1> DEFINE D == {who} \cup Work!Involved(workOrder, i)
           k == IF i.to = Work!Nobody THEN 0 ELSE members[i.to].dep
           r == rights.version
           f == [p \in D |-> members[p].version]
           h == [pc |-> "commit", who |-> who, input |-> i, rights |-> r, person |-> f, dep |-> k]
<1>1. /\ asked' = [asked EXCEPT ![c] = h] /\ Work!Allowed(who, i)
      /\ UNCHANGED <<members, rights, reviewed, workOrder, taken>>
  BY DEF Work!Ask
<1>3. /\ h.who = who /\ h.input = i /\ h.rights = r /\ h.person = f /\ h.dep = k
  OBVIOUS
<1>4. /\ i \in OrderInput /\ (i.to # Work!Nobody <=> i.action \in Given)
      /\ i.action \in Given => i.to \in Persons
  BY DEF InputRight, OrderInput, Someone
<1>5. /\ D \subseteq Persons /\ who \in D /\ (i.action \in Given => i.to \in D)
      /\ workOrder.assignee # Work!Nobody => workOrder.assignee \in D
  <2>1. workOrder.assignee \in Someone
    BY DEF WInv, OrderTyped, OrderState
  <2> QED
    BY <1>4, <2>1 DEF Work!Involved, OrderInput, Someone
<1>6. \A p \in Persons : members[p].version \in Nat /\ members[p].dep \in Nat
  BY DEF WInv, OrderTyped
<1>7. DOMAIN f = D /\ \A p \in D : f[p] = members[p].version
  OBVIOUS
<1>8. k \in Nat /\ (i.action \in Given => k = members[i.to].dep)
  BY <1>4, <1>6
<1> HIDE DEF f, k, D
<1>9. HoldsRights(h)
  <2>1. who \in rights.may /\ (i.action \in Given => i.to \in rights.may)
    BY <1>1, <1>4 DEF Work!Allowed, Work!Member
  <2>2. r \in Nat
    BY DEF WInv, OrderTyped
  <2> QED
    BY <2>1, <2>2 DEF HoldsRights
<1>10. HoldsPersons(h)
  <2> HIDE DEF h
  <2> QED
    BY <1>3, <1>5, <1>6, <1>7, <1>8 DEF HoldsPersons
<1>11. HoldsOrder(h)
  <2> SUFFICES ASSUME i.action # "create"
               PROVE  /\ Work!StatusAllows(workOrder, i.action)
                      /\ i.action # "assign" => HoldsAssignee(h)
    BY <1>3 DEF HoldsOrder
  <2>1. Work!WorkOrderAction(workOrder, who, i.action)
    BY <1>1 DEF Work!Allowed
  <2>2. ASSUME i.action # "assign" PROVE HoldsAssignee(h)
    <3>1. /\ workOrder.assignee = who \/ who \in Administrators
          /\ workOrder.assignee \in rights.may
          /\ members[workOrder.assignee].dep = workOrder.dep
      BY <2>1, <2>2 DEF Work!WorkOrderAction, Work!Responsible, Work!Member
    <3>2. workOrder.assignee # Work!Nobody
      BY <3>1 DEF WInv, OrderTyped, Work!OrderConstants
    <3> HIDE DEF h
    <3> QED
      BY <1>3, <1>5, <1>7, <3>1, <3>2 DEF HoldsAssignee
  <2> QED
    BY <2>1, <2>2 DEF Work!WorkOrderAction
<1>12. Asked(h)
  BY <1>3, <1>8, <1>9, <1>10, <1>11 DEF Asked
<1> QED
  BY <1>1, <1>12

\* What a call holds to stays true when documents get new versions.
Newer ==
    /\ \A p \in Persons : \/ members'[p] = members[p]
                          \/ members'[p].version = members[p].version + 1
    /\ rights' = rights \/ rights'.version = rights.version + 1
    /\ workOrder' = workOrder \/ workOrder'.version = workOrder.version + 1

LEMMA AskedStays ==
    ASSUME OrderTyped, Newer, NEW h, Asked(h)
    PROVE  Asked(h)'
<1>1. /\ \A p \in Persons : members[p].version \in Nat
      /\ rights.version \in Nat /\ workOrder.version \in Nat
  BY DEF OrderTyped, OrderState
<1>2. InputRight(h.input)'
  BY <1>1 DEF Asked, InputRight, Newer, OrderInput
<1>3. HoldsRights(h)'
  BY <1>1 DEF Asked, HoldsRights, Newer
<1>4. HoldsPersons(h)'
  <2>1. ASSUME NEW p \in DOMAIN h.person
        PROVE  /\ p \in Persons /\ h.person[p] \in Nat /\ h.person[p] <= members'[p].version
               /\ h.person[p] = members'[p].version => members'[p] = members[p]
    BY <1>1 DEF Asked, HoldsPersons, Newer
  <2> QED
    BY <2>1 DEF Asked, HoldsPersons
<1>5. HoldsOrder(h)'
  <2> SUFFICES ASSUME h.input.action # "create", h.input.version = workOrder'.version
               PROVE  /\ Work!StatusAllows(workOrder', h.input.action)
                      /\ h.input.action # "assign" => HoldsAssignee(h)'
    BY DEF HoldsOrder, Work!StatusAllows
  <2>1. workOrder' = workOrder
    BY <1>1 DEF Asked, InputRight, Newer, OrderInput
  <2>2. HoldsAssignee(h) => HoldsAssignee(h)'
    <3> DEFINE a == workOrder.assignee
    <3> SUFFICES ASSUME HoldsAssignee(h) PROVE HoldsAssignee(h)'
      OBVIOUS
    <3>1. a \in DOMAIN h.person /\ a \in Persons /\ h.person[a] \in Nat
          /\ h.person[a] <= members[a].version
      BY DEF HoldsAssignee, Asked, HoldsPersons
    <3>2. h.person[a] = members'[a].version => members'[a] = members[a]
      BY <1>1, <3>1 DEF Newer
    <3>3. h.rights = rights'.version => rights' = rights
      BY <1>1 DEF Asked, HoldsRights, Newer
    <3> QED
      BY <2>1, <3>1, <3>2, <3>3 DEF HoldsAssignee
  <2> QED
    BY <2>1, <2>2 DEF Asked, HoldsOrder
<1> QED
  BY <1>2, <1>3, <1>4, <1>5 DEF Asked

LEMMA CallsStay ==
    ASSUME WInv, Newer, NEW h, asked' = asked
           \/ \E c \in Calls : asked' = [asked EXCEPT ![c] = h] /\ (h.pc # "idle" => Asked(h)')
    PROVE  CallsRight'
<1>1. asked' = [c \in Calls |-> asked'[c]]
  BY DEF WInv, CallsRight
<1>2. ASSUME NEW g \in {asked'[c] : c \in Calls}, g.pc # "idle" PROVE Asked(g)'
  <2>1. CASE g \in {asked[c] : c \in Calls}
    BY <1>2, <2>1, AskedStays DEF WInv, CallsRight
  <2>2. CASE g = h /\ Asked(h)'
    BY <2>2
  <2> QED
    BY <1>2, <2>1, <2>2 DEF WInv, CallsRight
<1> QED
  BY <1>1, <1>2 DEF CallsRight

\* The step that begins a call, and the changes of members, rights and alarm.
LEMMA OrderRests ==
    ASSUME WInv, Newer, CallsRight', UNCHANGED <<workOrder, taken>>,
           members' \in [Persons -> [dep : {1, 2}, version : Nat]],
           rights' \in [may : SUBSET Persons, version : Nat],
           reviewed' \in [version : Nat, acts : Nat]
    PROVE  WInv'
<1>1. OrderTyped'
  BY DEF WInv, OrderTyped
<1>2. RequestsRight' /\ Work!TakenOnce'
  BY DEF WInv, RequestsRight, InputRight, Answers, Work!TakenOnce
<1> QED
  BY <1>1, <1>2 DEF WInv

LEMMA BeginStep ==
    ASSUME Work!OrderConstants, WInv, NEW c \in Calls, Work!Begin(c)
    PROVE  WInv' /\ UNCHANGED workOrder
<1>1. PICK who \in Persons :
        \E i \in Work!Repeated(who) \cup
                UNION {Work!Fresh(a) : a \in IF workOrder.version = 0 THEN {"create"}
                                             ELSE OrderActions \cup {"handover"}} :
            Work!Ask(c, who, i)
  BY DEF Work!Begin
<1>2. PICK i : InputRight(i) /\ Work!Ask(c, who, i)
  BY <1>1, InputsRight
<1>3. /\ \E h : asked' = [asked EXCEPT ![c] = h] /\ Asked(h)
      /\ UNCHANGED <<members, rights, reviewed, workOrder, taken>>
  BY <1>2, AskedRight
<1>4. Newer
  BY <1>3 DEF Newer
<1>5. PICK h : asked' = [asked EXCEPT ![c] = h] /\ Asked(h)'
  BY <1>3, <1>4, AskedStays DEF WInv
<1>6. CallsRight'
  BY <1>4, <1>5, CallsStay
<1> QED
  BY <1>3, <1>4, <1>6, OrderRests DEF WInv, OrderTyped

LEMMA OthersSteps ==
    ASSUME WInv, (\E p \in Persons : Work!Move(p) \/ Work!Grant(p)) \/ Work!ChangeAlarm
    PROVE  WInv' /\ UNCHANGED workOrder
<1>1. ASSUME NEW p \in Persons, Work!Move(p)
      PROVE  /\ members' \in [Persons -> [dep : {1, 2}, version : Nat]]
             /\ \A q \in Persons : \/ members'[q] = members[q]
                                   \/ members'[q].version = members[q].version + 1
  <2> DEFINE n == [dep |-> 3 - members[p].dep, version |-> members[p].version + 1]
  <2>1. members' = [members EXCEPT ![p] = n]
    BY <1>1 DEF Work!Move
  <2>2. members[p].dep \in {1, 2} /\ members[p].version \in Nat
    BY DEF WInv, OrderTyped
  <2>3. n \in [dep : {1, 2}, version : Nat] /\ n.version = members[p].version + 1
    BY <2>2
  <2> HIDE DEF n
  <2> QED
    BY <2>1, <2>3 DEF WInv, OrderTyped
<1>2. ASSUME NEW p \in Persons, Work!Grant(p)
      PROVE  /\ rights' \in [may : SUBSET Persons, version : Nat]
             /\ rights'.version = rights.version + 1
  BY <1>2 DEF Work!Grant, WInv, OrderTyped
<1>3. ASSUME Work!ChangeAlarm
      PROVE  reviewed' \in [version : Nat, acts : Nat]
  BY <1>3 DEF Work!ChangeAlarm, WInv, OrderTyped
<1>4. /\ members' \in [Persons -> [dep : {1, 2}, version : Nat]]
      /\ rights' \in [may : SUBSET Persons, version : Nat]
      /\ reviewed' \in [version : Nat, acts : Nat]
      /\ Newer /\ UNCHANGED <<workOrder, taken, asked>>
  BY <1>1, <1>2, <1>3 DEF Work!Move, Work!Grant, Work!ChangeAlarm, Newer, WInv, OrderTyped
<1>5. CallsRight'
  BY <1>4, CallsStay
<1> QED
  BY <1>4, <1>5, OrderRests

\* A call commits on documents that are as it read them.
LEMMA EntryStep ==
    ASSUME Work!OrderConstants, WInv, NEW h, Asked(h), Work!Unchanged(h),
           Work!Earlier(h.who, h.input) = {}, workOrder' = Work!After(h),
           taken' = taken \cup {[who |-> h.who, input |-> h.input]},
           UNCHANGED <<members, rights, reviewed>>
    PROVE  /\ OrderTyped' /\ RequestsRight' /\ Work!TakenOnce' /\ Newer
           /\ Work!WorkedProperly
<1> DEFINE e == [who |-> h.who, id |-> h.input.id, action |-> h.input.action,
                 evidence |-> h.input.evidence]
           es == Append(workOrder.entries, e)
<1>1. /\ h.who \in Persons /\ h.input \in OrderInput /\ h.dep \in Nat
      /\ h.input.to # Work!Nobody <=> h.input.action \in Given
      /\ h.input.version = workOrder.version /\ h.rights = rights.version
      /\ \A p \in DOMAIN h.person : members[p].version = h.person[p]
      /\ Work!Stands(h.input.evidence)
  BY DEF Asked, InputRight, Work!Unchanged, Work!PersonsUnchanged
<1>2. e \in Entry /\ e.who = h.who /\ e.id = h.input.id /\ e.action = h.input.action
      /\ e.evidence = h.input.evidence
  BY <1>1 DEF OrderInput, Entry
<1>3. workOrder.entries \in Seq(Entry) /\ workOrder.version \in Nat
  BY DEF WInv, OrderTyped, OrderState
<1> HIDE DEF e
<1>4. es \in Seq(Entry) /\ Len(es) = Len(workOrder.entries) + 1 /\ es[Len(es)] = e
      /\ Len(workOrder.entries) \in Nat
      /\ \A j \in 1 .. Len(workOrder.entries) : es[j] = workOrder.entries[j]
  BY <1>2, <1>3
<1>5. /\ workOrder' \in OrderState /\ workOrder'.version = workOrder.version + 1
      /\ workOrder'.entries = es
      /\ workOrder'.assignee = IF h.input.action \in Given THEN h.input.to
                               ELSE workOrder.assignee
      /\ h.input.action \in Given => workOrder'.dep = h.dep
  <2> DEFINE n == [workOrder EXCEPT !.version = @ + 1]
             o == [workOrder EXCEPT !.version = @ + 1, !.entries = es]
  <2>1. o \in OrderState /\ o.version = workOrder.version + 1 /\ o.entries = es
        /\ o.assignee = workOrder.assignee
    <3> HIDE DEF es
    <3>1. workOrder \in OrderState
      BY DEF WInv, OrderTyped
    <3>2. /\ n \in OrderState /\ n.version = workOrder.version + 1
          /\ n.assignee = workOrder.assignee
      BY <1>3, <3>1 DEF OrderState
    <3>3. o = [n EXCEPT !.entries = es]
      BY <3>1 DEF OrderState
    <3> HIDE DEF n, o
    <3> QED
      BY <1>4, <3>2, <3>3 DEF OrderState
  <2>2. workOrder' =
          LET a == h.input.action IN
          CASE a \in {"create", "assign", "handover"} ->
                  [o EXCEPT !.assignee = h.input.to, !.dep = h.dep,
                            !.status = IF a = "create" THEN "open" ELSE @]
            [] a = "start" -> [o EXCEPT !.status = "in_progress"]
            [] a = "complete" -> [o EXCEPT !.status = "completed"]
            [] a = "reopen" -> [o EXCEPT !.status = "open"]
            [] OTHER -> o
    BY DEF Work!After, e
  <2>3. h.input.to \in Someone /\ h.input.action \in OrderOperations
    BY <1>1 DEF OrderInput
  <2> HIDE DEF o, es
  <2>4. CASE h.input.action \in Given
    <3> DEFINE s == IF h.input.action = "create" THEN "open" ELSE o.status
    <3>1. s \in {"none", "open", "in_progress", "completed"}
      BY <2>1 DEF OrderState
    <3>2. workOrder' = [o EXCEPT !.assignee = h.input.to, !.dep = h.dep, !.status = s]
      BY <2>2, <2>4 DEF Given
    <3> HIDE DEF s
    <3> QED
      BY <1>1, <2>1, <2>3, <2>4, <3>1, <3>2 DEF OrderState
  <2>5. CASE h.input.action \notin Given
    <3>1. \/ workOrder' = o
          \/ \E s \in {"open", "in_progress", "completed"} : workOrder' = [o EXCEPT !.status = s]
      BY <2>2, <2>5 DEF Given
    <3> QED
      BY <2>1, <2>5, <3>1 DEF OrderState
  <2> QED
    BY <2>4, <2>5
<1> HIDE DEF es
<1>6. OrderTyped' /\ Newer
  BY <1>3, <1>5 DEF WInv, OrderTyped, Newer
<1>7. RequestsRight'
  <2> DEFINE q == [who |-> h.who, input |-> h.input]
  <2>1. q \in taken' /\ q.who = h.who /\ q.input = h.input
    OBVIOUS
  <2>2. Answers(q, e)
    BY <1>2, <2>1 DEF Answers
  <2>3. ASSUME NEW j \in 1 .. Len(es) PROVE \E r \in taken' : Answers(r, es[j])
    BY <1>4, <2>1, <2>2, <2>3 DEF WInv, RequestsRight
  <2>4. ASSUME NEW r \in taken' PROVE InputRight(r.input)'
    BY <1>3, <1>5, <2>1 DEF WInv, RequestsRight, Asked, InputRight, OrderInput
  <2> QED
    BY <1>5, <2>3, <2>4 DEF RequestsRight, Answers, Work!Operation
<1>8. Work!TakenOnce'
  <2>1. ASSUME NEW j \in 1 .. Len(workOrder.entries)
        PROVE  ~ /\ workOrder.entries[j].who = e.who /\ workOrder.entries[j].id = e.id
                 /\ Work!Operation(workOrder.entries[j].action) = Work!Operation(e.action)
    BY <1>2 DEF WInv, RequestsRight, Answers, Work!Earlier, Work!Same
  <2> SUFFICES ASSUME NEW j \in DOMAIN es, NEW k \in DOMAIN es,
                      es[j].who = es[k].who, es[j].id = es[k].id,
                      Work!Operation(es[j].action) = Work!Operation(es[k].action)
               PROVE  j = k
    BY <1>5 DEF Work!TakenOnce, Work!Operation
  <2>2. /\ j \in 1 .. Len(es) /\ k \in 1 .. Len(es)
        /\ DOMAIN workOrder.entries = 1 .. Len(workOrder.entries)
    BY <1>3, <1>4
  <2>3. CASE j # Len(es) /\ k # Len(es)
    <3>1. j \in 1 .. Len(workOrder.entries) /\ k \in 1 .. Len(workOrder.entries)
      BY <1>4, <2>2, <2>3
    <3>2. es[j] = workOrder.entries[j] /\ es[k] = workOrder.entries[k]
      BY <1>4, <3>1
    <3>3. j \in DOMAIN workOrder.entries /\ k \in DOMAIN workOrder.entries
      BY <2>2, <3>1
    <3> QED
      BY <3>2, <3>3 DEF WInv, Work!TakenOnce
  <2>4. ASSUME NEW m \in 1 .. Len(es), es[m].who = e.who, es[m].id = e.id,
               Work!Operation(es[m].action) = Work!Operation(e.action)
        PROVE  m = Len(es)
    <3> SUFFICES ASSUME m # Len(es) PROVE FALSE
      OBVIOUS
    <3>1. m \in 1 .. Len(workOrder.entries)
      BY <1>4
    <3>2. es[m] = workOrder.entries[m]
      BY <1>4, <3>1
    <3> QED
      BY <2>1, <2>4, <3>1, <3>2
  <2>5. CASE j = Len(es)
    BY <1>4, <2>2, <2>4, <2>5
  <2>6. CASE k = Len(es)
    BY <1>4, <2>2, <2>4, <2>6
  <2> QED
    BY <2>3, <2>5, <2>6
<1>9. Work!WorkedProperly
  <2>1. Work!Last(workOrder'.entries) = e
    BY <1>4, <1>5 DEF Work!Last
  <2>2. h.who \in rights.may /\ (h.input.action \in Given => h.input.to \in rights.may)
    BY <1>1 DEF Asked, HoldsRights
  <2>3. h.input.action \in Given => members[h.input.to].dep = h.dep
    BY <1>1 DEF Asked, HoldsPersons
  <2>4. h.input.action # "create" =>
          /\ Work!StatusAllows(workOrder, h.input.action)
          /\ h.input.action # "assign" => HoldsAssignee(h)
    BY <1>1 DEF Asked, HoldsOrder
  <2>5. HoldsAssignee(h) => Work!Responsible(workOrder)
                            /\ (h.who \in Administrators \/ h.who = workOrder.assignee)
    BY <1>1 DEF HoldsAssignee, Work!Responsible, Work!Member
  <2>6. workOrder.status = "completed" => h.input.action \in {"reopen", "note"}
    <3>1. h.input.action = "create" => workOrder.status = "none"
      BY <1>1 DEF Asked, InputRight, WInv, OrderTyped
    <3>2. h.input.action \in OrderOperations
      BY <1>1 DEF OrderInput
    <3> QED
      BY <2>4, <3>1, <3>2 DEF Work!StatusAllows, OrderOperations, Work!AllActions, Given
  <2>7. Work!Member(workOrder'.assignee)
    BY <1>5, <2>2, <2>4, <2>5 DEF Given, Work!Member, Work!Responsible
  <2>8. h.input.action \in Given => workOrder'.dep = members[workOrder'.assignee].dep
    BY <1>5, <2>3
  <2> QED
    BY <1>1, <1>2, <2>1, <2>2, <2>4, <2>5, <2>6, <2>7, <2>8 DEF Work!WorkedProperly, Given
<1> QED
  BY <1>6, <1>7, <1>8, <1>9

LEMMA OrderStep ==
    ASSUME Work!OrderConstants, WInv, NEW c \in Calls, Work!Commit(c)
    PROVE  WInv' /\ Work!WorkedProperly
<1> DEFINE h == asked[c]
<1>1. /\ h.pc = "commit" /\ asked' = [asked EXCEPT ![c] = Work!NoCall]
      /\ UNCHANGED <<members, rights, reviewed>>
  BY DEF Work!Commit
<1>2. Asked(h)
  BY <1>1 DEF WInv, CallsRight
<1>3. Work!NoCall.pc = "idle"
  BY DEF Work!NoCall
<1>4. CASE UNCHANGED <<workOrder, taken>>
  <2>1. Newer
    BY <1>1, <1>4 DEF Newer
  <2>2. CallsRight'
    BY <1>1, <1>3, <2>1, CallsStay
  <2> QED
    BY <1>1, <1>4, <2>1, <2>2, OrderRests DEF WInv, OrderTyped, Work!WorkedProperly
<1>5. CASE /\ Work!Earlier(h.who, h.input) = {} /\ Work!Unchanged(h)
           /\ workOrder' = Work!After(h)
           /\ taken' = taken \cup {[who |-> h.who, input |-> h.input]}
  <2>1. OrderTyped' /\ RequestsRight' /\ Work!TakenOnce' /\ Newer /\ Work!WorkedProperly
    BY <1>1, <1>2, <1>5, EntryStep
  <2>2. CallsRight'
    BY <1>1, <1>3, <2>1, CallsStay
  <2> QED
    BY <2>1, <2>2 DEF WInv
<1> QED
  BY <1>4, <1>5 DEF Work!Commit

LEMMA OrderKeeps ==
    ASSUME Work!OrderConstants, WInv, [Work!Next]_(Work!vars)
    PROVE  WInv' /\ Work!WorkedProperly
<1>1. ASSUME UNCHANGED workOrder PROVE Work!WorkedProperly
  BY <1>1 DEF Work!WorkedProperly
<1>2. CASE \E c \in Calls : Work!Begin(c)
  BY <1>1, <1>2, BeginStep
<1>3. CASE \E c \in Calls : Work!Commit(c)
  BY <1>3, OrderStep
<1>4. CASE (\E p \in Persons : Work!Move(p) \/ Work!Grant(p)) \/ Work!ChangeAlarm
  BY <1>1, <1>4, OthersSteps
<1>5. CASE UNCHANGED Work!vars
  <2>1. Newer
    BY <1>5 DEF Work!vars, Newer
  <2>2. CallsRight'
    BY <1>5, <2>1, CallsStay DEF Work!vars
  <2> QED
    BY <1>1, <1>5, <2>1, <2>2, OrderRests DEF Work!vars, WInv, OrderTyped
<1> QED
  BY <1>2, <1>3, <1>4, <1>5 DEF Work!Next

\* Who works on an order may do so as things stand when it is stored, and a
\* request takes effect once (ChangeWorkOrder, CreateWorkOrder, HandoverWorkOrder).
THEOREM WorkedAsThingsStand ==
    Work!OrderConstants
      => (Work!Spec => []Work!TakenOnce /\ [][Work!WorkedProperly]_(Work!vars))
<1> SUFFICES ASSUME Work!OrderConstants
             PROVE  Work!Spec => []Work!TakenOnce /\ [][Work!WorkedProperly]_(Work!vars)
  OBVIOUS
<1>1. Work!Init => WInv
  BY OrderInit
<1>2. WInv /\ [Work!Next]_(Work!vars) => WInv' /\ [Work!WorkedProperly]_(Work!vars)
  BY OrderKeeps
<1>3. WInv => Work!TakenOnce
  BY DEF WInv
<1> QED
  BY <1>1, <1>2, <1>3, PTL DEF Work!Spec

-----------------------------------------------------------------------------
(* Shadow candidates.  A consumer makes a run of what it has read of the    *)
(* candidate, and the version that it compares when it stores the run is    *)
(* enough for the number of the run to be new (HoldsCandidate); the input   *)
(* it looks for again.  Of a run, only its status says what may be done     *)
(* with it.                                                                 *)
RunFields == {"epoch", "gen", "input", "parent", "points", "status", "resolved", "first",
              "cursor", "final"}
IsRun(x) == x = [f \in RunFields |-> x[f]] /\ x.epoch \in Nat /\ x.gen \in Nat

CandidateTyped ==
    /\ candidate = [f \in {"status", "epoch", "version", "gen", "last", "count", "completed"} |->
                       candidate[f]]
    /\ candidate.epoch \in Nat /\ candidate.version \in Nat /\ candidate.gen \in Nat

RunRight(x) ==
    /\ IsRun(x) /\ x.epoch <= candidate.epoch
    /\ x.epoch = candidate.epoch => x.gen <= candidate.gen

HoldsCandidate(h) ==
    h.pc = "capture" =>
        /\ IsRun(h.run) /\ h.version \in Nat /\ h.version <= candidate.version
        /\ h.version = candidate.version => h.run.gen = candidate.gen + 1

ShadowInv ==
    /\ CandidateTyped
    /\ \E S : runs \in Seq(S)
    /\ \A r \in DOMAIN runs : RunRight(runs[r])
    /\ observer = [o \in Observers |-> observer[o]]
    /\ \A o \in Observers : HoldsCandidate(observer[o])
    /\ Shadows!OneRunEach

LEMMA ShadowInit ==
    ASSUME Shadows!Init
    PROVE  ShadowInv
<1>1. CandidateTyped
  BY DEF Shadows!Init, CandidateTyped
<1>2. runs \in Seq({}) /\ DOMAIN runs = {}
  BY DEF Shadows!Init
<1>3. observer = [o \in Observers |-> Shadows!NoObservation]
  BY DEF Shadows!Init
<1>4. \A o \in Observers : HoldsCandidate(observer[o])
  BY <1>3 DEF HoldsCandidate, Shadows!NoObservation
<1>5. Shadows!OneRunEach /\ \A r \in DOMAIN runs : RunRight(runs[r])
  BY <1>2 DEF Shadows!OneRunEach
<1> QED
  BY <1>1, <1>2, <1>3, <1>4, <1>5 DEF ShadowInv

\* The candidate gives way to a later version, and the runs have what no step
\* of a worker or an operator changes: what each is of, and its number.
SameRuns ==
    /\ \E S : runs' \in Seq(S)
    /\ DOMAIN runs' = DOMAIN runs
    /\ \A r \in DOMAIN runs : IsRun(runs'[r]) /\ runs'[r].epoch = runs[r].epoch
                              /\ runs'[r].gen = runs[r].gen /\ runs'[r].input = runs[r].input
NextCandidate ==
    /\ CandidateTyped'
    /\ candidate.version <= candidate'.version
    /\ candidate.epoch <= candidate'.epoch
    /\ candidate'.epoch = candidate.epoch => candidate.gen <= candidate'.gen
    /\ candidate'.version = candidate.version => candidate'.gen = candidate.gen

LEMMA ShadowGoesOn ==
    ASSUME ShadowInv, SameRuns, NextCandidate,
           observer' = [o \in Observers |-> observer'[o]],
           \A o \in Observers : observer'[o] = observer[o] \/ HoldsCandidate(observer[o])'
    PROVE  ShadowInv'
<1>1. (\A r \in DOMAIN runs : RunRight(runs[r]))'
  <2> SUFFICES ASSUME NEW r \in DOMAIN runs PROVE RunRight(runs[r])'
    BY DEF SameRuns
  <2>1. /\ IsRun(runs[r]) /\ runs[r].epoch <= candidate.epoch
        /\ runs[r].epoch = candidate.epoch => runs[r].gen <= candidate.gen
    BY DEF ShadowInv, RunRight
  <2>2. /\ IsRun(runs'[r]) /\ runs'[r].epoch = runs[r].epoch /\ runs'[r].gen = runs[r].gen
    BY DEF SameRuns
  <2>3. /\ runs[r].epoch \in Nat /\ runs[r].gen \in Nat
        /\ candidate.epoch \in Nat /\ candidate'.epoch \in Nat
        /\ candidate.gen \in Nat /\ candidate'.gen \in Nat
    BY <2>1 DEF IsRun, ShadowInv, NextCandidate, CandidateTyped
  <2>4. /\ runs'[r].epoch <= candidate'.epoch
        /\ runs'[r].epoch = candidate'.epoch => runs'[r].gen <= candidate'.gen
    BY <2>1, <2>2, <2>3 DEF NextCandidate
  <2> QED
    BY <2>2, <2>4 DEF RunRight
<1>2. (\A o \in Observers : HoldsCandidate(observer[o]))'
  <2> SUFFICES ASSUME NEW o \in Observers, observer'[o] = observer[o]
               PROVE  HoldsCandidate(observer[o])'
    OBVIOUS
  <2>1. HoldsCandidate(observer[o])
    BY DEF ShadowInv
  <2> QED
    BY <2>1 DEF ShadowInv, HoldsCandidate, NextCandidate, CandidateTyped
<1>3. Shadows!OneRunEach'
  BY DEF SameRuns, ShadowInv, Shadows!OneRunEach
<1> QED
  BY <1>1, <1>2, <1>3 DEF ShadowInv, SameRuns, NextCandidate

LEMMA SameRunsStay ==
    ASSUME ShadowInv, UNCHANGED runs
    PROVE  SameRuns
  BY DEF ShadowInv, SameRuns, RunRight

LEMMA RunChanges ==
    ASSUME ShadowInv, NEW r, NEW x, runs' = [runs EXCEPT ![r] = x],
           r \in DOMAIN runs => /\ IsRun(x) /\ x.epoch = runs[r].epoch
                                /\ x.gen = runs[r].gen /\ x.input = runs[r].input
    PROVE  SameRuns
<1>1. PICK S : runs \in Seq(S)
  BY DEF ShadowInv
<1>2. runs' \in Seq(S \cup {x})
  <2>1. runs \in Seq(S \cup {x}) /\ x \in S \cup {x}
    BY <1>1, SeqMonotonic
  <2>2. CASE r \in DOMAIN runs
    BY <2>1, <2>2, ExceptSeq, LenProperties
  <2>3. CASE r \notin DOMAIN runs
    BY <2>1, <2>3, LenProperties
  <2> QED
    BY <2>2, <2>3
<1> QED
  BY <1>2 DEF SameRuns, ShadowInv, RunRight

\* An observation that a consumer hands over.
LEMMA ObserveStep ==
    ASSUME ShadowInv, NEW o \in Observers, NEW i, Shadows!Observe(o, i)
    PROVE  ShadowInv'
<1>1. UNCHANGED <<candidate, runs>>
  BY DEF Shadows!Observe
<1>2. SameRuns /\ NextCandidate
  BY <1>1, SameRunsStay DEF NextCandidate, ShadowInv, CandidateTyped
<1>3. PICK h : /\ observer' = [observer EXCEPT ![o] = h]
               /\ h.version = candidate.version /\ h.run = Shadows!NewRun(i)
  <2> DEFINE h == [pc |-> "capture", version |-> candidate.version, run |-> Shadows!NewRun(i),
             count |-> IF Shadows!Correction(i) THEN Len(Shadows!NewRun(i).points)
                       ELSE candidate.count + 1,
             last |-> IF candidate.last = Shadows!NoInput \/ Shadows!Before(candidate.last, i)
                      THEN i ELSE candidate.last]
  <2>1. observer' = [observer EXCEPT ![o] = h]
    BY DEF Shadows!Observe
  <2>2. h.version = candidate.version /\ h.run = Shadows!NewRun(i)
    OBVIOUS
  <2> QED
    BY <2>1, <2>2
<1>4. IsRun(Shadows!NewRun(i)) /\ Shadows!NewRun(i).gen = candidate.gen + 1
  BY DEF Shadows!NewRun, IsRun, RunFields, ShadowInv, CandidateTyped
<1>5. HoldsCandidate(observer[o])'
  BY <1>1, <1>3, <1>4 DEF HoldsCandidate, ShadowInv, CandidateTyped
<1> QED
  BY <1>2, <1>3, <1>5, ShadowGoesOn DEF ShadowInv

LEMMA CandidateCounts ==
    ASSUME CandidateTyped, NEW count, NEW last,
           candidate' = [candidate EXCEPT !.gen = @ + 1, !.version = @ + 1, !.count = count,
                                          !.last = last]
    PROVE  /\ CandidateTyped' /\ candidate'.epoch = candidate.epoch
           /\ candidate'.gen = candidate.gen + 1 /\ candidate'.version = candidate.version + 1
<1>1. DOMAIN candidate = {"status", "epoch", "version", "gen", "last", "count", "completed"}
  BY DEF CandidateTyped
<1>2. candidate'.epoch = candidate.epoch
  BY <1>1
<1>3. candidate'.gen = candidate.gen + 1
  BY <1>1
<1>4. candidate'.version = candidate.version + 1
  BY <1>1
<1>5. candidate' = [f \in {"status", "epoch", "version", "gen", "last", "count", "completed"} |->
                       candidate'[f]]
  BY <1>1
<1> QED
  BY <1>2, <1>3, <1>4, <1>5 DEF CandidateTyped

LEMMA CandidateStops ==
    ASSUME CandidateTyped, NEW s,
           candidate' = [candidate EXCEPT !.status = s, !.version = @ + 1]
    PROVE  NextCandidate
<1>1. DOMAIN candidate = {"status", "epoch", "version", "gen", "last", "count", "completed"}
  BY DEF CandidateTyped
<1>2. /\ candidate'.epoch = candidate.epoch /\ candidate'.gen = candidate.gen
      /\ candidate'.version = candidate.version + 1
  BY <1>1
<1>3. candidate' = [f \in {"status", "epoch", "version", "gen", "last", "count", "completed"} |->
                       candidate'[f]]
  BY <1>1
<1> QED
  BY <1>2, <1>3 DEF CandidateTyped, NextCandidate

\* A run that is stored has the number after that of the run before.
LEMMA CaptureStep ==
    ASSUME ShadowInv, NEW o \in Observers, Shadows!Capture(o)
    PROVE  ShadowInv'
<1> DEFINE run == observer[o].run
<1>1. /\ observer[o].pc = "capture" /\ observer' = [observer EXCEPT ![o] = Shadows!NoObservation]
  BY DEF Shadows!Capture
<1>2. /\ observer' = [p \in Observers |-> observer'[p]]
      /\ \A p \in Observers : observer'[p] = observer[p] \/ HoldsCandidate(observer[p])'
  BY <1>1 DEF ShadowInv, HoldsCandidate, Shadows!NoObservation
<1>3. CASE UNCHANGED runs
  <2>1. \/ UNCHANGED candidate
        \/ candidate' = [candidate EXCEPT !.status = "budget_exceeded", !.version = @ + 1]
        \/ \E x : runs' = Append(runs, x)
    BY DEF Shadows!Capture
  <2>4. PICK S : runs \in Seq(S)
    BY DEF ShadowInv
  <2>5. ~\E x : runs' = Append(runs, x)
    <3> SUFFICES ASSUME NEW x, runs' = Append(runs, x) PROVE FALSE
      OBVIOUS
    <3>1. runs \in Seq(S \cup {x}) /\ x \in S \cup {x}
      BY <2>4, SeqMonotonic
    <3>2. Len(runs') = Len(runs) + 1 /\ Len(runs) \in Nat
      BY <3>1, AppendProperties, LenProperties
    <3> QED
      BY <1>3, <3>2
  <2>6. NextCandidate
    <3>1. CASE UNCHANGED candidate
      BY <3>1 DEF ShadowInv, NextCandidate, CandidateTyped
    <3> QED
      BY <2>1, <2>5, <3>1, CandidateStops DEF ShadowInv
  <2> QED
    BY <1>2, <1>3, <2>6, SameRunsStay, ShadowGoesOn
<1>4. CASE ~UNCHANGED runs
  <2>1. /\ candidate.epoch = run.epoch /\ observer[o].version = candidate.version
        /\ run.input \notin Shadows!Captured(runs, candidate.epoch)
        /\ runs' = Append(runs, run)
        /\ candidate' = [candidate EXCEPT !.gen = @ + 1, !.version = @ + 1,
                                          !.count = observer[o].count, !.last = observer[o].last]
    BY <1>4 DEF Shadows!Capture, Shadows!SameVersion
  <2>2. IsRun(run) /\ run.gen = candidate.gen + 1
    BY <1>1, <2>1 DEF ShadowInv, HoldsCandidate
  <2>3. /\ CandidateTyped' /\ candidate'.epoch = candidate.epoch
        /\ candidate'.gen = candidate.gen + 1 /\ candidate'.version = candidate.version + 1
    BY <2>1, CandidateCounts DEF ShadowInv
  <2>4. PICK S : runs \in Seq(S)
    BY DEF ShadowInv
  <2>5. runs \in Seq(S \cup {run}) /\ run \in S \cup {run}
    BY <2>4, SeqMonotonic
  <2>6. /\ runs' \in Seq(S \cup {run}) /\ Len(runs) \in Nat
        /\ DOMAIN runs = 1 .. Len(runs) /\ DOMAIN runs' = 1 .. Len(runs) + 1
        /\ \A r \in DOMAIN runs : runs'[r] = runs[r]
        /\ runs'[Len(runs) + 1] = run
    BY <2>1, <2>5, AppendProperties, LenProperties
  <2>7. (\A r \in DOMAIN runs : RunRight(runs[r]))'
    <3> SUFFICES ASSUME NEW r \in DOMAIN runs' PROVE RunRight(runs[r])'
      OBVIOUS
    <3>1. CASE r \in DOMAIN runs
      <4>1. RunRight(runs[r]) /\ runs'[r] = runs[r]
        BY <2>6, <3>1 DEF ShadowInv
      <4> QED
        BY <2>3, <4>1 DEF RunRight, IsRun, ShadowInv, CandidateTyped
    <3>2. CASE r = Len(runs) + 1
      BY <2>1, <2>2, <2>3, <2>6, <3>2 DEF RunRight, IsRun, ShadowInv, CandidateTyped
    <3> QED
      BY <2>6, <3>1, <3>2
  <2>8. (\A p \in Observers : HoldsCandidate(observer[p]))'
    <3> SUFFICES ASSUME NEW p \in Observers, observer'[p] = observer[p]
                 PROVE  HoldsCandidate(observer[p])'
      BY <1>2
    <3> QED
      BY <2>3 DEF ShadowInv, HoldsCandidate, CandidateTyped
  <2>9. Shadows!OneRunEach'
    <3> SUFFICES ASSUME NEW q \in DOMAIN runs', NEW r \in DOMAIN runs', q < r,
                        runs'[q].epoch = runs'[r].epoch
                 PROVE  runs'[q].gen < runs'[r].gen /\ runs'[q].input # runs'[r].input
      BY DEF Shadows!OneRunEach
    <3>1. CASE r \in DOMAIN runs
      <4>1. q \in DOMAIN runs /\ runs'[q] = runs[q] /\ runs'[r] = runs[r]
        BY <2>6, <3>1
      <4> QED
        BY <3>1, <4>1 DEF ShadowInv, Shadows!OneRunEach
    <3>2. CASE r = Len(runs) + 1
      <4>1. q \in DOMAIN runs /\ runs'[q] = runs[q] /\ runs'[r] = run
        BY <2>6, <3>2
      <4>2. runs[q].epoch = candidate.epoch /\ RunRight(runs[q])
        BY <2>1, <4>1 DEF ShadowInv
      <4>3. runs[q].gen \in Nat /\ runs[q].gen <= candidate.gen /\ candidate.gen \in Nat
        BY <4>2 DEF RunRight, IsRun, ShadowInv, CandidateTyped
      <4>4. runs[q].input \in Shadows!Captured(runs, candidate.epoch)
        BY <4>1, <4>2 DEF Shadows!Captured
      <4> QED
        BY <2>1, <2>2, <4>1, <4>3, <4>4
    <3> QED
      BY <2>6, <3>1, <3>2
  <2> QED
    BY <1>2, <2>3, <2>6, <2>7, <2>8, <2>9 DEF ShadowInv
<1> QED
  BY <1>3, <1>4

\* The worker and the operators change the status of a run, its cursor and its
\* results.
RunMoves(r, x) ==
    /\ r \in DOMAIN runs /\ runs' = [runs EXCEPT ![r] = x]
    /\ IsRun(x) /\ x.epoch = runs[r].epoch /\ x.gen = runs[r].gen /\ x.input = runs[r].input
    /\ runs[r].status # "completed"
    /\ runs[r].status = "cancelled" => x.cursor = runs[r].cursor

LEMMA OneRunChanges ==
    ASSUME ShadowInv, [Shadows!Next]_(Shadows!vars),
           \A o \in Observers : ~Shadows!Capture(o)
    PROVE  \/ UNCHANGED runs
           \/ \E r, x : RunMoves(r, x)
<1> SUFFICES ASSUME ~UNCHANGED runs
             PROVE  \E r, x : RunMoves(r, x)
  OBVIOUS
<1>0. runs = [r \in DOMAIN runs |-> runs[r]] /\ \A r \in DOMAIN runs : IsRun(runs[r])
  BY LenProperties DEF ShadowInv, RunRight
<1>1. ASSUME NEW r, NEW x, runs' = [runs EXCEPT ![r] = x]
      PROVE  r \in DOMAIN runs
  BY <1>0, <1>1
<1>2. ASSUME NEW r, NEW s, runs' = [runs EXCEPT ![r].status = s], runs[r].status # "completed"
      PROVE  \E x : RunMoves(r, x)
  <2> DEFINE x == [runs[r] EXCEPT !.status = s]
  <2>1. runs' = [runs EXCEPT ![r] = x]
    BY <1>2
  <2>2. r \in DOMAIN runs /\ IsRun(runs[r])
    BY <1>0, <1>1, <2>1
  <2>3. /\ IsRun(x) /\ x.epoch = runs[r].epoch /\ x.gen = runs[r].gen
        /\ x.input = runs[r].input /\ x.cursor = runs[r].cursor
    BY <2>2 DEF IsRun, RunFields
  <2>4. RunMoves(r, x)
    BY <1>2, <2>1, <2>2, <2>3 DEF RunMoves
  <2> QED
    BY <2>4
<1>3. CASE Shadows!BeginAnalysis
  <2> DEFINE r == analysis.run  run == runs[r]
  <2>1. run.status \notin {"cancelled", "completed"}
    BY <1>3 DEF Shadows!BeginAnalysis
  <2>2. CASE runs' = [runs EXCEPT ![r].status = "waiting_parent"]
    BY <1>2, <2>1, <2>2
  <2>3. CASE ~(runs' = [runs EXCEPT ![r].status = "waiting_parent"])
    <3> DEFINE x == [run EXCEPT !.status = "running", !.resolved = TRUE,
                         !.first = IF run.resolved THEN @ ELSE runs[run.parent].final]
    <3>1. runs' = [runs EXCEPT ![r] = x]
      BY <1>3, <2>1, <2>3 DEF Shadows!BeginAnalysis
    <3>2. r \in DOMAIN runs /\ IsRun(run)
      BY <1>0, <1>1, <3>1
    <3>3. IsRun(x) /\ x.epoch = run.epoch /\ x.gen = run.gen /\ x.input = run.input
      BY <3>2 DEF IsRun, RunFields
    <3>4. RunMoves(r, x)
      BY <2>1, <3>1, <3>2, <3>3 DEF RunMoves
    <3> QED
      BY <3>4
  <2> QED
    BY <2>2, <2>3
<1>4. CASE Shadows!CommitStep
  <2> DEFINE r == analysis.run  run == runs[r]
             x == [run EXCEPT !.cursor = @ + 1, !.final = Shadows!After(run),
                              !.status = IF run.cursor + 1 = Len(run.points) THEN "completed" ELSE @]
  <2>1. run.status = "running" /\ runs' = [runs EXCEPT ![r] = x]
    BY <1>4 DEF Shadows!CommitStep, Shadows!MayCommit
  <2>2. r \in DOMAIN runs /\ IsRun(run)
    BY <1>0, <1>1, <2>1
  <2>3. IsRun(x) /\ x.epoch = run.epoch /\ x.gen = run.gen /\ x.input = run.input
    BY <2>2 DEF IsRun, RunFields
  <2>4. RunMoves(r, x)
    BY <2>1, <2>2, <2>3 DEF RunMoves
  <2> QED
    BY <2>4
<1>5. CASE Shadows!FailAnalysis
  <2>1. /\ runs' = [runs EXCEPT ![analysis.run].status = "failed"]
        /\ runs[analysis.run].status # "completed"
    BY <1>5 DEF Shadows!FailAnalysis
  <2> QED
    BY <1>2, <2>1
<1>6. ASSUME NEW r \in DOMAIN runs, Shadows!CancelTask(r) \/ Shadows!RetryTask(r)
      PROVE  \E s : runs' = [runs EXCEPT ![r].status = s] /\ runs[r].status # "completed"
  BY <1>6 DEF Shadows!CancelTask, Shadows!RetryTask
<1> QED
  BY <1>2, <1>3, <1>4, <1>5, <1>6 DEF Shadows!Next, Shadows!vars, Shadows!Enable,
     Shadows!Disable, Shadows!Observe, Shadows!Finish, Shadows!Fail, Shadows!Crash, Shadows!Fetch

\* What the others leave of a candidate and of what consumers hand over.
LEMMA OthersStep ==
    ASSUME ShadowInv, [Shadows!Next]_(Shadows!vars),
           \A o \in Observers : ~Shadows!Capture(o) /\ \A i \in Shadows!Inputs : ~Shadows!Observe(o, i)
    PROVE  /\ NextCandidate
           /\ observer' = [o \in Observers |-> observer'[o]]
           /\ \A o \in Observers : observer'[o] = observer[o] \/ HoldsCandidate(observer[o])'
<1>1. observer' = observer \/ observer' = [o \in Observers |-> Shadows!NoObservation]
  BY DEF Shadows!Next, Shadows!vars, Shadows!Enable, Shadows!Disable, Shadows!BeginAnalysis,
     Shadows!CommitStep, Shadows!Finish, Shadows!Fail, Shadows!FailAnalysis, Shadows!Crash,
     Shadows!Fetch, Shadows!CancelTask, Shadows!RetryTask
<1>2. /\ observer' = [o \in Observers |-> observer'[o]]
      /\ \A o \in Observers : observer'[o] = observer[o] \/ HoldsCandidate(observer[o])'
  BY <1>1 DEF ShadowInv, HoldsCandidate, Shadows!NoObservation
<1>3. \/ UNCHANGED candidate
      \/ Shadows!Enable
      \/ candidate' = [candidate EXCEPT !.status = "stopped", !.version = @ + 1]
      \/ \E g : candidate' = [candidate EXCEPT !.completed = g, !.version = @ + 1]
  BY DEF Shadows!Next, Shadows!vars, Shadows!Disable, Shadows!BeginAnalysis,
     Shadows!CommitStep, Shadows!Finish, Shadows!Fail, Shadows!FailAnalysis, Shadows!Crash,
     Shadows!Fetch, Shadows!CancelTask, Shadows!RetryTask
<1>4. CandidateTyped
  BY DEF ShadowInv
<1>5. ASSUME UNCHANGED candidate PROVE NextCandidate
  BY <1>4, <1>5 DEF NextCandidate, CandidateTyped
<1>6. ASSUME Shadows!Enable PROVE NextCandidate
  <2>1. candidate' = [status |-> "active", epoch |-> candidate.epoch + 1,
                      version |-> candidate.version + 1, gen |-> 0, last |-> Shadows!NoInput,
                      count |-> 0, completed |-> 0]
    BY <1>6 DEF Shadows!Enable
  <2> QED
    BY <1>4, <2>1 DEF NextCandidate, CandidateTyped
<1>7. ASSUME NEW g, candidate' = [candidate EXCEPT !.completed = g, !.version = @ + 1]
      PROVE  NextCandidate
  <2>1. DOMAIN candidate = {"status", "epoch", "version", "gen", "last", "count", "completed"}
    BY <1>4 DEF CandidateTyped
  <2>2. /\ candidate'.epoch = candidate.epoch /\ candidate'.gen = candidate.gen
        /\ candidate'.version = candidate.version + 1
    BY <1>7, <2>1
  <2>3. candidate' = [f \in {"status", "epoch", "version", "gen", "last", "count", "completed"} |->
                         candidate'[f]]
    BY <1>7, <2>1
  <2> QED
    BY <1>4, <2>2, <2>3 DEF CandidateTyped, NextCandidate
<1> QED
  BY <1>2, <1>3, <1>4, <1>5, <1>6, <1>7, CandidateStops

LEMMA ShadowKeeps ==
    ASSUME ShadowInv, [Shadows!Next]_(Shadows!vars)
    PROVE  ShadowInv'
<1>1. CASE \E o \in Observers : Shadows!Capture(o) \/ \E i \in Shadows!Inputs : Shadows!Observe(o, i)
  BY <1>1, CaptureStep, ObserveStep
<1>2. CASE ~\E o \in Observers : Shadows!Capture(o) \/ \E i \in Shadows!Inputs : Shadows!Observe(o, i)
  <2>1. SameRuns
    BY <1>2, OneRunChanges, RunChanges, SameRunsStay DEF RunMoves
  <2> QED
    BY <1>2, <2>1, OthersStep, ShadowGoesOn
<1> QED
  BY <1>1, <1>2

LEMMA CancelledStay ==
    ASSUME ShadowInv, [Shadows!Next]_(Shadows!vars)
    PROVE  Shadows!CancelledStands
<1>1. CASE UNCHANGED runs
  BY <1>1 DEF Shadows!CancelledStands
<1>2. CASE \E o \in Observers : Shadows!Capture(o)
  <2>1. PICK o \in Observers : Shadows!Capture(o)
    BY <1>2
  <2>2. CASE runs' = Append(runs, observer[o].run)
    <3>1. PICK S : runs \in Seq(S)
      BY DEF ShadowInv
    <3>2. runs \in Seq(S \cup {observer[o].run}) /\ observer[o].run \in S \cup {observer[o].run}
      BY <3>1, SeqMonotonic
    <3>3. \A r \in DOMAIN runs : runs'[r] = runs[r]
      BY <2>2, <3>2, AppendProperties, LenProperties
    <3> QED
      BY <3>3 DEF Shadows!CancelledStands
  <2> QED
    BY <1>1, <2>1, <2>2 DEF Shadows!Capture
<1>3. CASE ~UNCHANGED runs /\ \A o \in Observers : ~Shadows!Capture(o)
  <2>1. PICK r, x : RunMoves(r, x)
    BY <1>3, OneRunChanges
  <2> QED
    BY <2>1 DEF RunMoves, Shadows!CancelledStands
<1> QED
  BY <1>1, <1>2, <1>3

\* No observation of an epoch is analysed by two runs, and their numbers go up
\* (CaptureShadow).
THEOREM ObservedOnce == Shadows!Spec => []Shadows!OneRunEach
<1>1. ShadowInv => Shadows!OneRunEach
  BY DEF ShadowInv
<1> QED
  BY <1>1, ShadowInit, ShadowKeeps, PTL DEF Shadows!Spec

\* A cancelled run takes no step until it is retried, and a completed one stays
\* as it is (CommitAnalysisStep, ChangeTask).
THEOREM CancelledRunsStand == Shadows!Spec => [][Shadows!CancelledStands]_(Shadows!vars)
<1>1. ShadowInv /\ [Shadows!Next]_(Shadows!vars) => [Shadows!CancelledStands]_(Shadows!vars)
  BY CancelledStay
<1> QED
  BY <1>1, ShadowInit, ShadowKeeps, PTL DEF Shadows!Spec

-----------------------------------------------------------------------------
(* Investigations of the assistant.  What is on record of one depends on    *)
(* how far its request is (CaseRight): while the request works the          *)
(* investigation runs, and what the model has answered to is delivered but  *)
(* for the moment between the answer and its record.  So a request that     *)
(* goes on after a lost answer finds an investigation that has ended.       *)
Piece == [delivery : {"prepared", "delivered"}, held : BOOLEAN, status : {"ok", "error"},
          of : SUBSET Resources]
Case == [status : Assistant!Statuses \cup {None}, cited : {None} \cup SUBSET Assistant!Citations,
         said : Assistant!Support]
ChatState == [at : Assistant!Places \cup {None}, round : Nat, pending : SUBSET Nat,
              cited : SUBSET Assistant!Citations, said : Assistant!Support, seen : Nat]

InquiryTyped ==
    /\ inquiry \in [Inquiries -> Case]
    /\ evidence \in [Inquiries -> Seq(Piece)]
    /\ chat \in [Inquiries -> ChatState]
    /\ granted \subseteq Resources /\ revision \in Nat
    /\ consumed \in [Inquiries -> SUBSET Nat]

\* The request works on the investigation.
Places == {"asking", "delivering", "answered", "calling", "completing"}

\* Each citation is of a result without error that the model had.
FoundedOn(i, cited) ==
    /\ cited \notin {None, {}}
    /\ \A c \in cited : c[1] = i /\ c[2] \in consumed[i] /\ evidence[i][c[2]].status = "ok"

ChatRight(i) ==
    LET at == chat[i].at IN
    /\ at = None <=> inquiry[i].status = None
    /\ at = None => evidence[i] = <<>> /\ consumed[i] = {}
    /\ at \in Places => /\ inquiry[i].status = "running"
                        /\ chat[i].pending = DOMAIN evidence[i] \ Assistant!Delivery(i)
    /\ at \in Places \ {"delivering"} => consumed[i] = Assistant!Delivery(i)
    /\ at = "delivering" => consumed[i] = DOMAIN evidence[i]
    /\ at = "completing" /\ chat[i].said = "supported" => FoundedOn(i, chat[i].cited)

CaseRight(i) ==
    /\ Assistant!Delivery(i) \subseteq consumed[i] /\ consumed[i] \subseteq DOMAIN evidence[i]
    /\ inquiry[i].status = "completed" =>
          /\ consumed[i] = Assistant!Delivery(i)
          /\ inquiry[i].said = "supported" => FoundedOn(i, inquiry[i].cited)
    /\ inquiry[i].status = "deleted" => \A n \in DOMAIN evidence[i] : ~evidence[i][n].held

ReadRight ==
    reading # None =>
        /\ reading = [f \in {"of", "value", "held", "shown"} |-> reading[f]]
        /\ reading.of \in Inquiries
        /\ reading.shown # None /\ reading.shown.support = "supported"
               => FoundedOn(reading.of, reading.value.cited)

InquiryInv ==
    /\ InquiryTyped
    /\ \A i \in Inquiries : ChatRight(i) /\ CaseRight(i)
    /\ ReadRight

-----------------------------------------------------------------------------
LEMMA InquiryInit ==
    ASSUME Assistant!InvestigationConstants, Assistant!Init
    PROVE  InquiryInv
<1>1. Assistant!NoInquiry \in Case /\ Assistant!NoInquiry.status = None
  BY DEF Assistant!NoInquiry, Case, Assistant!Support
<1>2. Assistant!NoChat \in ChatState /\ Assistant!NoChat.at = None
  BY DEF Assistant!NoChat, ChatState, Assistant!Support
<1>3. InquiryTyped
  BY <1>1, <1>2 DEF Assistant!Init, InquiryTyped
<1>4. ASSUME NEW i \in Inquiries PROVE ChatRight(i) /\ CaseRight(i)
  <2>1. /\ inquiry[i] = Assistant!NoInquiry /\ evidence[i] = <<>>
        /\ chat[i] = Assistant!NoChat /\ consumed[i] = {}
    BY DEF Assistant!Init
  <2>2. Assistant!Delivery(i) = {} /\ DOMAIN evidence[i] = {}
    BY <2>1 DEF Assistant!Delivery
  <2>3. None \notin Assistant!Statuses \cup Assistant!Places
    BY DEF Assistant!InvestigationConstants
  <2> QED
    BY <1>1, <1>2, <2>1, <2>2, <2>3 DEF ChatRight, CaseRight, Places, Assistant!Places,
       Assistant!Statuses, Assistant!Ended
<1>5. ReadRight
  BY DEF Assistant!Init, ReadRight
<1> QED
  BY <1>3, <1>4, <1>5 DEF InquiryInv

\* What is known of an investigation stays known.
Grows(i) ==
    /\ consumed[i] \subseteq consumed'[i]
    /\ DOMAIN evidence[i] \subseteq DOMAIN evidence'[i]
    /\ \A n \in DOMAIN evidence[i] : evidence'[i][n].status = evidence[i][n].status

LEMMA FoundedStays ==
    ASSUME NEW i \in Inquiries, NEW cited, InquiryInv, Grows(i), FoundedOn(i, cited)
    PROVE  FoundedOn(i, cited)'
  BY DEF InquiryInv, CaseRight, Grows, FoundedOn

Same(i) ==
    /\ inquiry'[i] = inquiry[i] /\ evidence'[i] = evidence[i]
    /\ chat'[i] = chat[i] /\ consumed'[i] = consumed[i]

LEMMA SameRight ==
    ASSUME NEW i \in Inquiries, InquiryInv, Same(i)
    PROVE  ChatRight(i)' /\ CaseRight(i)' /\ Grows(i)
<1>1. Assistant!Delivery(i)' = Assistant!Delivery(i)
  BY DEF Assistant!Delivery, Same
<1>2. \A cited : FoundedOn(i, cited)' <=> FoundedOn(i, cited)
  BY DEF FoundedOn, Same
<1>3. ChatRight(i)'
  BY <1>1, <1>2 DEF InquiryInv, ChatRight, Same
<1>4. CaseRight(i)'
  BY <1>1, <1>2 DEF InquiryInv, CaseRight, Same
<1> QED
  BY <1>3, <1>4 DEF Grows, Same

\* One investigation moves, and the reader waits.
LEMMA OneCaseMoves ==
    ASSUME NEW i \in Inquiries, InquiryInv, InquiryTyped', ChatRight(i)', CaseRight(i)', Grows(i),
           \A j \in Inquiries \ {i} : Same(j), UNCHANGED reading
    PROVE  InquiryInv'
<1>1. \A j \in Inquiries : (ChatRight(j) /\ CaseRight(j))' /\ Grows(j)
  BY SameRight
<1>2. ReadRight'
  BY <1>1, FoundedStays DEF InquiryInv, ReadRight
<1> QED
  BY <1>1, <1>2 DEF InquiryInv

\* A support that is not merely called so.
LEMMA SupportedIsFounded ==
    ASSUME NEW i \in Inquiries, NEW cited, InquiryInv,
           Assistant!References(i, cited) = "supported"
    PROVE  /\ cited # {}
           /\ \A c \in cited : /\ c[1] = i /\ c[2] \in consumed[i]
                               /\ evidence[i][c[2]].status = "ok"
<1>1. cited # {} /\ \A c \in cited : Assistant!Reference(i, c) = "valid"
  BY DEF Assistant!References
<1>2. ASSUME NEW c \in cited
      PROVE  c[1] = i /\ c[2] \in consumed[i] /\ evidence[i][c[2]].status = "ok"
  <2>1. Assistant!Reference(i, c) = "valid"
    BY <1>1
  <2>2. /\ c[1] = i /\ c[2] \in DOMAIN evidence[i]
        /\ Assistant!EvidenceState(evidence[i][c[2]], i) = "valid"
    BY <2>1 DEF Assistant!Reference
  <2>3. evidence[i][c[2]] \in Piece
    BY <2>2, LenProperties, ElementOfSeq DEF InquiryInv, InquiryTyped
  <2>4. evidence[i][c[2]].delivery = "delivered" /\ evidence[i][c[2]].status = "ok"
    BY <2>2, <2>3 DEF Assistant!EvidenceState, Piece
  <2> QED
    BY <2>2, <2>4 DEF InquiryInv, CaseRight, Assistant!Delivery
<1> QED
  BY <1>1, <1>2
-----------------------------------------------------------------------------
(* The steps of the request.                                                *)
LEMMA ChatMoves ==
    ASSUME InquiryInv, NEW i \in Inquiries, NEW n \in ChatState, chat' = [chat EXCEPT ![i] = n]
    PROVE  /\ chat' \in [Inquiries -> ChatState] /\ chat'[i] = n
           /\ \A j \in Inquiries \ {i} : chat'[j] = chat[j]
  BY DEF InquiryInv, InquiryTyped

\* The request goes on, and nothing else is written.
LEMMA OnlyChatMoves ==
    ASSUME InquiryInv, NEW i \in Inquiries, NEW n \in ChatState, chat' = [chat EXCEPT ![i] = n],
           UNCHANGED <<inquiry, evidence, consumed, granted, revision, reading>>,
           ChatRight(i)'
    PROVE  InquiryInv'
<1>1. /\ chat' \in [Inquiries -> ChatState]
      /\ \A j \in Inquiries \ {i} : chat'[j] = chat[j]
  BY ChatMoves
<1>2. InquiryTyped'
  BY <1>1 DEF InquiryInv, InquiryTyped
<1>3. CaseRight(i)' /\ Grows(i)
  BY DEF InquiryInv, CaseRight, Grows, Assistant!Delivery, FoundedOn
<1>4. \A j \in Inquiries \ {i} : Same(j)
  BY <1>1 DEF Same
<1> QED
  BY <1>2, <1>3, <1>4, OneCaseMoves

\* Where a request moves when it has ended, by itself or by its last answer.
LEMMA OverRight ==
    ASSUME InquiryInv, NEW i \in Inquiries, Assistant!InvestigationConstants,
           chat'[i].at \in {"broken", "finished", "over"}, inquiry'[i].status # None
    PROVE  ChatRight(i)'
  BY DEF Assistant!InvestigationConstants, ChatRight, Places, Assistant!Places

LEMMA BeginInquiry ==
    ASSUME Assistant!InvestigationConstants, InquiryInv, NEW i \in Inquiries, Assistant!Begin(i)
    PROVE  InquiryInv'
<1> DEFINE v == [inquiry[i] EXCEPT !.status = "running"]
<1>1. /\ inquiry[i].status = None /\ inquiry' = [inquiry EXCEPT ![i] = v]
      /\ chat' = [chat EXCEPT ![i] = Assistant!Asked]
      /\ UNCHANGED <<evidence, granted, revision, reading, consumed>>
  BY DEF Assistant!Begin, Assistant!PutInvestigation
<1>2. inquiry[i] \in Case /\ chat[i].at = None
  BY <1>1 DEF InquiryInv, InquiryTyped, ChatRight
<1>3. v \in Case /\ v.status = "running"
  BY <1>2 DEF Case, Assistant!Statuses
<1>4. /\ Assistant!Asked \in ChatState /\ Assistant!Asked.at = "asking"
      /\ Assistant!Asked.pending = {}
  BY DEF Assistant!Asked, Assistant!NoChat, ChatState, Assistant!Places, Assistant!Support
<1>5. InquiryTyped' /\ inquiry'[i] = v /\ chat'[i] = Assistant!Asked
  <2> HIDE DEF v
  <2> QED
    BY <1>1, <1>3, <1>4 DEF InquiryInv, InquiryTyped
<1>6. evidence[i] = <<>> /\ consumed[i] = {}
  BY <1>2 DEF InquiryInv, ChatRight
<1>7. evidence'[i] = <<>> /\ consumed'[i] = {} /\ Assistant!Delivery(i)' = {}
  BY <1>1, <1>6 DEF Assistant!Delivery
<1>8. None \notin Assistant!Statuses \cup Assistant!Places
  BY DEF Assistant!InvestigationConstants
<1>9. inquiry'[i].status = "running" /\ chat'[i].at = "asking" /\ chat'[i].pending = {}
  BY <1>3, <1>4, <1>5
<1>10. ChatRight(i)'
  BY <1>7, <1>8, <1>9 DEF ChatRight, Places, Assistant!Places, Assistant!Statuses
<1>11. CaseRight(i)'
  BY <1>7, <1>9 DEF CaseRight
<1>12. Grows(i) /\ \A j \in Inquiries \ {i} : Same(j)
  BY <1>1 DEF Grows, Same, InquiryInv, InquiryTyped
<1> QED
  BY <1>1, <1>5, <1>10, <1>11, <1>12, OneCaseMoves

LEMMA AnsweredStep ==
    ASSUME Assistant!InvestigationConstants, InquiryInv, NEW i \in Inquiries,
           Assistant!ModelCompletion(i)
    PROVE  InquiryInv'
<1> DEFINE n == [chat[i] EXCEPT !.at = "delivering"]
<1>1. /\ chat[i].at = "asking" /\ chat' = [chat EXCEPT ![i] = n]
      /\ consumed' = [consumed EXCEPT ![i] = DOMAIN evidence[i]]
      /\ UNCHANGED <<inquiry, evidence, granted, revision, reading>>
  BY DEF Assistant!ModelCompletion, Assistant!Move
<1>2. /\ inquiry[i].status = "running"
      /\ chat[i].pending = DOMAIN evidence[i] \ Assistant!Delivery(i)
      /\ Assistant!Delivery(i) \subseteq consumed[i] /\ consumed[i] \subseteq DOMAIN evidence[i]
  BY <1>1 DEF InquiryInv, ChatRight, CaseRight, Places
<1>3. n \in ChatState /\ n.at = "delivering" /\ n.pending = chat[i].pending
  <2>1. chat[i] \in ChatState
    BY DEF InquiryInv, InquiryTyped
  <2> QED
    BY <2>1 DEF ChatState, Assistant!Places
<1>4. DOMAIN evidence[i] \subseteq Nat
  BY LenProperties DEF InquiryInv, InquiryTyped
<1>5. /\ InquiryTyped' /\ chat'[i] = n /\ consumed'[i] = DOMAIN evidence[i]
      /\ evidence'[i] = evidence[i] /\ inquiry'[i] = inquiry[i]
      /\ Assistant!Delivery(i)' = Assistant!Delivery(i)
  <2> HIDE DEF n
  <2> QED
    BY <1>1, <1>3, <1>4 DEF InquiryInv, InquiryTyped, Assistant!Delivery
<1>6. None \notin Assistant!Statuses \cup Assistant!Places
  BY DEF Assistant!InvestigationConstants
<1>7. ChatRight(i)'
  BY <1>2, <1>3, <1>5, <1>6 DEF ChatRight, Places, Assistant!Places, Assistant!Statuses
<1>8. CaseRight(i)'
  BY <1>2, <1>5 DEF CaseRight
<1>9. Grows(i) /\ \A j \in Inquiries \ {i} : Same(j)
  BY <1>1, <1>2, <1>5 DEF Grows, Same, InquiryInv, InquiryTyped
<1> QED
  BY <1>1, <1>5, <1>7, <1>8, <1>9, OneCaseMoves

LEMMA DeliveredStep ==
    ASSUME Assistant!InvestigationConstants, InquiryInv, NEW i \in Inquiries,
           Assistant!Delivered(i)
    PROVE  InquiryInv'
<1> DEFINE k == DOMAIN evidence[i]
           w == [n \in k |-> IF n \in chat[i].pending
                             THEN [evidence[i][n] EXCEPT !.delivery = "delivered"]
                             ELSE evidence[i][n]]
<1>1. /\ chat[i].at = "delivering"
      /\ chat[i].pending = {} => UNCHANGED evidence
      /\ chat[i].pending # {} => evidence' = [evidence EXCEPT ![i] = w]
      /\ UNCHANGED <<inquiry, granted, revision, reading, consumed>>
  BY DEF Assistant!Delivered, Assistant!PutEvidence
<1>2. PICK at \in {"answered", "broken"} :
          chat' = [chat EXCEPT ![i] = [chat[i] EXCEPT !.at = at, !.pending = {}]]
  BY DEF Assistant!Delivered
<1> DEFINE n == [chat[i] EXCEPT !.at = at, !.pending = {}]
<1>3. n \in ChatState /\ n.at = at /\ n.pending = {}
  <2>1. chat[i] \in ChatState
    BY DEF InquiryInv, InquiryTyped
  <2> QED
    BY <2>1 DEF ChatState, Assistant!Places
<1>4. /\ inquiry[i].status = "running" /\ consumed[i] = k
      /\ chat[i].pending = k \ Assistant!Delivery(i)
  BY <1>1 DEF InquiryInv, ChatRight, Places
<1>5. /\ evidence[i] \in Seq(Piece) /\ k = 1 .. Len(evidence[i]) /\ Len(evidence[i]) \in Nat
      /\ \A m \in k : evidence[i][m] \in Piece
  BY LenProperties, ElementOfSeq DEF InquiryInv, InquiryTyped
<1>6. /\ w \in Seq(Piece) /\ DOMAIN w = k
      /\ \A m \in k : /\ w[m].delivery = "delivered" /\ w[m].status = evidence[i][m].status
  <2>1. ASSUME NEW m \in k
        PROVE  /\ w[m] \in Piece
               /\ w[m].delivery = "delivered" /\ w[m].status = evidence[i][m].status
    <3>1. evidence[i][m] \in Piece
      BY <1>5
    <3>2. CASE m \in chat[i].pending
      BY <3>1, <3>2 DEF Piece
    <3>3. CASE m \notin chat[i].pending
      <4>1. evidence[i][m].delivery = "delivered"
        BY <1>4, <3>3 DEF Assistant!Delivery
      <4> QED
        BY <3>1, <3>3, <4>1
    <3> QED
      BY <3>2, <3>3
  <2>2. w \in [1 .. Len(evidence[i]) -> Piece]
    BY <1>5, <2>1
  <2>3. w \in Seq(Piece)
    BY <1>5, <2>2, SeqDef
  <2> QED
    BY <2>1, <2>3
<1>7. /\ evidence' \in [Inquiries -> Seq(Piece)] /\ DOMAIN evidence'[i] = k
      /\ \A m \in k : /\ evidence'[i][m].delivery = "delivered"
                      /\ evidence'[i][m].status = evidence[i][m].status
      /\ \A j \in Inquiries \ {i} : evidence'[j] = evidence[j]
  <2>1. CASE chat[i].pending = {}
    BY <1>1, <1>4, <2>1 DEF InquiryInv, InquiryTyped, Assistant!Delivery
  <2>2. CASE chat[i].pending # {}
    <3> HIDE DEF w
    <3> QED
      BY <1>1, <1>6, <2>2 DEF InquiryInv, InquiryTyped
  <2> QED
    BY <2>1, <2>2
<1>8. /\ InquiryTyped' /\ chat'[i] = n /\ \A j \in Inquiries \ {i} : chat'[j] = chat[j]
  <2>1. chat' = [chat EXCEPT ![i] = n]
    BY <1>2
  <2> HIDE DEF n, w, k
  <2> QED
    BY <1>1, <2>1, <1>3, <1>7 DEF InquiryInv, InquiryTyped
<1>9. Assistant!Delivery(i)' = k /\ consumed'[i] = k /\ inquiry'[i].status = "running"
  BY <1>1, <1>4, <1>7 DEF Assistant!Delivery
<1>10. ChatRight(i)'
  <2>1. None \notin Assistant!Statuses \cup Assistant!Places
    BY DEF Assistant!InvestigationConstants
  <2>2. chat'[i].at = at /\ chat'[i].pending = {} /\ DOMAIN evidence'[i] = k
    BY <1>3, <1>7, <1>8
  <2> HIDE DEF n, w, k
  <2> QED
    BY <1>9, <2>1, <2>2 DEF ChatRight, Places, Assistant!Places, Assistant!Statuses
<1>11. CaseRight(i)'
  <2> HIDE DEF n, w, k
  <2> QED
    BY <1>7, <1>9 DEF CaseRight
<1>12. Grows(i) /\ \A j \in Inquiries \ {i} : Same(j)
  BY <1>1, <1>7, <1>8 DEF Grows, Same
<1> QED
  BY <1>1, <1>8, <1>10, <1>11, <1>12, OneCaseMoves

LEMMA RecordStep ==
    ASSUME Assistant!InvestigationConstants, InquiryInv, NEW i \in Inquiries, Assistant!Record(i)
    PROVE  InquiryInv'
<1> DEFINE l == Len(evidence[i]) + 1
<1>1. /\ chat[i].at \in {"answered", "calling"} /\ inquiry[i].status = "running"
      /\ UNCHANGED <<inquiry, granted, revision, reading, consumed>>
  BY DEF Assistant!Record
<1>2. PICK e \in Assistant!PreparedEvidence :
          evidence' = [evidence EXCEPT ![i] = Append(evidence[i], e)]
  BY DEF Assistant!Record, Assistant!PutEvidence
<1>3. PICK at \in {"calling", "broken"} :
          chat' = [chat EXCEPT ![i] = [chat[i] EXCEPT !.at = at, !.pending = @ \cup {l}]]
  BY DEF Assistant!Record
<1> DEFINE n == [chat[i] EXCEPT !.at = at, !.pending = @ \cup {l}]
<1>4. e \in Piece /\ e.delivery = "prepared"
  <2>1. CASE \E of \in Assistant!Captured :
                 e = [delivery |-> "prepared", held |-> TRUE, status |-> "ok", of |-> of]
    <3>1. PICK of \in Assistant!Captured :
              e = [delivery |-> "prepared", held |-> TRUE, status |-> "ok", of |-> of]
      BY <2>1
    <3>2. of \in SUBSET Resources
      BY DEF Assistant!Captured, InquiryInv, InquiryTyped
    <3> QED
      BY <3>1, <3>2 DEF Piece
  <2>2. CASE e = [delivery |-> "prepared", held |-> TRUE, status |-> "error", of |-> {}]
    BY <2>2 DEF Piece
  <2> QED
    BY <2>1, <2>2 DEF Assistant!PreparedEvidence
<1>5. evidence[i] \in Seq(Piece) /\ Len(evidence[i]) \in Nat /\ DOMAIN evidence[i] = 1 .. l - 1
  BY LenProperties DEF InquiryInv, InquiryTyped
<1>6. /\ evidence'[i] \in Seq(Piece) /\ DOMAIN evidence'[i] = 1 .. l
      /\ \A m \in DOMAIN evidence[i] : evidence'[i][m] = evidence[i][m]
      /\ evidence'[i][l] = e
      /\ \A j \in Inquiries \ {i} : evidence'[j] = evidence[j]
      /\ evidence' \in [Inquiries -> Seq(Piece)]
  <2>1. /\ Append(evidence[i], e) \in Seq(Piece) /\ DOMAIN Append(evidence[i], e) = 1 .. l
        /\ \A m \in DOMAIN evidence[i] : Append(evidence[i], e)[m] = evidence[i][m]
        /\ Append(evidence[i], e)[l] = e
    BY <1>4, <1>5, AppendProperties, LenProperties
  <2> QED
    BY <1>2, <2>1 DEF InquiryInv, InquiryTyped
<1>7. n \in ChatState /\ n.at = at /\ n.pending = chat[i].pending \cup {l}
  <2>1. chat[i] \in ChatState /\ l \in Nat
    BY <1>5 DEF InquiryInv, InquiryTyped
  <2> QED
    BY <2>1 DEF ChatState, Assistant!Places
<1>8. /\ InquiryTyped' /\ chat'[i] = n /\ \A j \in Inquiries \ {i} : chat'[j] = chat[j]
  <2>1. chat' = [chat EXCEPT ![i] = n]
    BY <1>3
  <2> HIDE DEF n
  <2> QED
    BY <1>1, <1>6, <1>7, <2>1 DEF InquiryInv, InquiryTyped
<1>9. /\ consumed[i] = Assistant!Delivery(i)
      /\ chat[i].pending = DOMAIN evidence[i] \ Assistant!Delivery(i)
      /\ consumed[i] \subseteq DOMAIN evidence[i]
  BY <1>1 DEF InquiryInv, ChatRight, CaseRight, Places
<1>10. Assistant!Delivery(i)' = Assistant!Delivery(i)
  BY <1>4, <1>5, <1>6 DEF Assistant!Delivery
<1>11. l \notin Assistant!Delivery(i) /\ DOMAIN evidence'[i] = DOMAIN evidence[i] \cup {l}
  BY <1>5, <1>6 DEF Assistant!Delivery
<1>12. /\ chat'[i].at = at /\ consumed'[i] = consumed[i] /\ inquiry'[i].status = "running"
       /\ chat'[i].pending = DOMAIN evidence'[i] \ Assistant!Delivery(i)'
  BY <1>1, <1>7, <1>8, <1>9, <1>10, <1>11
<1>13. ChatRight(i)'
  <2>1. None \notin Assistant!Statuses \cup Assistant!Places
    BY DEF Assistant!InvestigationConstants
  <2> HIDE DEF n, l
  <2> QED
    BY <1>9, <1>10, <1>12, <2>1 DEF ChatRight, Places, Assistant!Places, Assistant!Statuses
<1>14. CaseRight(i)'
  <2> HIDE DEF n, l
  <2> QED
    BY <1>9, <1>10, <1>11, <1>12 DEF CaseRight
<1>15. Grows(i) /\ \A j \in Inquiries \ {i} : Same(j)
  BY <1>1, <1>6, <1>8, <1>11 DEF Grows, Same
<1> QED
  BY <1>1, <1>8, <1>13, <1>14, <1>15, OneCaseMoves

LEMMA RoundStep ==
    ASSUME Assistant!InvestigationConstants, InquiryInv, NEW i \in Inquiries,
           Assistant!NextRound(i)
    PROVE  InquiryInv'
<1>1. /\ chat[i].at = "calling" /\ chat[i] \in ChatState
      /\ UNCHANGED <<inquiry, evidence, consumed, granted, revision, reading>>
  BY DEF Assistant!NextRound, InquiryInv, InquiryTyped
<1>2. /\ inquiry[i].status = "running" /\ consumed[i] = Assistant!Delivery(i)
      /\ chat[i].pending = DOMAIN evidence[i] \ Assistant!Delivery(i)
  BY <1>1 DEF InquiryInv, ChatRight, Places
<1>3. PICK n : /\ chat' = [chat EXCEPT ![i] = n] /\ n \in ChatState
               /\ n.at \in {"asking", "broken"} /\ n.pending = chat[i].pending
  <2>1. CASE chat[i].round < MaxRounds
    <3> DEFINE n == [chat[i] EXCEPT !.at = "asking", !.round = @ + 1]
    <3>1. chat' = [chat EXCEPT ![i] = n]
      BY <2>1 DEF Assistant!NextRound
    <3>2. chat[i].round + 1 \in Nat
      BY <1>1 DEF ChatState
    <3>3. n \in ChatState /\ n.at = "asking" /\ n.pending = chat[i].pending
      BY <1>1, <3>2 DEF ChatState, Assistant!Places
    <3> QED
      BY <3>1, <3>3
  <2>2. CASE ~(chat[i].round < MaxRounds)
    <3> DEFINE n == [chat[i] EXCEPT !.at = "broken"]
    <3>1. chat' = [chat EXCEPT ![i] = n]
      BY <2>2 DEF Assistant!NextRound, Assistant!Move
    <3>2. n \in ChatState /\ n.at = "broken" /\ n.pending = chat[i].pending
      BY <1>1 DEF ChatState, Assistant!Places
    <3> QED
      BY <3>1, <3>2
  <2> QED
    BY <2>1, <2>2
<1>4. chat'[i] = n
  BY <1>3, ChatMoves
<1>5. ChatRight(i)'
  <2>1. Assistant!Delivery(i)' = Assistant!Delivery(i)
    BY <1>1 DEF Assistant!Delivery
  <2>2. None \notin Assistant!Statuses \cup Assistant!Places
    BY DEF Assistant!InvestigationConstants
  <2> QED
    BY <1>1, <1>2, <1>3, <1>4, <2>1, <2>2
       DEF ChatRight, Places, Assistant!Places, Assistant!Statuses
<1> QED
  BY <1>1, <1>3, <1>5, OnlyChatMoves

LEMMA ConcludeStep ==
    ASSUME Assistant!InvestigationConstants, InquiryInv, NEW i \in Inquiries,
           Assistant!Conclude(i)
    PROVE  InquiryInv'
<1>1. /\ chat[i].at = "answered" /\ chat[i] \in ChatState
      /\ UNCHANGED <<inquiry, evidence, consumed, granted, revision, reading>>
      /\ revision \in Nat
  BY DEF Assistant!Conclude, InquiryInv, InquiryTyped
<1>2. /\ inquiry[i].status = "running" /\ consumed[i] = Assistant!Delivery(i)
      /\ chat[i].pending = DOMAIN evidence[i] \ Assistant!Delivery(i)
  BY <1>1 DEF InquiryInv, ChatRight, Places
<1>3. PICK cited \in SUBSET Assistant!Citations :
          chat' = [chat EXCEPT ![i] = [chat[i] EXCEPT !.at = "completing", !.cited = cited,
                        !.said = Assistant!References(i, cited), !.seen = revision]]
  BY DEF Assistant!Conclude
<1> DEFINE said == Assistant!References(i, cited)
           n == [chat[i] EXCEPT !.at = "completing", !.cited = cited, !.said = said,
                                !.seen = revision]
<1>4. said \in Assistant!Support
  BY DEF Assistant!References, Assistant!Support
<1>5. /\ n \in ChatState /\ n.at = "completing" /\ n.cited = cited /\ n.said = said
      /\ n.pending = chat[i].pending
  <2> HIDE DEF said
  <2> QED
    BY <1>1, <1>4 DEF ChatState, Assistant!Places
<1>6. chat' = [chat EXCEPT ![i] = n]
  BY <1>3
<1>7. said = "supported" => FoundedOn(i, cited)
  <2>1. cited # None
    BY DEF Assistant!InvestigationConstants
  <2> QED
    BY <2>1, SupportedIsFounded DEF FoundedOn
<1>8. chat'[i] = n
  BY <1>5, <1>6, ChatMoves
<1>9. ChatRight(i)'
  <2>1. Assistant!Delivery(i)' = Assistant!Delivery(i)
    BY <1>1 DEF Assistant!Delivery
  <2>2. None \notin Assistant!Statuses \cup Assistant!Places
    BY DEF Assistant!InvestigationConstants
  <2>3. said = "supported" => FoundedOn(i, cited)'
    BY <1>1, <1>7 DEF FoundedOn
  <2> HIDE DEF said, n
  <2> QED
    BY <1>1, <1>2, <1>5, <1>8, <2>1, <2>2, <2>3
       DEF ChatRight, Places, Assistant!Places, Assistant!Statuses
<1> QED
  <2> HIDE DEF n
  <2> QED
    BY <1>1, <1>5, <1>6, <1>9, OnlyChatMoves

\* The request is over, or about to end.
LEMMA EndsStep ==
    ASSUME Assistant!InvestigationConstants, InquiryInv, NEW i \in Inquiries,
           Assistant!Break(i) \/ Assistant!Finish(i)
    PROVE  InquiryInv'
<1>1. /\ chat[i].at \in Assistant!Places
      /\ UNCHANGED <<inquiry, evidence, consumed, granted, revision, reading>>
  BY DEF Assistant!Break, Assistant!Finish, Assistant!Places
<1>2. inquiry[i].status # None
  BY <1>1 DEF InquiryInv, ChatRight, Assistant!InvestigationConstants
<1>3. chat[i] \in ChatState
  BY DEF InquiryInv, InquiryTyped
<1>4. PICK n : /\ chat' = [chat EXCEPT ![i] = n] /\ n \in ChatState
               /\ n.at \in {"over", "broken"}
  <2>1. CASE Assistant!Break(i)
    <3> DEFINE n == [chat[i] EXCEPT !.at = "broken"]
    <3>1. chat' = [chat EXCEPT ![i] = n]
      BY <2>1 DEF Assistant!Break, Assistant!Move
    <3>2. n \in ChatState /\ n.at = "broken"
      BY <1>3 DEF ChatState, Assistant!Places
    <3> QED
      BY <3>1, <3>2
  <2>2. CASE Assistant!Finish(i)
    <3> DEFINE n == [Assistant!NoChat EXCEPT !.at = "over"]
    <3>1. chat' = [chat EXCEPT ![i] = n]
      BY <2>2 DEF Assistant!Finish, Assistant!Stopped
    <3>2. n \in ChatState /\ n.at = "over"
      BY DEF ChatState, Assistant!Places, Assistant!NoChat, Assistant!Support
    <3> QED
      BY <3>1, <3>2
  <2> QED
    BY <2>1, <2>2
<1>5. chat'[i] = n
  BY <1>4, ChatMoves
<1>6. ChatRight(i)'
  BY <1>1, <1>2, <1>4, <1>5, OverRight
<1> QED
  BY <1>1, <1>4, <1>6, OnlyChatMoves

-----------------------------------------------------------------------------
(* How an investigation ends.                                               *)
LEMMA CompleteStep ==
    ASSUME Assistant!InvestigationConstants, InquiryInv, NEW i \in Inquiries,
           Assistant!Complete(i)
    PROVE  InquiryInv'
<1> DEFINE v == [status |-> "completed", cited |-> chat[i].cited, said |-> chat[i].said]
<1>1. /\ chat[i].at = "completing" /\ chat[i] \in ChatState
      /\ inquiry' = [inquiry EXCEPT ![i] = v]
      /\ UNCHANGED <<evidence, granted, revision, reading, consumed>>
  BY DEF Assistant!Complete, Assistant!PutInvestigation, InquiryInv, InquiryTyped
<1>2. PICK at \in {"finished", "broken"} : chat' = [chat EXCEPT ![i] = [chat[i] EXCEPT !.at = at]]
  BY DEF Assistant!Complete, Assistant!Move
<1> DEFINE n == [chat[i] EXCEPT !.at = at]
<1>3. n \in ChatState /\ n.at = at
  BY <1>1 DEF ChatState, Assistant!Places
<1>4. v \in Case /\ v.status = "completed" /\ v.cited = chat[i].cited /\ v.said = chat[i].said
  BY <1>1 DEF ChatState, Case, Assistant!Statuses, Assistant!Ended
<1>5. /\ InquiryTyped' /\ inquiry'[i] = v /\ chat'[i] = n
      /\ \A j \in Inquiries \ {i} : inquiry'[j] = inquiry[j] /\ chat'[j] = chat[j]
  <2>1. chat' = [chat EXCEPT ![i] = n]
    BY <1>2
  <2> HIDE DEF v, n
  <2> QED
    BY <1>1, <1>3, <1>4, <2>1 DEF InquiryInv, InquiryTyped
<1>6. /\ consumed[i] = Assistant!Delivery(i) /\ consumed[i] \subseteq DOMAIN evidence[i]
      /\ chat[i].said = "supported" => FoundedOn(i, chat[i].cited)
  BY <1>1 DEF InquiryInv, ChatRight, CaseRight, Places
<1>7. /\ inquiry'[i].status = "completed" /\ chat'[i].at = at
      /\ inquiry'[i].cited = chat[i].cited /\ inquiry'[i].said = chat[i].said
      /\ Assistant!Delivery(i)' = Assistant!Delivery(i)
  BY <1>1, <1>3, <1>4, <1>5 DEF Assistant!Delivery
<1> HIDE DEF v, n
<1>8. ChatRight(i)'
  <2>1. inquiry'[i].status # None
    BY <1>7 DEF Assistant!InvestigationConstants, Assistant!Statuses, Assistant!Ended
  <2> QED
    BY <1>7, <2>1, OverRight
<1>9. CaseRight(i)'
  BY <1>1, <1>6, <1>7 DEF CaseRight, FoundedOn
<1>10. Grows(i) /\ \A j \in Inquiries \ {i} : Same(j)
  BY <1>1, <1>5 DEF Grows, Same
<1> QED
  BY <1>1, <1>5, <1>8, <1>9, <1>10, OneCaseMoves

\* The request has stopped, and what it leaves is not an answer.
LEMMA FailStep ==
    ASSUME Assistant!InvestigationConstants, InquiryInv, NEW i \in Inquiries, Assistant!Fail(i)
    PROVE  InquiryInv'
<1> DEFINE n == [Assistant!NoChat EXCEPT !.at = "over"]
<1>1. /\ chat[i].at = "broken" /\ chat' = [chat EXCEPT ![i] = n]
      /\ UNCHANGED <<evidence, granted, revision, reading, consumed>>
  BY DEF Assistant!Fail, Assistant!Stopped
<1>2. n \in ChatState /\ n.at = "over"
  BY DEF ChatState, Assistant!Places, Assistant!NoChat, Assistant!Support
<1>3. inquiry[i].status # None /\ inquiry[i] \in Case
  BY <1>1 DEF InquiryInv, InquiryTyped, ChatRight, Assistant!InvestigationConstants,
     Assistant!Places
<1>4. PICK v : /\ v \in Case /\ inquiry' = [inquiry EXCEPT ![i] = v]
               /\ v = inquiry[i] \/ v.status \in {"failed", "cancelled"}
  <2>1. CASE UNCHANGED inquiry
    <3>1. inquiry' = [inquiry EXCEPT ![i] = inquiry[i]]
      BY <2>1 DEF InquiryInv, InquiryTyped
    <3> QED
      BY <1>3, <3>1
  <2>2. ASSUME NEW s \in {"failed", "cancelled"},
               inquiry' = [inquiry EXCEPT ![i] =
                   [inquiry[i] EXCEPT !.status = s, !.said = "unsupported"]]
        PROVE  \E v : /\ v \in Case /\ inquiry' = [inquiry EXCEPT ![i] = v]
                      /\ v = inquiry[i] \/ v.status \in {"failed", "cancelled"}
    <3> DEFINE v == [inquiry[i] EXCEPT !.status = s, !.said = "unsupported"]
    <3>1. v \in Case /\ v.status = s
      BY <1>3, <2>2 DEF Case, Assistant!Statuses, Assistant!Ended, Assistant!Support
    <3> QED
      BY <2>2, <3>1
  <2> QED
    BY <2>1, <2>2 DEF Assistant!Fail, Assistant!PutInvestigation
<1> HIDE DEF n
<1>5. /\ InquiryTyped' /\ inquiry'[i] = v /\ chat'[i] = n
      /\ \A j \in Inquiries \ {i} : inquiry'[j] = inquiry[j] /\ chat'[j] = chat[j]
  BY <1>1, <1>2, <1>4 DEF InquiryInv, InquiryTyped
<1>6. Assistant!Delivery(i)' = Assistant!Delivery(i) /\ chat'[i].at = "over"
  BY <1>1, <1>2, <1>5 DEF Assistant!Delivery
<1>7. ChatRight(i)'
  <2>1. inquiry'[i].status # None
    BY <1>3, <1>4, <1>5 DEF Assistant!InvestigationConstants, Assistant!Statuses, Assistant!Ended
  <2> QED
    BY <1>6, <2>1, OverRight
<1>8. CaseRight(i)'
  <2>1. CaseRight(i)
    BY DEF InquiryInv
  <2>2. \A cited : FoundedOn(i, cited)' <=> FoundedOn(i, cited)
    BY <1>1 DEF FoundedOn
  <2> QED
    BY <1>1, <1>4, <1>5, <1>6, <2>1, <2>2 DEF CaseRight
<1>9. Grows(i) /\ \A j \in Inquiries \ {i} : Same(j)
  BY <1>1, <1>5 DEF Grows, Same
<1> QED
  BY <1>1, <1>5, <1>7, <1>8, <1>9, OneCaseMoves

\* What was delivered stays on record of a deleted investigation, but not what
\* it was.
LEMMA DeleteStep ==
    ASSUME Assistant!InvestigationConstants, InquiryInv, NEW i \in Inquiries, Assistant!Delete(i)
    PROVE  /\ InquiryInv'
           /\ inquiry'[i].status = "deleted" /\ inquiry'[i].cited = None
           /\ Len(evidence'[i]) = Len(evidence[i])
           /\ Assistant!Delivery(i)' = Assistant!Delivery(i)
           /\ \A j \in Inquiries \ {i} : Same(j)
<1> DEFINE k == DOMAIN evidence[i]
           w == [n \in k |-> [evidence[i][n] EXCEPT !.held = FALSE, !.of = {}]]
           v == [inquiry[i] EXCEPT !.status = "deleted", !.cited = None]
<1>1. /\ inquiry[i].status \in Assistant!Ended
      /\ inquiry' = [inquiry EXCEPT ![i] = v] /\ evidence' = [evidence EXCEPT ![i] = w]
      /\ UNCHANGED <<chat, granted, revision, reading, consumed>>
  BY DEF Assistant!Delete, Assistant!PutInvestigation, Assistant!PutEvidence
<1>2. inquiry[i] \in Case
  BY DEF InquiryInv, InquiryTyped
<1>3. v \in Case /\ v.status = "deleted" /\ v.cited = None
  BY <1>2 DEF Case, Assistant!Statuses
<1>4. /\ evidence[i] \in Seq(Piece) /\ k = 1 .. Len(evidence[i]) /\ Len(evidence[i]) \in Nat
      /\ \A m \in k : evidence[i][m] \in Piece
  BY LenProperties, ElementOfSeq DEF InquiryInv, InquiryTyped
<1>5. \A m \in k : /\ w[m] \in Piece /\ ~w[m].held
                   /\ w[m].delivery = evidence[i][m].delivery
                   /\ w[m].status = evidence[i][m].status
  BY <1>4 DEF Piece
<1>6. w \in Seq(Piece) /\ DOMAIN w = k /\ Len(w) = Len(evidence[i])
  <2>1. w \in [1 .. Len(evidence[i]) -> Piece]
    BY <1>4, <1>5
  <2>2. w \in Seq(Piece)
    BY <1>4, <2>1, SeqDef
  <2>3. DOMAIN w = k /\ DOMAIN w = 1 .. Len(w) /\ Len(w) \in Nat
    BY <2>2, LenProperties
  <2> HIDE DEF w, k
  <2>4. Len(w) = Len(evidence[i])
    BY <1>4, <2>3
  <2> QED
    BY <2>2, <2>3, <2>4
<1> HIDE DEF w, v
<1>7. /\ InquiryTyped' /\ inquiry'[i] = v /\ evidence'[i] = w
      /\ \A j \in Inquiries \ {i} : Same(j)
  BY <1>1, <1>3, <1>6 DEF InquiryInv, InquiryTyped, Same
<1>8. /\ Assistant!Delivery(i)' = Assistant!Delivery(i)
      /\ inquiry'[i].status = "deleted" /\ DOMAIN evidence'[i] = DOMAIN evidence[i]
      /\ \A m \in DOMAIN evidence'[i] : ~evidence'[i][m].held
  BY <1>3, <1>5, <1>6, <1>7 DEF Assistant!Delivery
<1>9. chat[i].at \notin Places
  BY <1>1 DEF InquiryInv, ChatRight, Assistant!Ended
<1>10. ChatRight(i)'
  <2>1. None \notin Assistant!Statuses
    BY DEF Assistant!InvestigationConstants
  <2>2. inquiry[i].status # None /\ chat[i].at # None /\ inquiry'[i].status # None
    BY <1>1, <1>8, <2>1 DEF InquiryInv, ChatRight, Assistant!Statuses
  <2>3. chat'[i] = chat[i]
    BY <1>1
  <2> QED
    BY <1>9, <2>2, <2>3 DEF ChatRight, Places
<1>11. CaseRight(i)'
  BY <1>1, <1>8 DEF CaseRight, InquiryInv
<1>12. Grows(i)
  BY <1>1, <1>5, <1>7, <1>8 DEF Grows
<1> QED
  BY <1>1, <1>3, <1>6, <1>7, <1>8, <1>10, <1>11, <1>12, OneCaseMoves

-----------------------------------------------------------------------------
(* The reader, and everything else.                                         *)
\* A reader reads on, and rights, time and resources change.
LEMMA ReaderSteps ==
    ASSUME InquiryInv, UNCHANGED <<inquiry, evidence, chat, consumed>>,
           granted' \subseteq Resources, revision' \in Nat, ReadRight'
    PROVE  InquiryInv'
<1>1. \A i \in Inquiries : Same(i)
  BY DEF Same
<1>2. InquiryTyped'
  BY DEF InquiryInv, InquiryTyped
<1> QED
  BY <1>1, <1>2, SameRight DEF InquiryInv

LEMMA ReadsRight ==
    ASSUME Assistant!InvestigationConstants, InquiryInv,
           \/ \E i \in Inquiries : Assistant!GetValue(i)
           \/ Assistant!GetEvidence \/ Assistant!GetAnswer \/ Assistant!Put
    PROVE  InquiryInv'
<1>1. /\ UNCHANGED <<inquiry, evidence, chat, consumed>>
      /\ granted' \subseteq Resources /\ revision' \in Nat
  BY DEF Assistant!GetValue, Assistant!GetEvidence, Assistant!GetAnswer, Assistant!Put,
     InquiryInv, InquiryTyped
<1>2. \A i, cited : FoundedOn(i, cited)' <=> FoundedOn(i, cited)
  BY <1>1 DEF FoundedOn
<1>3. ASSUME NEW i \in Inquiries, Assistant!GetValue(i) PROVE ReadRight'
  <2>1. reading' = [of |-> i, value |-> inquiry[i], held |-> None, shown |-> None]
    BY <1>3 DEF Assistant!GetValue
  <2> QED
    BY <2>1 DEF ReadRight
<1>4. ASSUME Assistant!GetEvidence PROVE ReadRight'
  <2>1. /\ reading # None /\ reading = [f \in {"of", "value", "held", "shown"} |-> reading[f]]
        /\ reading' = [reading EXCEPT !.held = evidence[reading.of]]
    BY <1>4 DEF Assistant!GetEvidence, InquiryInv, ReadRight
  <2>2. /\ reading' = [f \in {"of", "value", "held", "shown"} |-> reading'[f]]
        /\ reading'.of = reading.of /\ reading'.value = reading.value
        /\ reading'.shown = reading.shown
    BY <2>1
  <2> QED
    BY <1>2, <2>1, <2>2 DEF InquiryInv, ReadRight
<1>5. ASSUME Assistant!GetAnswer PROVE ReadRight'
  <2> DEFINE s == Assistant!Shown(reading.of, reading.value, reading.held)
             cited == IF reading.value.cited = None THEN {} ELSE reading.value.cited
  <2>1. /\ reading # None /\ reading = [f \in {"of", "value", "held", "shown"} |-> reading[f]]
        /\ reading.of \in Inquiries /\ reading' = [reading EXCEPT !.shown = s]
    BY <1>5 DEF Assistant!GetAnswer, InquiryInv, ReadRight
  <2>2. /\ reading' = [f \in {"of", "value", "held", "shown"} |-> reading'[f]]
        /\ reading'.of = reading.of /\ reading'.value = reading.value /\ reading'.shown = s
    <3> HIDE DEF s
    <3> QED
      BY <2>1
  <2>3. s.support = "supported" => Assistant!References(reading.of, cited) = "supported"
    BY DEF Assistant!Shown
  <2>4. s.support = "supported" => FoundedOn(reading.of, reading.value.cited)
    <3> SUFFICES ASSUME s.support = "supported"
                 PROVE  FoundedOn(reading.of, reading.value.cited)
      OBVIOUS
    <3>1. /\ cited # {}
          /\ \A c \in cited : /\ c[1] = reading.of /\ c[2] \in consumed[reading.of]
                              /\ evidence[reading.of][c[2]].status = "ok"
      <4> HIDE DEF cited, s
      <4> QED
        BY <2>1, <2>3, SupportedIsFounded
    <3>2. reading.value.cited # None /\ cited = reading.value.cited
      BY <3>1
    <3> QED
      BY <3>1, <3>2 DEF FoundedOn
  <2> HIDE DEF s
  <2> QED
    BY <1>2, <2>1, <2>2, <2>4 DEF ReadRight
<1>6. ASSUME Assistant!Put PROVE ReadRight'
  BY <1>6 DEF Assistant!Put, ReadRight
<1> QED
  BY <1>1, <1>3, <1>4, <1>5, <1>6, ReaderSteps

LEMMA WorldSteps ==
    ASSUME InquiryInv,
           \/ \E i \in Inquiries : Assistant!Expire(i)
           \/ \E r \in Resources : Assistant!ChangeRight(r) \/ Assistant!Remove(r)
    PROVE  InquiryInv'
<1>1. UNCHANGED <<inquiry, evidence, chat, consumed, reading>>
  BY DEF Assistant!Expire, Assistant!ChangeRight, Assistant!Remove
<1>2. granted' \subseteq Resources /\ revision' \in Nat
  BY DEF Assistant!Expire, Assistant!ChangeRight, Assistant!Remove, InquiryInv, InquiryTyped
<1>3. ReadRight'
  BY <1>1 DEF InquiryInv, ReadRight, FoundedOn
<1> QED
  BY <1>1, <1>2, <1>3, ReaderSteps

LEMMA CrashStep ==
    ASSUME Assistant!InvestigationConstants, InquiryInv, Assistant!Crash
    PROVE  InquiryInv'
<1> DEFINE n == [Assistant!NoChat EXCEPT !.at = "over"]
<1>1. /\ chat' = [i \in Inquiries |-> IF chat[i].at = None THEN Assistant!NoChat ELSE n]
      /\ reading' = None
      /\ UNCHANGED <<inquiry, evidence, granted, revision, consumed>>
  BY DEF Assistant!Crash
<1>2. /\ n \in ChatState /\ n.at = "over"
      /\ Assistant!NoChat \in ChatState /\ Assistant!NoChat.at = None
  BY DEF ChatState, Assistant!Places, Assistant!NoChat, Assistant!Support
<1> HIDE DEF n
<1>3. InquiryTyped'
  BY <1>1, <1>2 DEF InquiryInv, InquiryTyped
<1>4. ASSUME NEW i \in Inquiries PROVE ChatRight(i)' /\ CaseRight(i)'
  <2>1. CaseRight(i)'
    BY <1>1 DEF InquiryInv, CaseRight, Assistant!Delivery, FoundedOn
  <2>2. CASE chat[i].at = None
    <3>1. chat'[i].at = None
      BY <1>1, <1>2, <2>2
    <3>2. inquiry[i].status = None /\ evidence[i] = <<>> /\ consumed[i] = {}
      BY <2>2 DEF InquiryInv, ChatRight
    <3>3. None \notin Assistant!Places
      BY DEF Assistant!InvestigationConstants
    <3>4. ChatRight(i)'
      BY <1>1, <3>1, <3>2, <3>3 DEF ChatRight, Places, Assistant!Places
    <3> QED
      BY <2>1, <3>4
  <2>3. CASE chat[i].at # None
    <3>1. chat'[i].at = "over" /\ inquiry'[i].status # None
      BY <1>1, <1>2, <2>3 DEF InquiryInv, ChatRight
    <3> QED
      BY <2>1, <3>1, OverRight
  <2> QED
    BY <2>2, <2>3
<1>5. ReadRight'
  BY <1>1 DEF ReadRight
<1> QED
  BY <1>3, <1>4, <1>5 DEF InquiryInv

LEMMA InquiryKeeps ==
    ASSUME Assistant!InvestigationConstants, InquiryInv, [Assistant!Next]_(Assistant!vars)
    PROVE  InquiryInv'
<1>1. CASE UNCHANGED Assistant!vars
  BY <1>1, ReaderSteps DEF Assistant!vars, InquiryInv, InquiryTyped, ReadRight, FoundedOn
<1>2. CASE Assistant!Next
  BY <1>2, BeginInquiry, AnsweredStep, DeliveredStep, RecordStep, RoundStep, ConcludeStep,
     CompleteStep, EndsStep, FailStep, DeleteStep, ReadsRight, WorldSteps, CrashStep
     DEF Assistant!Next
<1> QED
  BY <1>1, <1>2

-----------------------------------------------------------------------------
(* What a request, or a user, may do with an investigation.                 *)
\* Who writes an investigation, or its evidence.
LEMMA WhoWritesInquiry ==
    ASSUME Assistant!InvestigationConstants, InquiryInv, [Assistant!Next]_(Assistant!vars),
           NEW i \in Inquiries
    PROVE  \/ UNCHANGED <<inquiry[i], evidence[i]>>
           \/ inquiry[i].status = None /\ inquiry'[i].status = "running"
           \/ inquiry[i].status = "running" /\ UNCHANGED inquiry[i]
           \/ inquiry[i].status = "running" /\ inquiry'[i].status \in Assistant!Ended
           \/ Assistant!Delete(i)
<1> DEFINE Goal == \/ UNCHANGED <<inquiry[i], evidence[i]>>
                   \/ inquiry[i].status = None /\ inquiry'[i].status = "running"
                   \/ inquiry[i].status = "running" /\ UNCHANGED inquiry[i]
                   \/ inquiry[i].status = "running" /\ inquiry'[i].status \in Assistant!Ended
                   \/ Assistant!Delete(i)
<1>0. /\ inquiry \in [Inquiries -> Case] /\ inquiry[i] \in Case
      /\ evidence = [j \in Inquiries |-> evidence[j]]
  BY DEF InquiryInv, InquiryTyped
<1>1. ASSUME NEW j \in Inquiries, Assistant!Begin(j) PROVE Goal
  BY <1>0, <1>1 DEF Assistant!Begin, Assistant!PutInvestigation, Case
<1>2. ASSUME NEW j \in Inquiries, Assistant!Delivered(j) \/ Assistant!Record(j) PROVE Goal
  <2>1. /\ UNCHANGED inquiry /\ inquiry[j].status = "running"
        /\ \E w : evidence' = evidence \/ evidence' = [evidence EXCEPT ![j] = w]
    BY <1>2 DEF Assistant!Delivered, Assistant!Record, Assistant!PutEvidence, InquiryInv,
       ChatRight, Places
  <2> QED
    BY <1>0, <2>1
<1>3. ASSUME NEW j \in Inquiries, Assistant!Complete(j) PROVE Goal
  <2>1. /\ inquiry[j].status = "running" /\ UNCHANGED evidence
        /\ inquiry' = [inquiry EXCEPT ![j] =
               [status |-> "completed", cited |-> chat[j].cited, said |-> chat[j].said]]
    BY <1>3 DEF Assistant!Complete, Assistant!PutInvestigation, InquiryInv, ChatRight, Places
  <2> QED
    BY <1>0, <2>1 DEF Assistant!Ended
<1>4. ASSUME NEW j \in Inquiries, Assistant!Fail(j) PROVE Goal
  <2>1. CASE UNCHANGED inquiry
    BY <1>4, <2>1 DEF Assistant!Fail
  <2>2. ASSUME NEW s \in {"failed", "cancelled"}, inquiry[j].status = "running",
               inquiry' = [inquiry EXCEPT ![j] =
                   [inquiry[j] EXCEPT !.status = s, !.said = "unsupported"]]
        PROVE  Goal
    BY <1>0, <1>4, <2>2 DEF Assistant!Fail, Assistant!Ended, Case
  <2> QED
    BY <1>4, <2>1, <2>2 DEF Assistant!Fail, Assistant!PutInvestigation
<1>5. ASSUME NEW j \in Inquiries, Assistant!Delete(j) PROVE Goal
  BY <1>0, <1>5 DEF Assistant!Delete, Assistant!PutInvestigation, Assistant!PutEvidence
<1>6. ASSUME UNCHANGED <<inquiry, evidence>> PROVE Goal
  BY <1>6
<1> HIDE DEF Goal
<1>7. ASSUME UNCHANGED Assistant!vars PROVE Goal
  BY <1>6, <1>7 DEF Assistant!vars
<1>8. ASSUME Assistant!Next PROVE Goal
  <2>1. ASSUME NEW j \in Inquiries,
               \/ Assistant!ModelCompletion(j) \/ Assistant!NextRound(j) \/ Assistant!Conclude(j)
               \/ Assistant!Break(j) \/ Assistant!Finish(j) \/ Assistant!GetValue(j)
               \/ Assistant!Expire(j)
        PROVE  UNCHANGED <<inquiry, evidence>>
    BY <2>1 DEF Assistant!ModelCompletion, Assistant!NextRound, Assistant!Conclude,
       Assistant!Break, Assistant!Finish, Assistant!GetValue, Assistant!Expire
  <2>2. ASSUME \/ Assistant!GetEvidence \/ Assistant!GetAnswer \/ Assistant!Put \/ Assistant!Crash
               \/ \E r \in Resources : Assistant!ChangeRight(r) \/ Assistant!Remove(r)
        PROVE  UNCHANGED <<inquiry, evidence>>
    BY <2>2 DEF Assistant!GetEvidence, Assistant!GetAnswer, Assistant!Put, Assistant!Crash,
       Assistant!ChangeRight, Assistant!Remove
  <2> QED
    BY <1>1, <1>2, <1>3, <1>4, <1>5, <1>6, <1>8, <2>1, <2>2 DEF Assistant!Next
<1>9. Goal
  BY <1>7, <1>8
<1> QED
  BY <1>9 DEF Goal

LEMMA InquiryMoves ==
    ASSUME Assistant!InvestigationConstants, InquiryInv, [Assistant!Next]_(Assistant!vars)
    PROVE  Assistant!EndsOnce /\ Assistant!NothingAdded
<1>0. None \notin Assistant!Statuses
  BY DEF Assistant!InvestigationConstants
<1>1. ASSUME NEW i \in Inquiries
      PROVE  inquiry'[i].status # inquiry[i].status =>
        CASE inquiry[i].status = None -> inquiry'[i].status = "running"
          [] inquiry[i].status = "running" -> inquiry'[i].status \in Assistant!Ended
          [] OTHER -> inquiry[i].status # "deleted" /\ inquiry'[i].status = "deleted"
  <2>1. CASE Assistant!Delete(i)
    <3>1. inquiry[i].status \in Assistant!Ended /\ inquiry'[i].status = "deleted"
      BY <2>1, DeleteStep DEF Assistant!Delete
    <3> QED
      BY <1>0, <3>1 DEF Assistant!Ended, Assistant!Statuses
  <2> QED
    BY <1>0, <2>1, WhoWritesInquiry DEF Assistant!Ended, Assistant!Statuses
<1>2. ASSUME NEW i \in Inquiries, inquiry[i].status \in Assistant!Ended \cup {"deleted"}
      PROVE  /\ Len(evidence'[i]) = Len(evidence[i])
             /\ Assistant!Delivery(i)' = Assistant!Delivery(i)
             /\ inquiry'[i].cited \in {inquiry[i].cited, None}
  <2>1. Assistant!Delete(i) \/ UNCHANGED <<inquiry[i], evidence[i]>>
    BY <1>0, <1>2, WhoWritesInquiry DEF Assistant!Ended, Assistant!Statuses
  <2>2. CASE Assistant!Delete(i)
    BY <2>2, DeleteStep
  <2>3. CASE UNCHANGED <<inquiry[i], evidence[i]>>
    BY <2>3 DEF Assistant!Delivery
  <2> QED
    BY <2>1, <2>2, <2>3
<1>3. ASSUME NEW i \in Inquiries, inquiry[i].status \in Assistant!Ended \cup {"deleted"},
             inquiry'[i].status = "deleted"
      PROVE  \A n \in DOMAIN evidence[i] : ~evidence'[i][n].held
  <2>1. \A n \in DOMAIN evidence'[i] : ~evidence'[i][n].held
    BY <1>3, InquiryKeeps DEF InquiryInv, CaseRight
  <2>2. evidence[i] \in Seq(Piece) /\ evidence'[i] \in Seq(Piece)
    BY InquiryKeeps DEF InquiryInv, InquiryTyped
  <2>3. DOMAIN evidence'[i] = DOMAIN evidence[i]
    BY <1>2, <1>3, <2>2, LenProperties
  <2> QED
    BY <2>1, <2>3
<1> QED
  BY <1>1, <1>2, <1>3 DEF Assistant!EndsOnce, Assistant!NothingAdded

LEMMA AnswersAreTrue ==
    ASSUME InquiryInv
    PROVE  Assistant!AnswerRests /\ Assistant!SupportedIsTrue
<1>1. Assistant!AnswerRests
  BY DEF InquiryInv, CaseRight, Assistant!AnswerRests
<1>2. \A i \in Inquiries :
          inquiry[i].status = "completed" /\ inquiry[i].said = "supported"
              => FoundedOn(i, inquiry[i].cited)
  BY DEF InquiryInv, CaseRight
<1>3. (reading # None /\ reading.shown # None /\ reading.shown.support = "supported")
          => FoundedOn(reading.of, reading.value.cited)
  BY DEF InquiryInv, ReadRight
<1> QED
  BY <1>1, <1>2, <1>3 DEF Assistant!SupportedIsTrue, FoundedOn

\* The answer of a completed investigation rests on evidence on record, and who
\* is told that an answer is supported reads one that cites what its model had
\* (Delivered, References, Get).
THEOREM SupportIsTrue ==
    Assistant!InvestigationConstants =>
        (Assistant!Init /\ [][Assistant!Next]_(Assistant!vars)
         => [](Assistant!AnswerRests /\ Assistant!SupportedIsTrue))
<1> SUFFICES ASSUME Assistant!InvestigationConstants
             PROVE  Assistant!Init /\ [][Assistant!Next]_(Assistant!vars)
                    => [](Assistant!AnswerRests /\ Assistant!SupportedIsTrue)
  OBVIOUS
<1>1. Assistant!Init => InquiryInv
  BY InquiryInit
<1>2. InquiryInv /\ [Assistant!Next]_(Assistant!vars) => InquiryInv'
  BY InquiryKeeps
<1>3. InquiryInv => Assistant!AnswerRests /\ Assistant!SupportedIsTrue
  BY AnswersAreTrue
<1> QED
  BY <1>1, <1>2, <1>3, PTL

\* An investigation ends once, nothing is added to one that has ended, and of a
\* deleted one nothing comes back (Complete, Fail, Delete, Record).
THEOREM InquiriesEnd ==
    Assistant!InvestigationConstants =>
        (Assistant!Init /\ [][Assistant!Next]_(Assistant!vars)
         => [][Assistant!EndsOnce /\ Assistant!NothingAdded]_(Assistant!vars))
<1> SUFFICES ASSUME Assistant!InvestigationConstants
             PROVE  Assistant!Init /\ [][Assistant!Next]_(Assistant!vars)
                    => [][Assistant!EndsOnce /\ Assistant!NothingAdded]_(Assistant!vars)
  OBVIOUS
<1>1. Assistant!Init => InquiryInv
  BY InquiryInit
<1>2. InquiryInv /\ [Assistant!Next]_(Assistant!vars)
      => InquiryInv' /\ [Assistant!EndsOnce /\ Assistant!NothingAdded]_(Assistant!vars)
  BY InquiryKeeps, InquiryMoves
<1> QED
  BY <1>1, <1>2, PTL

-----------------------------------------------------------------------------
(* Pages of documents.  A page lists one candidate more than it looks at,   *)
(* so a page that has come to the end of a shorter list has seen all there  *)
(* is.  What was steady all the while is among the items, still ahead, or   *)
(* behind the last candidate of a full list (PageRight).                    *)
PagesTyped ==
    /\ version \in [Documents -> Nat] /\ readable \subseteq Documents
    /\ cursor \in Documents \cup {0, None}
    /\ steady \subseteq Documents \cap Wanted \cap readable
    /\ \A d \in steady : version[d] > 0

CursorRight ==
    /\ cursor = None => steady \subseteq got
    /\ cursor # None => \A d \in steady : d <= cursor => d \in got

\* Every candidate looked at lies before those ahead, and those before a
\* document that the list does not reach.
Reaches(d) == \/ d \in got \cup page.items
              \/ d \in Pages!Ahead
              \/ /\ Cardinality(page.found) > ScanBudget /\ d > page.at
                 /\ \A f \in page.found : f < d

PageRight ==
    page # None =>
        /\ page = [f \in {"found", "version", "at", "last", "items"} |-> page[f]]
        /\ page.found \subseteq Documents /\ page.at \in Documents \cup {0}
        /\ page.last = page.at
        /\ Pages!Scanned <= ScanBudget
        /\ \A d \in steady : page.version[d] = version[d] /\ Reaches(d)

PagesInv == PagesTyped /\ CursorRight /\ PageRight

LEMMA SameCounts ==
    /\ \A S : Pages!Cardinality(S) = Cardinality(S)
    /\ \A S : Pages!IsFiniteSet(S) <=> IsFiniteSet(S)
<1>1. \A S : Pages!Cardinality(S) = Cardinality(S)
  BY DEF Pages!Cardinality, Cardinality
<1>2. \A S : Pages!IsFiniteSet(S) <=> IsFiniteSet(S)
  BY DEF Pages!IsFiniteSet, IsFiniteSet
<1> QED
  BY <1>1, <1>2

LEMMA PageNumbers ==
    ASSUME Pages!PageConstants
    PROVE  /\ Documents \subseteq Nat /\ 0 \notin Documents /\ None \notin Documents \cup {0}
           /\ ScanBudget \in Nat /\ IsFiniteSet(Documents)
BY SameCounts DEF Pages!PageConstants

\* The first elements of a set, all of them when there are fewer.
LEMMA LeastNumber ==
    ASSUME NEW S \in SUBSET Nat, S # {}
    PROVE  \E x \in S : \A y \in S : x <= y
<1>1. PICK x \in S : \A y \in S : ~ (<<y, x>> \in OpToRel(<, Nat))
  BY NatLessThanWellFounded, WFMin
<1>2. ASSUME NEW y \in S PROVE x <= y
  <2>1. x \in Nat /\ y \in Nat
    OBVIOUS
  <2>2. <<y, x>> \in OpToRel(<, Nat) <=> y < x
    BY <2>1, Zenon DEF OpToRel
  <2>3. ~ (y < x)
    BY <1>1, <2>2
  <2> QED
    BY <2>1, <2>3
<1> QED
  BY <1>2

\* The members of a set of numbers below one of them, and its first members.
Lower(S, d) == {e \in S : e < d}

LEMMA ListIsAll ==
    ASSUME NEW S \in SUBSET Nat, IsFiniteSet(S), NEW n \in Nat,
           NEW L \in SUBSET S, \A d \in S : d \in L <=> Cardinality(Lower(S, d)) <= n
    PROVE  /\ IsFiniteSet(L)
           /\ Cardinality(L) <= n => L = S
           /\ \A d \in S \ L : \A f \in L : f < d
<1>1. IsFiniteSet(L) /\ \A e \in S : e \in Nat
  BY FS_Subset
<1>2. \A d \in S : IsFiniteSet(Lower(S, d)) /\ Cardinality(Lower(S, d)) \in Nat
  <2> TAKE d \in S
  <2>1. Lower(S, d) \in SUBSET S
    BY DEF Lower
  <2> QED
    BY <2>1, FS_Subset, FS_CardinalityType
<1>3. ASSUME NEW d \in S \ L, NEW f \in L PROVE f < d
  <2> SUFFICES ASSUME ~ (f < d) PROVE FALSE
    OBVIOUS
  <2>1. d \in Nat /\ f \in Nat /\ d <= f /\ f \in S
    BY <1>1
  <2>2. Lower(S, d) \in SUBSET Lower(S, f)
    <3>1. ASSUME NEW e \in Lower(S, d) PROVE e \in Lower(S, f)
      <4>1. e \in S /\ e < d /\ e \in Nat
        BY <1>1, <3>1 DEF Lower
      <4> QED
        BY <2>1, <4>1 DEF Lower
    <3> QED
      BY <3>1
  <2>3. Cardinality(Lower(S, d)) <= Cardinality(Lower(S, f))
    BY <1>2, <2>1, <2>2, FS_Subset
  <2>4. Cardinality(Lower(S, f)) \in Nat /\ Cardinality(Lower(S, f)) <= n
    BY <1>2, <2>1
  <2>5. Cardinality(Lower(S, d)) \in Nat /\ ~ (Cardinality(Lower(S, d)) <= n)
    BY <1>2
  <2> QED
    BY <2>3, <2>4, <2>5
<1>4. ASSUME Cardinality(L) <= n PROVE L = S
  <2> SUFFICES ASSUME S \ L # {} PROVE FALSE
    OBVIOUS
  <2>1. PICK d \in S \ L : \A e \in S \ L : d <= e
    <3>1. (S \ L) \in SUBSET Nat
      BY <1>1
    <3> QED
      BY <3>1, LeastNumber
  <2>2. Lower(S, d) \in SUBSET L
    <3>1. ASSUME NEW e \in Lower(S, d) PROVE e \in L
      <4>1. e \in S /\ e < d /\ e \in Nat /\ d \in Nat
        BY <1>1, <3>1 DEF Lower
      <4> QED
        BY <2>1, <4>1
    <3> QED
      BY <3>1
  <2>3. Cardinality(Lower(S, d)) <= Cardinality(L)
    BY <1>1, <2>2, FS_Subset
  <2>4. Cardinality(Lower(S, d)) <= n
    <3>1. Cardinality(L) \in Nat /\ Cardinality(Lower(S, d)) \in Nat
      BY <1>1, <1>2, FS_CardinalityType
    <3> QED
      BY <1>4, <2>3, <3>1
  <2> QED
    BY <2>1, <2>4
<1> QED
  BY <1>1, <1>3, <1>4

LEMMA PagesInit ==
    ASSUME Pages!PageConstants, Pages!Init
    PROVE  PagesInv
<1>1. PICK there \in SUBSET Documents :
          version = [d \in Documents |-> IF d \in there THEN 1 ELSE 0]
  BY DEF Pages!Init
<1>2. PagesTyped
  BY <1>1 DEF Pages!Init, PagesTyped, Pages!Present
<1>3. \A d \in steady : d \in Nat /\ d > 0
  BY <1>2 DEF Pages!PageConstants, PagesTyped
<1>4. 0 # None /\ cursor = 0 /\ page = None
  BY DEF Pages!PageConstants, Pages!Init
<1> QED
  BY <1>2, <1>3, <1>4 DEF PagesInv, CursorRight, PageRight

\* A page begins: nothing is scanned.
LEMMA BeginPage ==
    ASSUME Pages!PageConstants, PagesInv, Pages!Begin
    PROVE  PagesInv'
<1> DEFINE S == {d \in Pages!Present : d > cursor}
<1>1. cursor # None /\ cursor \in Documents \cup {0} /\ cursor \in Nat /\ Documents \subseteq Nat
      /\ 0 \notin Documents
  BY PageNumbers DEF PagesInv, PagesTyped, Pages!Begin
<1>2. S \in SUBSET Documents /\ S \in SUBSET Nat /\ IsFiniteSet(S)
  <2>1. S \in SUBSET Documents
    BY DEF Pages!Present
  <2> QED
    BY <1>1, <2>1, PageNumbers, FS_Subset
<1>3. /\ Pages!AIDocuments(cursor) \subseteq S
      /\ \A d \in S : d \in Pages!AIDocuments(cursor) <=> Cardinality(Lower(S, d)) <= ScanBudget
  <2>1. \A d : {e \in Pages!Present : cursor < e /\ e < d} = Lower(S, d)
    <3>1. \A e \in Pages!Present : e \in Nat
      BY <1>1 DEF Pages!Present
    <3> QED
      BY <1>1, <3>1 DEF Lower
  <2>2. Pages!AIDocuments(cursor) = {d \in Pages!Present : d > cursor
            /\ Cardinality({e \in Pages!Present : cursor < e /\ e < d}) <= ScanBudget}
    BY SameCounts DEF Pages!AIDocuments
  <2> QED
    BY <2>1, <2>2
<1>4. /\ page' = [found |-> Pages!AIDocuments(cursor), version |-> version, at |-> cursor,
                  last |-> cursor, items |-> {}]
      /\ UNCHANGED <<version, readable, pageChanges, cursor, got, steady>>
  BY DEF Pages!Begin
<1> DEFINE L == Pages!AIDocuments(cursor)
<1>5. L \subseteq S /\ (Cardinality(L) <= ScanBudget => L = S)
      /\ (\A d \in S \ L : \A f \in L : f < d) /\ IsFiniteSet(L) /\ ScanBudget \in Nat
  <2>1. ScanBudget \in Nat
    BY PageNumbers
  <2>2. L \in SUBSET S /\ \A d \in S : d \in L <=> Cardinality(Lower(S, d)) <= ScanBudget
    BY <1>3 DEF L
  <2> HIDE DEF S, L
  <2> QED
    BY <1>2, <2>1, <2>2, ListIsAll
<1>6. (Pages!Ahead)' = L /\ (Pages!Scanned)' = 0
  <2>1. \A d \in L : d > cursor
    BY <1>5
  <2>2. (Pages!Ahead)' = L
    BY <1>4, <2>1 DEF Pages!Ahead
  <2> QED
    BY <1>4, <2>2, FS_EmptySet, SameCounts DEF Pages!Scanned
<1>7. ASSUME NEW d \in steady PROVE Reaches(d)'
  <2>1. d \in Documents /\ d \in Nat /\ version[d] > 0
    BY <1>1 DEF PagesInv, PagesTyped
  <2>2. CASE d <= cursor
    BY <1>1, <1>4, <2>2 DEF PagesInv, CursorRight, Reaches
  <2>3. CASE d > cursor
    <3>1. d \in S
      BY <2>1, <2>3 DEF Pages!Present
    <3>2. Cardinality(L) \in Nat
      BY <1>5, FS_CardinalityType
    <3>3. page'.found = L /\ page'.at = cursor /\ page'.items = {} /\ got' = got
      BY <1>4
    <3> HIDE DEF S, L
    <3> QED
      BY <1>5, <1>6, <2>3, <3>1, <3>2, <3>3 DEF Reaches
  <2> QED
    BY <1>1, <2>1, <2>2, <2>3
<1>8. PageRight'
  <2>1. page' = [f \in {"found", "version", "at", "last", "items"} |-> page'[f]]
    BY <1>4
  <2>2. L \subseteq Documents
    BY <1>2, <1>5
  <2>3. /\ page'.found = L /\ page'.at = cursor /\ page'.last = cursor
        /\ page'.version = version /\ version' = version /\ steady' = steady
    BY <1>4
  <2> HIDE DEF L
  <2> QED
    BY <1>1, <1>5, <1>6, <1>7, <2>1, <2>2, <2>3 DEF PageRight
<1> QED
  BY <1>4, <1>8 DEF PagesInv, PagesTyped, CursorRight

\* A page ends: the client goes on behind the last candidate, or has all.
LEMMA AnswerPage ==
    ASSUME Pages!PageConstants, PagesInv, NEW p, NEW more \in BOOLEAN, Pages!Answer(p, more),
           UNCHANGED <<version, readable, steady>>,
           p.last \in Documents \cup {0},
           \A d \in steady : (~more \/ d <= p.last) => d \in got \cup p.items
    PROVE  PagesInv'
<1>1. /\ got' = got \cup p.items
      /\ cursor' = IF more THEN p.last ELSE None
      /\ page' = None
  BY DEF Pages!Answer
<1>2. p.last # None
  BY DEF Pages!PageConstants
<1>3. PagesTyped'
  BY <1>1 DEF PagesInv, PagesTyped
<1>4. CursorRight'
  BY <1>1, <1>2 DEF CursorRight
<1> QED
  BY <1>1, <1>3, <1>4 DEF PagesInv, PageRight

LEMMA ReadPage ==
    ASSUME Pages!PageConstants, PagesInv, Pages!Read
    PROVE  PagesInv'
<1> DEFINE A == Pages!Ahead
           d == Pages!Min(A)
           p == [page EXCEPT !.at = d, !.last = d]
           q == [p EXCEPT !.items = @ \cup {d}]
<1>1. /\ page # None /\ A # {} /\ Pages!Scanned < ScanBudget
      /\ UNCHANGED <<version, readable, pageChanges, steady>>
  BY DEF Pages!Read
<1>2. /\ page = [f \in {"found", "version", "at", "last", "items"} |-> page[f]]
      /\ page.found \subseteq Documents /\ page.at \in Documents \cup {0}
      /\ \A e \in steady : page.version[e] = version[e] /\ Reaches(e)
      /\ Documents \subseteq Nat /\ IsFiniteSet(page.found) /\ ScanBudget \in Nat
      /\ 0 \notin Documents
  <2>1. page.found \subseteq Documents
    BY <1>1 DEF PagesInv, PageRight
  <2>2. IsFiniteSet(page.found)
    BY <2>1, PageNumbers, FS_Subset
  <2> QED
    BY <1>1, <2>1, <2>2, PageNumbers DEF PagesInv, PageRight
<1>3. A \in SUBSET page.found /\ A \in SUBSET Nat
  BY <1>2 DEF Pages!Ahead
<1>4. d \in A /\ \A e \in A : d <= e
  <2>1. \E x \in A : \A y \in A : x <= y
    BY <1>1, <1>3, LeastNumber
  <2> QED
    BY <2>1 DEF Pages!Min
<1>5. d \in page.found /\ d > page.at /\ d \in Nat /\ d \in Documents
  BY <1>2, <1>3, <1>4 DEF Pages!Ahead
<1>6. /\ p = [f \in {"found", "version", "at", "last", "items"} |-> p[f]]
      /\ p.found = page.found /\ p.version = page.version /\ p.at = d /\ p.last = d
      /\ p.items = page.items
  BY <1>2
<1>7. /\ q = [f \in {"found", "version", "at", "last", "items"} |-> q[f]]
      /\ q.found = page.found /\ q.version = page.version /\ q.at = d /\ q.last = d
      /\ q.items = page.items \cup {d}
  BY <1>2
<1> HIDE DEF A, d, p, q
<1>8. /\ IsFiniteSet((page.found \ A) \cup {d})
      /\ Cardinality((page.found \ A) \cup {d}) <= ScanBudget
      /\ Cardinality((page.found \ A) \cup {d}) \in Nat
  <2> DEFINE B == page.found \ A
  <2>1. IsFiniteSet(B)
    BY <1>2, FS_Subset
  <2>2. Cardinality(B) < ScanBudget /\ Cardinality(B) \in Nat
    BY <1>1, <2>1, FS_CardinalityType, SameCounts DEF Pages!Scanned, A
  <2> HIDE DEF B
  <2>3. /\ IsFiniteSet(B \cup {d})
        /\ Cardinality(B \cup {d}) = Cardinality(B) \/ Cardinality(B \cup {d}) = Cardinality(B) + 1
    BY <2>1, FS_AddElement
  <2>4. IsFiniteSet(B \cup {d}) /\ Cardinality(B \cup {d}) <= ScanBudget
        /\ Cardinality(B \cup {d}) \in Nat
    BY <1>2, <2>2, <2>3
  <2> QED
    BY <2>4 DEF B
<1>9. ASSUME NEW e \in steady
      PROVE  /\ e \in got \cup page.items \cup (A \ {d}) \cup {d} \/ (Cardinality(page.found) > ScanBudget
                   /\ \A f \in page.found : f < e)
             /\ e \in Nat /\ e \in Documents
  <2>1. Reaches(e) /\ e \in Documents
    BY <1>2 DEF PagesInv, PagesTyped
  <2> QED
    BY <1>2, <1>4, <2>1 DEF Reaches, A
\* What one more candidate makes of the page, but for the items.
<1>10. ASSUME NEW w, w = [f \in {"found", "version", "at", "last", "items"} |-> w[f]],
              w.found = page.found, w.version = page.version, w.at = d, w.last = d,
              page.items \subseteq w.items, d \in steady => d \in w.items,
              page' = w, UNCHANGED <<cursor, got>>
       PROVE  PagesInv'
  <2>1. (Pages!Ahead)' = A \ {d}
    <3>1. ASSUME NEW e \in page.found PROVE e > d <=> e \in A /\ e # d
      BY <1>2, <1>4, <1>5, <3>1 DEF A, Pages!Ahead
    <3> QED
      BY <1>3, <1>10, <3>1 DEF Pages!Ahead
  <2>2. page.found \ (A \ {d}) = (page.found \ A) \cup {d}
    BY <1>5
  <2>3. (Pages!Scanned)' <= ScanBudget
    BY <1>8, <1>10, <2>1, <2>2, SameCounts DEF Pages!Scanned
  <2>4. ASSUME NEW e \in steady PROVE Reaches(e)'
    <3>1. CASE e \in got \cup page.items \cup (A \ {d}) \cup {d}
      BY <1>10, <2>1, <3>1 DEF Reaches
    <3>2. CASE Cardinality(page.found) > ScanBudget /\ \A f \in page.found : f < e
      <4>1. e > d
        BY <1>5, <1>9, <3>2
      <4> QED
        BY <1>10, <3>2, <4>1 DEF Reaches
    <3> QED
      BY <1>9, <3>1, <3>2
  <2>5. PageRight'
    BY <1>1, <1>2, <1>5, <1>10, <2>3, <2>4 DEF PageRight
  <2> QED
    BY <1>1, <1>10, <2>5 DEF PagesInv, PagesTyped, CursorRight
<1>11. CASE d \notin Wanted \/ Pages!ReadAIDocument(d) = "denied"
  <2>1. page' = p /\ UNCHANGED <<cursor, got>>
    BY <1>11 DEF Pages!Read, A, d, p
  <2>2. d \notin steady
    BY <1>11 DEF PagesInv, PagesTyped, Pages!ReadAIDocument, Pages!DefinitionEvidence
  <2> QED
    BY <1>6, <1>10, <2>1, <2>2
<1>12. CASE d \in Wanted /\ Pages!ReadAIDocument(d) = "conflict"
  <2>1. page' = None /\ UNCHANGED <<cursor, got>>
    BY <1>12 DEF Pages!Read, A, d, p
  <2> QED
    BY <1>1, <2>1 DEF PagesInv, PagesTyped, CursorRight, PageRight
<1>13. CASE ~ (d \notin Wanted \/ Pages!ReadAIDocument(d) = "denied")
            /\ ~ (d \in Wanted /\ Pages!ReadAIDocument(d) = "conflict")
  <2>1. IF Cardinality(q.items) = PageLimit THEN Pages!Answer(q, A # {d})
        ELSE page' = q /\ UNCHANGED <<cursor, got>>
    BY <1>13, SameCounts DEF Pages!Read, A, d, p, q
  <2>2. CASE page' = q /\ UNCHANGED <<cursor, got>>
    BY <1>7, <1>10, <2>2
  <2>3. CASE Pages!Answer(q, A # {d})
    <3>1. ASSUME NEW e \in steady, A = {d} \/ e <= d PROVE e \in got \cup q.items
      <4>1. CASE e \in got \cup page.items \cup {d}
        BY <1>7, <4>1
      <4>2. CASE e \in A \ {d}
        <5>1. e > d
          BY <1>3, <1>4, <1>5, <1>9, <4>2
        <5> QED
          BY <1>5, <1>9, <3>1, <4>2, <5>1
      <4>3. CASE Cardinality(page.found) > ScanBudget /\ \A f \in page.found : f < e
        <5>1. e > d
          BY <1>5, <1>9, <4>3
        <5>2. A = {d}
          BY <1>5, <1>9, <3>1, <5>1
        <5>3. page.found = (page.found \ A) \cup {d}
          BY <1>5, <5>2
        <5>4. Cardinality(page.found) <= ScanBudget /\ Cardinality(page.found) \in Nat
          BY <1>8, <5>3
        <5> QED
          BY <1>2, <4>3, <5>4
      <4> QED
        BY <1>9, <4>1, <4>2, <4>3
    <3> QED
      BY <1>1, <1>5, <1>7, <2>3, <3>1, AnswerPage
  <2> QED
    BY <2>1, <2>2, <2>3
<1> QED
  BY <1>11, <1>12, <1>13

LEMMA EndPage ==
    ASSUME Pages!PageConstants, PagesInv, Pages!Exhausted \/ Pages!AllRead
    PROVE  PagesInv'
<1>1. page # None /\ UNCHANGED <<version, readable, pageChanges, steady>>
  BY DEF Pages!Exhausted, Pages!AllRead
<1>2. /\ page.found \subseteq Documents /\ page.at \in Documents \cup {0}
      /\ page.last = page.at /\ Pages!Scanned <= ScanBudget
      /\ \A e \in steady : Reaches(e) /\ e \in Documents
      /\ Documents \subseteq Nat /\ ScanBudget \in Nat
      /\ IsFiniteSet(page.found) /\ Cardinality(page.found) \in Nat
  <2>1. page.found \subseteq Documents
    BY <1>1 DEF PagesInv, PageRight
  <2>2. IsFiniteSet(page.found) /\ Cardinality(page.found) \in Nat
    BY <2>1, PageNumbers, FS_Subset, FS_CardinalityType
  <2> QED
    BY <1>1, <2>1, <2>2, PageNumbers DEF PagesInv, PagesTyped, PageRight
<1>3. CASE Pages!Exhausted
  <2>1. Pages!Answer(page, TRUE)
    BY <1>3 DEF Pages!Exhausted
  <2>2. ASSUME NEW e \in steady, e <= page.last PROVE e \in got \cup page.items
    <3>1. e \in Documents /\ Reaches(e)
      BY <1>2
    <3>3. e \in Nat /\ page.at \in Nat
      <4>1. \A x \in Documents : x \in Nat
        BY <1>2
      <4>2. page.at \in Documents \/ page.at = 0
        BY <1>2
      <4> QED
        BY <3>1, <4>1, <4>2
    <3>2. e <= page.at
      BY <1>2, <2>2
    <3> QED
      BY <3>1, <3>2, <3>3 DEF Reaches, Pages!Ahead
  <2> QED
    BY <1>1, <1>2, <2>1, <2>2, AnswerPage
<1>4. CASE Pages!AllRead
  <2>1. Pages!Answer(page, FALSE) /\ Pages!Ahead = {}
    BY <1>4 DEF Pages!AllRead
  <2>2. Cardinality(page.found) <= ScanBudget
    <3>1. page.found \ Pages!Ahead = page.found
      BY <2>1
    <3> QED
      BY <1>2, <3>1, SameCounts DEF Pages!Scanned
  <2>3. ASSUME NEW e \in steady PROVE e \in got \cup page.items
    BY <1>2, <2>1, <2>2 DEF Reaches
  <2> QED
    BY <1>1, <1>2, <2>1, <2>3, AnswerPage
<1> QED
  BY <1>3, <1>4

\* A document that changes is no longer steady.
LEMMA ChangeDocument ==
    ASSUME Pages!PageConstants, PagesInv, NEW d \in Documents, Pages!Change(d)
    PROVE  PagesInv'
<1>1. /\ steady' = steady \ {d} /\ UNCHANGED <<page, cursor, got>>
      /\ \/ version' = [version EXCEPT ![d] = @ + 1] /\ UNCHANGED readable
         \/ version' = [version EXCEPT ![d] = 0] /\ UNCHANGED readable
         \/ /\ readable' = IF d \in readable THEN readable \ {d} ELSE readable \cup {d}
            /\ UNCHANGED version
  BY DEF Pages!Change
<1>2. /\ version' \in [Documents -> Nat] /\ readable' \subseteq Documents
      /\ \A e \in steady' : version'[e] = version[e] /\ (e \in readable' <=> e \in readable)
  BY <1>1 DEF PagesInv, PagesTyped
<1>3. PagesTyped'
  BY <1>1, <1>2 DEF PagesInv, PagesTyped
<1>4. CursorRight'
  BY <1>1 DEF PagesInv, CursorRight
<1>5. PageRight'
  BY <1>1, <1>2 DEF PagesInv, PageRight, Reaches, Pages!Ahead, Pages!Scanned
<1> QED
  BY <1>3, <1>4, <1>5 DEF PagesInv

LEMMA PagesKeep ==
    ASSUME Pages!PageConstants, PagesInv, [Pages!Next]_(Pages!vars)
    PROVE  PagesInv'
<1>1. CASE Pages!Next
  BY <1>1, BeginPage, ReadPage, EndPage, ChangeDocument DEF Pages!Next
<1>2. CASE UNCHANGED Pages!vars
  BY <1>2 DEF Pages!vars, PagesInv, PagesTyped, CursorRight, PageRight, Reaches, Pages!Ahead,
     Pages!Scanned
<1> QED
  BY <1>1, <1>2

\* A client that follows the continuations to the end has got every document
\* that was there, unchanged and readable, all the while (Documents).
THEOREM PagesAreComplete ==
    Pages!PageConstants =>
        (Pages!Init /\ [][Pages!Next]_(Pages!vars) => []Pages!PagesComplete)
<1> SUFFICES ASSUME Pages!PageConstants
             PROVE  Pages!Init /\ [][Pages!Next]_(Pages!vars) => []Pages!PagesComplete
  OBVIOUS
<1>1. Pages!Init => PagesInv
  BY PagesInit
<1>2. PagesInv /\ [Pages!Next]_(Pages!vars) => PagesInv'
  BY PagesKeep
<1>3. PagesInv => Pages!PagesComplete
  BY DEF PagesInv, CursorRight, Pages!PagesComplete
<1> QED
  BY <1>1, <1>2, <1>3, PTL
=============================================================================
