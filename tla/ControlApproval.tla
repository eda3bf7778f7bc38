--------------------------- MODULE ControlApproval ---------------------------
(***************************************************************************)
(* One request to carry out a control plan: it is made, signed, dispatched *)
(* and started by handlers that read the documents they depend on, one     *)
(* after the other and outside a transaction, and commit only when none of *)
(* them has a new version (CheckRevisions) and nobody else has written the *)
(* request.  Meanwhile administrators change people, grants, the           *)
(* organization and the plan, and the plant changes the conditions.        *)
(***************************************************************************)
EXTENDS Naturals, FiniteSets

CONSTANTS
    Users,
    Holds,          \* [Users -> sets of roles]: the roles a person has at first
    Requester,
    Handlers,       \* requests handled at a time
    MaxChanges      \* bound: changes by administrators, of conditions, of time

(* The requester is one of the users, and roles are names.                  *)
ApprovalConstants == Requester \in Users /\ Holds \in [Users -> SUBSET STRING]

VARIABLES
    person,         \* document user: version, active, roles
    grants,         \* documents grant: version, who may control and approve
    org,            \* departments: version, who leads the requester
    plan,           \* the published definition: its version
    risk,           \* the basis of the conditions; 2 is a physical interlock
    request,        \* document execution
    expired,        \* the window of the approvals
    handler,
    changes

vars == <<person, grants, org, plan, risk, request, expired, handler, changes>>
documents == <<person, grants, org, plan>>

NoRequest == [status |-> "none", v |-> 0, plan |-> 0, risk |-> 0, signed |-> {}]
Idle == [pc |-> "idle", kind |-> "none", by |-> Requester, role |-> "none", doc |-> NoRequest,
         people |-> [u \in Users |-> 0], grants |-> 0, org |-> 0, plan |-> 0, outcome |-> "none"]

-----------------------------------------------------------------------------
(* definitionAccess: active, and granted what the plan refers to.           *)
Permitted(u) == person[u].active /\ u \in grants.to

(* leaderEligible                                                           *)
Leads(u) == person[Requester].active /\ u \in org.leaders

(* A signature that would be given again today (executionAccess).           *)
Stands(a) ==
    /\ Permitted(a.user) /\ a.role \in person[a.user].roles
    /\ a.role = "leader" => Leads(a.user)

(* enough: one engineer and one leader, different persons.                  *)
Enough(signed) ==
    \E a, b \in signed : a.role = "engineer" /\ b.role = "leader" /\ a.user # b.user

Signers(doc) == {a.user : a \in doc.signed}

-----------------------------------------------------------------------------
(* authorize: the caller, the grants and the plan, with their versions.     *)
Begins(doc) ==
    [request |-> {"none"}, approve |-> {"awaiting_approval", "approved"},
     dispatch |-> {"approved"}, start |-> {"queued"}]

Authorize(h, kind, u, role) ==
    /\ handler[h].pc = "idle"
    /\ request.status \in Begins(request)[kind]
    /\ kind \in {"request", "start"} => u = Requester
    /\ kind = "approve" <=> role # "none"
    /\ kind = "approve" => role \in person[u].roles
    /\ kind # "start" => Permitted(u)
    /\ kind \in {"approve", "dispatch"} => request.plan = plan.v
    /\ handler' = [handler EXCEPT ![h] =
         [Idle EXCEPT !.pc = "check", !.kind = kind, !.by = u, !.role = role, !.doc = request,
                      !.people[u] = person[u].v, !.grants = grants.v, !.plan = plan.v]]
    /\ UNCHANGED <<documents, risk, request, expired, changes>>

(* Fault: who has signed may sign in another role.                          *)
SignsTwice(o) == o.role \in person[o.by].roles /\ (o.role = "leader" => Leads(o.by))

(* What each handler demands of the signatures it has read.                 *)
Signable(o) ==
    /\ o.role \in person[o.by].roles /\ (o.role = "leader" => Leads(o.by))
    /\ o.by \notin Signers(o.doc)
Carried(o) == Enough(o.doc.signed) /\ \A a \in o.doc.signed : Stands(a)

Demands(o) ==
    CASE o.kind = "request" -> TRUE
      [] o.kind = "approve" -> Signable(o) /\ ~expired
      [] o.kind = "dispatch" -> Carried(o) /\ Permitted(Requester) /\ ~expired
      [] o.kind = "start" ->
           Carried(o) /\ Permitted(Requester) /\ ~expired /\ o.doc.plan = o.plan

(* The outcome, by the conditions of the plan: an interlock ends the        *)
(* request, another basis than the one signed stops the handler.            *)
Outcome(o) ==
    CASE o.kind = "request" -> IF risk = 2 THEN "rejected" ELSE "awaiting_approval"
      [] o.kind = "approve" -> IF Enough(o.doc.signed \cup {[user |-> o.by, role |-> o.role]})
                               THEN "approved" ELSE o.doc.status
      [] o.kind = "dispatch" -> IF risk = 2 THEN "rejected" ELSE "queued"
      [] o.kind = "start" -> IF risk = 2 THEN "rejected" ELSE "running"

SameBasis(o) ==
    CASE o.kind = "approve" -> risk = o.doc.risk
      [] o.kind = "dispatch" -> risk \in {o.doc.risk, 2}
      [] OTHER -> TRUE

(* organizationSnapshot, the signers, validateApprovals, Conditions.  What  *)
(* may not start is rejected; otherwise the handler gives up.               *)
Check(h) ==
    LET o == handler[h]
        read == Signers(o.doc) \cup {o.by, Requester}
        fits == person[o.by].v = o.people[o.by] /\ Demands(o) /\ SameBasis(o)
        outcome == IF fits THEN Outcome(o) ELSE "rejected"
    IN  /\ o.pc = "check"
        /\ handler' = [handler EXCEPT ![h] =
             IF ~fits /\ o.kind # "start" THEN Idle
             ELSE [o EXCEPT !.pc = "commit", !.org = org.v, !.outcome = outcome,
                            !.doc.risk = IF o.kind = "request" THEN risk ELSE @,
                            !.people = [u \in Users |-> IF u \in read THEN person[u].v ELSE 0]]]
        /\ UNCHANGED <<documents, risk, request, expired, changes>>

(* Faults: only the caller's own documents are looked at again; nobody      *)
(* looks at whether the request has been written.                           *)
CallersOnly(o) ==
    /\ o.people[o.by] = person[o.by].v
    /\ o.grants = grants.v /\ o.plan = plan.v
Unrevised(o) ==
    /\ \A u \in Users : o.people[u] \in {0, person[u].v}
    /\ o.grants = grants.v /\ o.org = org.v /\ o.plan = plan.v

AnyVersion(o) == TRUE
Unwritten(o) == o.doc.v = request.v

(* One transaction.  A rejection is saved without CheckRevisions.           *)
Commit(h) ==
    LET o == handler[h]
        signed == IF o.kind = "approve" THEN {[user |-> o.by, role |-> o.role]} ELSE {}
    IN  /\ o.pc = "commit"
        /\ IF (Unrevised(o) \/ (o.outcome = "rejected" /\ o.kind # "request")) /\ Unwritten(o)
           THEN request' = [status |-> o.outcome, v |-> request.v + 1, risk |-> o.doc.risk,
                            plan |-> IF o.kind = "request" THEN o.plan ELSE o.doc.plan,
                            signed |-> o.doc.signed \cup signed]
           ELSE UNCHANGED request
        /\ handler' = [handler EXCEPT ![h] = Idle]
        /\ UNCHANGED <<documents, risk, expired, changes>>

-----------------------------------------------------------------------------
Change == changes < MaxChanges /\ changes' = changes + 1

ChangePerson(u) ==
    /\ Change
    /\ \E active \in BOOLEAN, roles \in {person[u].roles, person[u].roles \ {"leader"}} :
         person' = [person EXCEPT ![u] = [v |-> @.v + 1, active |-> active, roles |-> roles]]
    /\ UNCHANGED <<grants, org, plan, risk, request, expired, handler>>

ChangeGrants ==
    /\ Change
    /\ \E u \in Users : grants' = [v |-> grants.v + 1, to |-> grants.to \ {u}]
    /\ UNCHANGED <<person, org, plan, risk, request, expired, handler>>

ChangeOrganization ==
    /\ Change
    /\ \E u \in org.leaders : org' = [v |-> org.v + 1, leaders |-> org.leaders \ {u}]
    /\ UNCHANGED <<person, grants, plan, risk, request, expired, handler>>

Publish ==
    /\ Change
    /\ plan' = [v |-> plan.v + 1]
    /\ UNCHANGED <<person, grants, org, risk, request, expired, handler>>

ChangeConditions ==
    /\ Change
    /\ \E r \in 0 .. 2 : r # risk /\ risk' = r
    /\ UNCHANGED <<documents, request, expired, handler>>

Expire ==
    /\ ~expired /\ Change /\ expired' = TRUE
    /\ UNCHANGED <<documents, risk, request, handler>>

-----------------------------------------------------------------------------
Init ==
    /\ person = [u \in Users |-> [v |-> 1, active |-> TRUE, roles |-> Holds[u]]]
    /\ grants = [v |-> 1, to |-> Users]
    /\ org = [v |-> 1, leaders |-> {u \in Users : "leader" \in Holds[u]}]
    /\ plan = [v |-> 1] /\ risk = 0 /\ request = NoRequest /\ expired = FALSE
    /\ handler = [h \in Handlers |-> Idle] /\ changes = 0

Next ==
    \/ \E h \in Handlers :
         \/ \E kind \in {"request", "approve", "dispatch", "start"}, u \in Users,
               role \in {"none", "engineer", "leader"} : Authorize(h, kind, u, role)
         \/ Check(h) \/ Commit(h)
    \/ \E u \in Users : ChangePerson(u)
    \/ ChangeGrants \/ ChangeOrganization \/ Publish \/ ChangeConditions \/ Expire

Spec == Init /\ [][Next]_vars

-----------------------------------------------------------------------------
TypeOK ==
    /\ request.plan <= plan.v /\ Signers(request) \subseteq Users
    /\ \A h \in Handlers : handler[h].doc.v <= request.v /\ handler[h].plan <= plan.v
    /\ request.status = "none" <=> request.v = 0

(* Nothing is dispatched or started on a signature that would no longer be  *)
(* given at that moment, for a requester who may no longer ask for it, or   *)
(* after a plan that has been replaced (executionAccess, CheckRevisions).   *)
Standing ==
    request'.status # request.status /\ request'.status \in {"queued", "running"} =>
      /\ \A a \in request'.signed : Stands(a)
      /\ Permitted(Requester) /\ request'.plan = plan.v
OnStandingSignatures == [][Standing]_vars

(* A request goes on only with the signatures of two persons, on the basis  *)
(* they have signed, however the handlers of the two interleave             *)
(* (ApproveVersion, enough).                                                *)
TwoPersons ==
    /\ request.status \in {"approved", "queued", "running"} => Enough(request.signed)
    /\ \A a, b \in request.signed : a.user = b.user => a = b

(* A signature that has been given stays (the version of the request).      *)
Stay == request.signed \subseteq request'.signed
SignaturesStay == [][Stay]_vars
=============================================================================
