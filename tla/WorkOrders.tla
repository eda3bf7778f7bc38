------------------------------ MODULE WorkOrders ------------------------------
(***************************************************************************)
(* A work order and those who handle it (application/workorders.go).  A    *)
(* call of the API reads the order, its assignee, the rights and the       *)
(* evidence one after the other, and commits when none of the documents    *)
(* has changed; a request that is repeated takes effect once.              *)
(***************************************************************************)
EXTENDS Naturals, Sequences, SequencesExt

CONSTANTS
    Persons,        \* members
    Administrators, \* members with the role "admin"
    Actions,        \* the operations of ChangeWorkOrder that are asked for
    Requests,       \* the request ids a person uses
    Calls,          \* handlers of the API at work at the same time
    MaxVersion,     \* bound: versions of the order
    MaxChanges      \* bound: changes of members, rights and the alarm

VARIABLES
    person,     \* department and version of each member
    rights,     \* who may approve in the group, and the version of the grants
    alarm,      \* the alarm of the order: its version and that of its handling
    order,      \* the document "work_order"
    requests,   \* sf_business_requests: scope and id of a request, its input
    call,       \* the calls in progress
    changes

vars == <<person, rights, alarm, order, requests, call, changes>>

AllActions == {"assign", "start", "update", "note", "complete", "reopen"}
Nobody == "nobody"
OrderConstants == Actions \subseteq AllActions /\ Nobody \notin Persons

Departments == {1, 2}
NoEvidence == [kind |-> "none", version |-> 0]
NoOrder == [status |-> "none", assignee |-> Nobody, dep |-> 0, version |-> 0, entries |-> <<>>]
NoInput == [id |-> 0, action |-> "none", version |-> 0, to |-> Nobody, evidence |-> NoEvidence]
NoCall == [pc |-> "idle", who |-> Nobody, input |-> NoInput, rights |-> 0,
           person |-> <<>>, dep |-> 0]

Init ==
    /\ person = [p \in Persons |-> [dep |-> 1, version |-> 1]]
    /\ rights = [may |-> Persons, version |-> 1]
    /\ alarm = [version |-> 1, acts |-> 1]
    /\ order = NoOrder
    /\ requests = {}
    /\ call = [c \in Calls |-> NoCall]
    /\ changes = 0

-----------------------------------------------------------------------------
(* A request is known under a scope of its own for each person and each of  *)
(* the three operations.                                                    *)
Operation(action) == IF action \in {"create", "handover"} THEN action ELSE "change"
Same(r, who, input) ==
    r.who = who /\ r.input.id = input.id /\ Operation(r.input.action) = Operation(input.action)
Earlier(who, input) == {r \in requests : Same(r, who, input)}

(* What a person sends: an operation on the order as it is now ...          *)
Evidence(action) ==
    IF action = "handover"
    THEN {NoEvidence, [kind |-> "version", version |-> alarm.version],
          [kind |-> "acts", version |-> alarm.acts]}
    ELSE {NoEvidence}
Targets(action) ==
    CASE action \in {"create", "assign"} -> Persons
      [] action = "handover" -> Persons \ {order.assignee}
      [] OTHER -> {Nobody}
Fresh(action) ==
    {[id |-> i, action |-> action, version |-> order.version, to |-> t, evidence |-> e] :
        i \in Requests, t \in Targets(action), e \in Evidence(action)}

(* ... or a request that it has made and had no answer to.                  *)
Repeated(who) ==
    {r.input : r \in {r \in requests : r.who = who}}
    \cup {call[c].input : c \in {c \in Calls : call[c].who = who /\ call[c].pc # "idle"}}

-----------------------------------------------------------------------------
(* Someone can be the assignee who may approve, and stays responsible in    *)
(* the department he was assigned in.                                       *)
Member(p) == p \in rights.may
Responsible(o) == Member(o.assignee) /\ person[o.assignee].dep = o.dep

StatusAllows(o, action) ==
    CASE action = "start" -> o.status = "open"
      [] action \in {"assign", "update", "complete", "handover"} -> o.status # "completed"
      [] action = "reopen" -> o.status = "completed"
      [] OTHER -> TRUE

WorkOrderAction(o, who, action) ==
    /\ StatusAllows(o, action)
    /\ action # "assign" => (o.assignee = who \/ who \in Administrators) /\ Responsible(o)

(* The evidence of a handover names the alarm as it was reviewed: the exact *)
(* version, or the version of its handling, which new readings leave alone. *)
Stands(e) ==
    /\ e.kind = "version" => alarm.version = e.version
    /\ e.kind = "acts" => alarm.acts = e.version

(* A call reads who asks, the rights, the order, the assignees and the      *)
(* evidence.  Each of them is guarded at the commit, so reading them one    *)
(* after the other shows nothing that reading them at once does not.        *)
Allowed(who, input) ==
    /\ who \in rights.may
    /\ input.action # "create" =>
          input.version = order.version /\ WorkOrderAction(order, who, input.action)
    /\ input.to # Nobody => Member(input.to)
    /\ Stands(input.evidence)

Involved(o, input) == {o.assignee, input.to} \ {Nobody}

(* CreateWorkOrder looks for an earlier request only when it commits, the   *)
(* others before they check anything as well.                               *)
Ask(c, who, input) ==
    /\ call[c].pc = "idle"
    /\ Allowed(who, input)
    /\ input.action = "create" \/ Earlier(who, input) = {}
    /\ call' = [call EXCEPT ![c] = [pc |-> "commit", who |-> who, input |-> input,
            rights |-> rights.version,
            person |-> [p \in {who} \cup Involved(order, input) |-> person[p].version],
            dep |-> IF input.to = Nobody THEN 0 ELSE person[input.to].dep]]
    /\ UNCHANGED <<person, rights, alarm, order, requests, changes>>

Begin(c) ==
    \E who \in Persons :
        \E input \in Repeated(who) \cup
                     UNION {Fresh(a) : a \in IF order.version = 0 THEN {"create"}
                                             ELSE Actions \cup {"handover"}} :
            Ask(c, who, input)

(* ... and commits on documents that have not changed.  The exact version   *)
(* of an alarm is guarded, or, in its place, the version of its handling.   *)
PersonsUnchanged(h) ==
    /\ \A p \in DOMAIN h.person : person[p].version = h.person[p]
    /\ order.version = h.input.version
    /\ Stands(h.input.evidence)
Unchanged(h) == rights.version = h.rights /\ PersonsUnchanged(h)

After(h) ==
    LET a == h.input.action
        o == [order EXCEPT !.version = @ + 1,
                !.entries = Append(@, [who |-> h.who, id |-> h.input.id, action |-> a,
                                       evidence |-> h.input.evidence])]
    IN CASE a \in {"create", "assign", "handover"} ->
              [o EXCEPT !.assignee = h.input.to, !.dep = h.dep,
                        !.status = IF a = "create" THEN "open" ELSE @]
         [] a = "start" -> [o EXCEPT !.status = "in_progress"]
         [] a = "complete" -> [o EXCEPT !.status = "completed"]
         [] a = "reopen" -> [o EXCEPT !.status = "open"]
         [] OTHER -> o

Commit(c) ==
    LET h == call[c] IN
    /\ h.pc = "commit"
    /\ call' = [call EXCEPT ![c] = NoCall]
    /\ IF Earlier(h.who, h.input) = {} /\ Unchanged(h) /\ order.version < MaxVersion
       THEN /\ order' = After(h)
            /\ requests' = requests \cup {[who |-> h.who, input |-> h.input]}
       ELSE UNCHANGED <<order, requests>>
    /\ UNCHANGED <<person, rights, alarm, changes>>

-----------------------------------------------------------------------------
(* What others change meanwhile.                                            *)
Move(p) ==
    /\ changes < MaxChanges /\ changes' = changes + 1
    /\ person' = [person EXCEPT ![p] = [dep |-> 3 - @.dep, version |-> @.version + 1]]
    /\ UNCHANGED <<rights, alarm, order, requests, call>>

Grant(p) ==
    /\ changes < MaxChanges /\ changes' = changes + 1
    /\ rights' = [may |-> (rights.may \cup {p}) \ (rights.may \cap {p}),
                  version |-> rights.version + 1]
    /\ UNCHANGED <<person, alarm, order, requests, call>>

(* A reading, or someone who handles the alarm.                             *)
ChangeAlarm ==
    /\ changes < MaxChanges /\ changes' = changes + 1
    /\ \E acts \in {alarm.acts, alarm.acts + 1} :
          alarm' = [version |-> alarm.version + 1, acts |-> acts]
    /\ UNCHANGED <<person, rights, order, requests, call>>

Next ==
    \/ \E c \in Calls : Begin(c) \/ Commit(c)
    \/ \E p \in Persons : Move(p) \/ Grant(p)
    \/ ChangeAlarm

Spec == Init /\ [][Next]_vars
-----------------------------------------------------------------------------
TypeOK ==
    /\ person \in [Persons -> [dep : Departments, version : Nat]]
    /\ rights \in [may : SUBSET Persons, version : Nat]
    /\ alarm \in [version : Nat, acts : Nat]
    /\ order.status \in {"none", "open", "in_progress", "completed"}
    /\ order.assignee \in Persons \cup {Nobody}
    /\ order.version = Len(order.entries)
    /\ \A r \in requests : r.who \in Persons
    /\ \A c \in Calls : call[c].pc \in {"idle", "commit"}
    /\ changes \in 0..MaxChanges

(* A request takes effect once, however often and in however many calls at  *)
(* the same time it is made.                                                *)
TakenOnce ==
    \A i, j \in DOMAIN order.entries :
        LET e == order.entries[i]  f == order.entries[j] IN
        e.who = f.who /\ e.id = f.id /\ Operation(e.action) = Operation(f.action) => i = j

(* Who works on the order is, when this is stored, its assignee or an       *)
(* administrator, in a department and with rights that stand; whoever gets  *)
(* it may have it; a handover goes by an alarm as it is; and a completed    *)
(* order is left as it is until it is reopened.                             *)
WorkedProperly ==
    order' # order =>
        LET e == Last(order'.entries) IN
        /\ e.who \in rights.may
        /\ e.action \notin {"create", "assign"} =>
              (e.who \in Administrators \/ e.who = order.assignee) /\ Responsible(order)
        /\ Member(order'.assignee)
        /\ e.action \in {"create", "assign", "handover"} =>
              order'.dep = person[order'.assignee].dep
        /\ Stands(e.evidence)
        /\ order.status = "completed" => e.action \in {"reopen", "note"}
=============================================================================
