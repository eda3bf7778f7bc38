---------------------------- MODULE AlarmHandling ----------------------------
(***************************************************************************)
(* How one alarm is handled at an edge and in the cloud: the record of the *)
(* alarm that the rule engine and a replay write (engine/runtime.go,       *)
(* engine/history.go), the operations of persons on it, which both sites   *)
(* exchange and fold into a case (store/business.go,                       *)
(* application/business.go), and its counterpart in ThingsBoard at the     *)
(* edge (thingsboard/alarms.go, alarm_states.go, native_alarm.go).         *)
(***************************************************************************)
EXTENDS Naturals, Sequences, SequencesExt, FiniteSets

CONSTANTS
    Persons,        \* those who handle alarms
    Times,          \* readings of the clocks, which may differ between sites
    MaxOperations,  \* bound: operations on the alarm
    MaxReplays      \* bound: replays at the edge

VARIABLES
    made,       \* the operations, in the order in which they were made
    ops,        \* of each site, the operations of its case in the order they came
    alarm,      \* of each site, the document "alarm"
    present,    \* of each site, the same alarm as "active_alarm"
    handler,    \* of each site, the call of ActOnAlarm in progress
    replay,     \* finishReplay at the edge: what it read
    native,     \* the alarm in ThingsBoard, and what the platform recorded of it
    replays

vars == <<made, ops, alarm, present, handler, replay, native, replays>>

Sites == {"edge", "cloud"}
Nobody == "nobody"
NoAlarm == [exists |-> FALSE, active |-> FALSE, ack |-> FALSE]
NoCall == [pc |-> "idle", action |-> "none", person |-> Nobody, seen |-> 0, alarm |-> NoAlarm]
NoReplay == [pc |-> "idle", old |-> NoAlarm]

Init ==
    /\ made = <<>>
    /\ ops = [s \in Sites |-> <<>>]
    /\ alarm = [s \in Sites |-> NoAlarm]
    /\ present = [s \in Sites |-> NoAlarm]
    /\ handler = [s \in Sites |-> NoCall]
    /\ replay = NoReplay
    /\ native = [there |-> "none", polled |-> FALSE, recorded |-> FALSE]
    /\ replays = 0

-----------------------------------------------------------------------------
(* The fold of a case.  An operation counts when all operations its author  *)
(* had seen are known; nobody may act on a case with operations missing, so *)
(* what an author has seen is closed and one level of the basis suffices.   *)

ArrivalOrder(m, s) == s
Ordered(m, s) ==
    SortSeq(s, LAMBDA a, b : m[a].at < m[b].at \/ (m[a].at = m[b].at /\ a < b))

Counting(m, s) == SelectSeq(Ordered(m, s), LAMBDA o : m[o].basis \subseteq ToSet(s))
Missing(m, s) == UNION {m[o].basis : o \in ToSet(s)} \ ToSet(s)

(* The decisions of one kind that no later one of the kind has seen.        *)
Decisions(m, s, actions) ==
    LET all == SelectSeq(Counting(m, s), LAMBDA o : m[o].action \in actions)
    IN SelectSeq(all, LAMBDA o : \A p \in ToSet(all) : o \notin m[p].basis)

CaseOf(m, s) ==
    LET acks == SelectSeq(Counting(m, s), LAMBDA o : m[o].action = "acknowledge")
        assigns == Decisions(m, s, {"assign"})
        states == Decisions(m, s, {"complete", "reopen"})
        assignees == {m[o].person : o \in ToSet(assigns)}
        actions == {m[o].action : o \in ToSet(states)}
    IN [ack |-> acks # <<>>,
        by |-> IF acks = <<>> THEN 0 ELSE Head(acks),
        assignee |-> IF Cardinality(assignees) # 1 THEN Nobody ELSE m[Last(assigns)].person,
        status |-> IF Cardinality(assignees) > 1 \/ Cardinality(actions) > 1 THEN "conflict"
                   ELSE IF actions = {"complete"} THEN "completed"
                   ELSE "open"]

(* A site knows the operations that came to it.                             *)
Known(s) == [o \in ToSet(ops[s]) |-> made[o]]
Case(s) == CaseOf(Known(s), ops[s])

-----------------------------------------------------------------------------
(* AcknowledgeAlarm sets both documents of the alarm, ApplyAlarmOperation   *)
(* calls it when the case is acknowledged.                                  *)
Acknowledge(s) ==
    IF alarm[s].exists /\ ~alarm[s].ack
    THEN /\ alarm' = [alarm EXCEPT ![s].ack = TRUE]
         /\ present' = [present EXCEPT ![s] = alarm'[s]]
    ELSE UNCHANGED <<alarm, present>>

Apply(s, o, m) ==
    /\ ops' = [ops EXCEPT ![s] = Append(@, o)]
    /\ IF CaseOf(m, Append(ops[s], o)).ack THEN Acknowledge(s) ELSE UNCHANGED <<alarm, present>>

(* What an alarm in state a and its case at a site allow a person to do.    *)
Allows(a, s, action, person) ==
    LET c == Case(s) IN
    /\ a.exists /\ Missing(Known(s), ops[s]) = {}
    /\ action = "acknowledge" => ~a.ack /\ ~c.ack
    /\ action = "complete" => /\ ~a.active /\ c.status # "completed" /\ (a.ack \/ c.ack)
                              /\ c.assignee \in {Nobody, person}
    /\ action = "reopen" => c.status # "open"
Allowed(s, action, person) == Allows(alarm[s], s, action, person)

(* ActOnAlarm reads the alarm and the case and checks the action; the person*)
(* is the assignee of "assign" and the author of "complete" ...             *)
Decide(s, action, person) ==
    /\ handler[s].pc = "idle" /\ Len(made) < MaxOperations
    /\ Allowed(s, action, person)
    /\ handler' = [handler EXCEPT ![s] = [pc |-> "commit", action |-> action, person |-> person,
            seen |-> Len(ops[s]), alarm |-> alarm[s]]]
    /\ UNCHANGED <<made, ops, alarm, present, replay, native, replays>>

(* ... and commits when neither has changed since.                          *)
AlarmUnchanged(s) == alarm[s] = handler[s].alarm
Unchanged(s) == Len(ops[s]) = handler[s].seen /\ alarm[s] = handler[s].alarm

Commit(s) ==
    LET h == handler[s] IN
    /\ h.pc = "commit"
    /\ handler' = [handler EXCEPT ![s] = NoCall]
    /\ IF Unchanged(s) /\ Len(made) < MaxOperations
       THEN \E t \in Times :
              LET o == [action |-> h.action, person |-> h.person, site |-> s,
                        at |-> t, basis |-> ToSet(ops[s])]
              IN made' = Append(made, o) /\ Apply(s, Len(made) + 1, Append(made, o))
       ELSE UNCHANGED <<made, ops, alarm, present>>
    /\ UNCHANGED <<replay, native, replays>>

(* The exchange carries the operations of a site in their order.            *)
Outstanding(s, t) == {o \in ToSet(ops[s]) \ ToSet(ops[t]) : made[o].site = s}
Deliver(s, t) ==
    \E o \in Outstanding(s, t) :
        /\ \A p \in Outstanding(s, t) : o <= p
        /\ Apply(t, o, made)
        /\ UNCHANGED <<made, handler, replay, native, replays>>

-----------------------------------------------------------------------------
(* The rule engine goes on from "active_alarm" and writes both documents;   *)
(* an alarm without acknowledgement takes it from its case.                 *)
Evaluate(s, active) ==
    LET p == present[s] IN
    /\ p.exists \/ active
    /\ p.exists => p.active                 \* a later alarm is another one
    /\ alarm' = [alarm EXCEPT ![s] = [exists |-> TRUE, active |-> active,
                                      ack |-> p.ack \/ Case(s).ack]]
    /\ present' = [present EXCEPT ![s] = alarm'[s]]
    /\ UNCHANGED <<made, ops, handler, replay, native, replays>>

(* finishReplay reads the alarms of its interval and later writes what it   *)
(* computed, with the acknowledgement it had read.                          *)
BeginReplay ==
    /\ replay.pc = "idle" /\ replays < MaxReplays
    /\ replays' = replays + 1
    /\ replay' = [pc |-> "finish", old |-> alarm["edge"]]
    /\ UNCHANGED <<made, ops, alarm, present, handler, native>>

FinishReplay ==
    /\ replay.pc = "finish"
    /\ replay' = NoReplay
    /\ LET old == replay.old IN
       \/ /\ old.exists                                     \* as before
          /\ present' = [present EXCEPT !["edge"] = old]
          /\ UNCHANGED alarm
       \/ \E active \in BOOLEAN :                           \* computed anew
            /\ alarm' = [alarm EXCEPT !["edge"] =
                    [exists |-> TRUE, active |-> active, ack |-> old.ack]]
            /\ present' = [present EXCEPT !["edge"] = alarm'["edge"]]
       \/ /\ old.exists                                     \* not computed
          /\ alarm' = [alarm EXCEPT !["edge"] = [old EXCEPT !.active = FALSE]]
          /\ present' = [present EXCEPT !["edge"] = IF @.exists THEN alarm'["edge"] ELSE @]
       \/ UNCHANGED <<alarm, present>>                       \* no alarm, or invalidated before
    /\ UNCHANGED <<made, ops, handler, native, replays>>

-----------------------------------------------------------------------------
(* ThingsBoard: the alarm is projected, a person acknowledges it there, and *)
(* the edge polls it, in a read and a later transaction.                    *)
Project ==
    /\ alarm["edge"].exists
    /\ native' = [native EXCEPT !.there = IF alarm["edge"].ack \/ @ = "acknowledged"
                                          THEN "acknowledged" ELSE "open"]
    /\ UNCHANGED <<made, ops, alarm, present, handler, replay, replays>>

AcknowledgedThere ==
    /\ native.there = "open"
    /\ native' = [native EXCEPT !.there = "acknowledged"]
    /\ UNCHANGED <<made, ops, alarm, present, handler, replay, replays>>

Poll ==
    /\ native.there = "acknowledged"
    /\ native' = [native EXCEPT !.polled = TRUE]
    /\ UNCHANGED <<made, ops, alarm, present, handler, replay, replays>>

(* UpdateNativeAlarm ignores what it knows and what is older.               *)
UpdateNative ==
    /\ native.polled
    /\ native' = [native EXCEPT !.polled = FALSE, !.recorded = TRUE]
    /\ IF native.recorded THEN UNCHANGED <<alarm, present>> ELSE Acknowledge("edge")
    /\ UNCHANGED <<made, ops, handler, replay, replays>>

-----------------------------------------------------------------------------
Act(s) ==
    \/ \E a \in {"acknowledge", "reopen"} : Decide(s, a, Nobody)
    \/ \E p \in Persons, a \in {"assign", "complete"} : Decide(s, a, p)
    \/ Commit(s)

Next ==
    \/ \E s \in Sites : Act(s)
    \/ Deliver("edge", "cloud") \/ Deliver("cloud", "edge")
    \/ \E s \in Sites, active \in BOOLEAN : Evaluate(s, active)
    \/ BeginReplay \/ FinishReplay
    \/ Project \/ AcknowledgedThere \/ Poll \/ UpdateNative

Spec == Init /\ [][Next]_vars
-----------------------------------------------------------------------------
TypeOK ==
    /\ \A s \in Sites : /\ IsInjective(ops[s]) /\ ToSet(ops[s]) \subseteq DOMAIN made
                        /\ handler[s].pc \in {"idle", "commit"}
                        /\ alarm[s] \in [exists : BOOLEAN, active : BOOLEAN, ack : BOOLEAN]
                        /\ present[s].exists => alarm[s].exists
    /\ Len(made) <= MaxOperations

(* Sites that know the same operations show the same case, in whatever      *)
(* order they came (foldAlarmCase); and no operation is ever missing that a *)
(* known one was based on.                                                  *)
SitesAgree ==
    /\ ToSet(ops["edge"]) = ToSet(ops["cloud"]) => Case("edge") = Case("cloud")
    /\ \A s \in Sites : Missing(made, ops[s]) = {}

(* A handling is completed only in a state that allows it at the site where *)
(* it is completed: recovered, acknowledged, not completed, and by the      *)
(* assignee if there is one (alarmAction, the second check in ActOnAlarm).  *)
CompletedProperly ==
    LET o == made'[Len(made')] IN
    Len(made') > Len(made) /\ o.action = "complete" => Allowed(o.site, "complete", o.person)
CompletionsAllowed == [][CompletedProperly]_vars

(* An alarm whose case is acknowledged, or of which the platform recorded   *)
(* the acknowledgement in ThingsBoard, is shown as acknowledged.            *)
AcknowledgementKept ==
    /\ \A s \in Sites : alarm[s].exists /\ Case(s).ack => alarm[s].ack
    /\ native.recorded => alarm["edge"].ack
=============================================================================
