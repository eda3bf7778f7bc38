--------------------------- MODULE ChangeExchange ---------------------------
(***************************************************************************)
(* The exchange of changed documents, permissions and audit records        *)
(* between an edge and the cloud (cloudsync, store/sync.go,                *)
(* store/audit_sync.go).  Both sides append their changes to a log; the    *)
(* edge sends what follows its cursors, the cloud imports it and answers   *)
(* with what follows in its own log, and the edge moves its cursors in a   *)
(* transaction of its own after it has imported the answer.  A call of the *)
(* edge may be given up while the cloud still works on it.                 *)
(*                                                                         *)
(* A device belongs to the edge, a rule to the cloud, and a handling of an *)
(* alarm is made at the edge by a person whose right the cloud may revoke. *)
(* A document is a pair of its name and its version.                       *)
(***************************************************************************)
EXTENDS Naturals, Sequences, SequencesExt

CONSTANTS
    Handlers,       \* calls the cloud can work on at the same time: numbers
    Batch,          \* changes in one answer or request
    MaxEdits,       \* bound: documents written
    MaxRevocations, \* bound: changes of the right
    MaxFaults       \* bound: calls given up, errors and restarts

ExchangeConstants == Batch \in Nat /\ MaxEdits \in Nat

VARIABLES
    log,        \* sync_changes of "edge" and "cloud"
    have,       \* document_versions of "edge" and "cloud"
    cursor,     \* the edge's cursors: up, down, audit
    trail,      \* length of the audit chain of the edge
    copy,       \* length of its copy in the cloud
    progress,   \* sync_node_progress: exists, down, off
    records,    \* rules whose publication record is open
    right,      \* the right at the cloud and in the bundle the edge holds
    client,     \* the edge's call
    server,     \* the cloud's handlers
    edits, revocations, faults

vars == <<log, have, cursor, trail, copy, progress, records, right, client, server, edits,
          revocations, faults>>

Sites == {"edge", "cloud"}
NoAnswer == [down |-> 0, changes |-> {}, audit |-> 0, right |-> FALSE]
NoRequest == [up |-> 0, down |-> 0, changes |-> <<>>, audit |-> <<0, 0>>]
Idle == [pc |-> "idle", request |-> NoRequest, answer |-> NoAnswer, by |-> 0]
Free == [pc |-> "free", request |-> NoRequest, off |-> 0, answer |-> NoAnswer]

Init ==
    /\ log = [s \in Sites |-> <<>>]
    /\ have = [s \in Sites |-> {}]
    /\ cursor = [up |-> 0, down |-> 0, audit |-> 0]
    /\ trail = 0 /\ copy = 0
    /\ progress = [exists |-> FALSE, down |-> 0, off |-> 0]
    /\ records = {}
    /\ right = [s \in Sites |-> TRUE]
    /\ client = Idle
    /\ server = [h \in Handlers |-> Free]
    /\ edits = 0 /\ revocations = 0 /\ faults = 0

Greatest(a, b) == IF a > b THEN a ELSE b
Least(a, b) == IF a < b THEN a ELSE b
After(l, i) == SubSeq(l, i + 1, Least(Len(l), i + Batch))

-----------------------------------------------------------------------------
(* Work at the edge and in the cloud: a document and its entry in the log   *)
(* are one transaction, at the edge with an audit record.                   *)

Put(site, d) ==
    /\ edits < MaxEdits
    /\ edits' = edits + 1
    /\ have' = [have EXCEPT ![site] = @ \cup {d}]
    /\ log' = [log EXCEPT ![site] = Append(@, d)]

Versions(site, name) == {d \in have[site] : d.name = name}

EditDevice ==
    \E v \in 1 .. MaxEdits :
        /\ Versions("edge", "device") = {[name |-> "device", v |-> w] : w \in 1 .. v - 1}
        /\ Put("edge", [name |-> "device", v |-> v])
        /\ trail' = trail + 1
        /\ UNCHANGED <<cursor, copy, progress, records, right, client, server, revocations, faults>>

HandleAlarm ==
    /\ right["edge"]
    /\ Versions("edge", "alarm") = {}
    /\ Put("edge", [name |-> "alarm", v |-> 1])
    /\ trail' = trail + 1
    /\ UNCHANGED <<cursor, copy, progress, records, right, client, server, revocations, faults>>

PublishRule ==
    \E v \in 1 .. MaxEdits :
        LET d == [name |-> "rule", v |-> v] IN
        /\ Versions("cloud", "rule") = {[name |-> "rule", v |-> w] : w \in 1 .. v - 1}
        /\ Put("cloud", d)
        /\ records' = records \cup {d}
        /\ UNCHANGED <<cursor, trail, copy, progress, right, client, server, revocations, faults>>

ChangeRight ==
    /\ revocations < MaxRevocations
    /\ revocations' = revocations + 1
    /\ right' = [right EXCEPT !["cloud"] = ~@]
    /\ UNCHANGED <<log, have, cursor, trail, copy, progress, records, client, server, edits, faults>>

-----------------------------------------------------------------------------
(* The edge sends what follows its cursors and keeps the request; the first *)
(* handler that is free works on it.                                        *)
Send(h) ==
    LET changes == After(log["edge"], cursor.up) IN
    /\ client.pc = "idle" /\ server[h].pc = "free"
    /\ \A k \in Handlers : k < h => server[k].pc # "free"
    /\ LET r == [up |-> cursor.up + Len(changes), down |-> cursor.down, changes |-> changes,
                 audit |-> <<cursor.audit, Least(trail, cursor.audit + Batch)>>] IN
       /\ client' = [Idle EXCEPT !.pc = "waiting", !.request = r, !.by = h]
       /\ server' = [server EXCEPT ![h] = [Free EXCEPT !.pc = "cursor", !.request = r]]
    /\ UNCHANGED <<log, have, cursor, trail, copy, progress, records, right, edits, revocations, faults>>

(* A handler that ends with an error; the edge learns of it if it waits.    *)
Refused(h) ==
    /\ server' = [server EXCEPT ![h] = Free]
    /\ client' = IF client.pc = "waiting" /\ client.by = h THEN Idle ELSE client

Goes(h, pc) == server' = [server EXCEPT ![h].pc = pc] /\ UNCHANGED client

(* The cursor of the edge is compared with what was offered to it; the      *)
(* record is written by another transaction than it was read.               *)
ReadProgress(h) ==
    LET c == server[h].request.down IN
    /\ server[h].pc = "cursor"
    /\ IF c > Len(log["cloud"]) \/ (progress.exists /\ c > progress.off)
       THEN Refused(h)
       ELSE IF progress.exists /\ progress.down = c
            THEN Goes(h, "import")
            ELSE /\ server' = [server EXCEPT ![h].pc = "progress", ![h].off = progress.off]
                 /\ UNCHANGED client
    /\ UNCHANGED <<log, have, cursor, trail, copy, progress, records, right, edits, revocations, faults>>

WriteProgress(h) ==
    LET c == server[h].request.down IN
    /\ server[h].pc = "progress"
    /\ progress' = [exists |-> TRUE, down |-> c, off |-> Greatest(server[h].off, c)]
    /\ Goes(h, "import")
    /\ UNCHANGED <<log, have, cursor, trail, copy, records, right, edits, revocations, faults>>

(* One transaction imports all changes; a handling of an alarm is refused,  *)
(* and all changes with it, when the person has lost the right.             *)
Permitted(site, changes) ==
    \A d \in changes \ have[site] : d.name = "alarm" => right[site]

Imported(site, changes) == [have EXCEPT ![site] = @ \cup changes]

(* A sequence of the changes in S, in the order they have in l.             *)
InOrder(l, S, new) ==
    /\ IsInjective(new) /\ ToSet(new) = S
    /\ \A i, j \in DOMAIN new : i < j =>
         \E a, b \in DOMAIN l : a < b /\ l[a] = new[i] /\ l[b] = new[j]

(* Those that the cloud has not got follow in its own log.                  *)
Import(h) ==
    LET sent == server[h].request.changes
        changes == ToSet(sent) IN
    /\ server[h].pc = "import"
    /\ IF Permitted("cloud", changes)
       THEN /\ have' = Imported("cloud", changes)
            /\ \E n \in 0 .. Len(sent) : \E new \in [1 .. n -> changes] :
                 /\ InOrder(sent, changes \ have["cloud"], new)
                 /\ log' = [log EXCEPT !["cloud"] = @ \o new]
            /\ Goes(h, "audit")
       ELSE Refused(h) /\ UNCHANGED <<have, log>>
    /\ UNCHANGED <<cursor, trail, copy, progress, records, right, edits, revocations, faults>>

(* Audit records continue the chain without a gap; known ones are compared. *)
ImportAudit(h) ==
    LET first == server[h].request.audit[1]
        last == server[h].request.audit[2] IN
    /\ server[h].pc = "audit"
    /\ IF last > first /\ first > copy
       THEN Refused(h) /\ UNCHANGED copy
       ELSE /\ copy' = IF last > first THEN Greatest(copy, last) ELSE copy
            /\ Goes(h, "changes")
    /\ UNCHANGED <<log, have, cursor, trail, progress, records, right, edits, revocations, faults>>

(* The answer: what follows the cursor of the edge, less the devices of the *)
(* edge itself, and the present permissions.                                *)
Destined(d) == d.name # "device"

Collect(h) ==
    LET r == server[h].request
        changes == After(log["cloud"], r.down) IN
    /\ server[h].pc = "changes"
    /\ server' = [server EXCEPT ![h].pc = "offer",
            ![h].answer = [down |-> r.down + Len(changes),
                           changes |-> {d \in ToSet(changes) : Destined(d)},
                           audit |-> copy, right |-> right["cloud"]]]
    /\ UNCHANGED <<log, have, cursor, trail, copy, progress, records, right, client, edits, revocations, faults>>

OfferUnrecorded(h) ==
    /\ server[h].pc = "offer"
    /\ server' = [server EXCEPT ![h] = Free]
    /\ client' = IF client.pc = "waiting" /\ client.by = h
                 THEN [client EXCEPT !.pc = "permissions", !.answer = server[h].answer]
                 ELSE client
    /\ UNCHANGED <<log, have, cursor, trail, copy, progress, records, right, edits, revocations, faults>>
Offer(h) ==
    /\ server[h].pc = "offer"
    /\ progress' = [progress EXCEPT !.off = Greatest(@, server[h].answer.down)]
    /\ server' = [server EXCEPT ![h] = Free]
    /\ client' = IF client.pc = "waiting" /\ client.by = h
                 THEN [client EXCEPT !.pc = "permissions", !.answer = server[h].answer]
                 ELSE client
    /\ UNCHANGED <<log, have, cursor, trail, copy, records, right, edits, revocations, faults>>

-----------------------------------------------------------------------------
(* The edge takes the answer in three transactions.                         *)
Backwards == client.answer.down < cursor.down \/ client.answer.audit < cursor.audit

TakePermissions ==
    /\ client.pc = "permissions"
    /\ IF Backwards
       THEN client' = Idle /\ UNCHANGED right
       ELSE /\ right' = [right EXCEPT !["edge"] = client.answer.right]
            /\ client' = [client EXCEPT !.pc = "import"]
    /\ UNCHANGED <<log, have, cursor, trail, copy, progress, records, server, edits, revocations, faults>>

ImportAnswer ==
    /\ client.pc = "import"
    /\ IF Permitted("edge", client.answer.changes)
       THEN /\ have' = Imported("edge", client.answer.changes)
            /\ client' = [client EXCEPT !.pc = "cursor"]
       ELSE client' = Idle /\ UNCHANGED have
    /\ UNCHANGED <<log, cursor, trail, copy, progress, records, right, server, edits, revocations, faults>>

SaveCursor ==
    /\ client.pc = "cursor"
    /\ cursor' = [up |-> client.request.up, down |-> client.answer.down, audit |-> client.answer.audit]
    /\ client' = Idle
    /\ UNCHANGED <<log, have, trail, copy, progress, records, right, server, edits, revocations, faults>>

(* Publication records are closed when the edge has committed the change.   *)
Place(d) == CHOOSE i \in DOMAIN log["cloud"] : log["cloud"][i] = d
ConfirmedByOffer(d) == Place(d) <= progress.off
Confirmed(d) == Place(d) <= progress.down

CompleteMetadata ==
    \E d \in records :
        /\ Confirmed(d)
        /\ records' = records \ {d}
        /\ UNCHANGED <<log, have, cursor, trail, copy, progress, right, client, server, edits, revocations, faults>>

-----------------------------------------------------------------------------
(* The edge gives a call up or restarts; a handler of the cloud fails.      *)
GiveUp ==
    /\ faults < MaxFaults /\ client.pc # "idle"
    /\ faults' = faults + 1
    /\ client' = Idle
    /\ UNCHANGED <<log, have, cursor, trail, copy, progress, records, right, server, edits, revocations>>

Fail(h) ==
    /\ faults < MaxFaults /\ server[h].pc # "free"
    /\ faults' = faults + 1
    /\ Refused(h)
    /\ UNCHANGED <<log, have, cursor, trail, copy, progress, records, right, edits, revocations>>

Handle(h) ==
    \/ ReadProgress(h) \/ WriteProgress(h) \/ Import(h) \/ ImportAudit(h) \/ Collect(h) \/ Offer(h)
Exchange == (\E h \in Handlers : Send(h)) \/ TakePermissions \/ ImportAnswer \/ SaveCursor
Step == Exchange \/ (\E h \in Handlers : Handle(h))

Next ==
    \/ Step
    \/ EditDevice \/ HandleAlarm \/ PublishRule \/ ChangeRight
    \/ CompleteMetadata
    \/ GiveUp \/ (\E h \in Handlers : Fail(h))

(* The worker of the edge calls Exchange again and again.                   *)
Fairness == WF_vars(Step)
Spec == Init /\ [][Next]_vars /\ Fairness
-----------------------------------------------------------------------------
Names == {"device", "alarm", "rule"}
TypeOK ==
    /\ \A s \in Sites : have[s] \subseteq [name : Names, v : 1 .. MaxEdits]
    /\ \A s \in Sites : IsInjective(log[s]) /\ ToSet(log[s]) \subseteq have[s]
    /\ cursor.up <= Len(log["edge"]) /\ cursor.down <= Len(log["cloud"])
    /\ client.pc \in {"idle", "waiting", "permissions", "import", "cursor"}
    /\ \A h \in Handlers :
         server[h].pc \in {"free", "cursor", "progress", "import", "audit", "changes", "offer"}
    /\ records \subseteq have["cloud"]

(* A cursor passes only what the other side has committed: changes of both  *)
(* directions and audit records up to the saved cursors are in the other    *)
(* database, and a publication record is closed only when the edge has the  *)
(* rule (Client.Exchange, acknowledgeCursor, CompleteMetadata).             *)
NothingSkipped ==
    /\ \A i \in 1 .. cursor.up : log["edge"][i] \in have["cloud"]
    /\ \A i \in 1 .. cursor.down : Destined(log["cloud"][i]) => log["cloud"][i] \in have["edge"]
    /\ cursor.audit <= copy /\ copy <= trail
    /\ \A d \in Versions("cloud", "rule") : d \in records \/ d \in have["edge"]

(* The right of the person is gone while a handling of an alarm is on its   *)
(* way: the cloud refuses it, and with it all changes of every exchange.    *)
HeldByRight == ~right["cloud"] /\ \E d \in have["edge"] \ have["cloud"] : d.name = "alarm"

(* A call that was given up wrote its note of the cursor after a later one, *)
(* and the edge is taken for one that acknowledges what it was not offered. *)
HonestNodeRefused == progress.exists /\ cursor.down > progress.off

(* What is in a log and destined to the other side reaches it, unless one   *)
(* of these two holds: then no exchange succeeds any more.                  *)
Waiting(v) ==
    \/ \E d \in have["edge"] \ have["cloud"] : d.v = v
    \/ \E d \in have["cloud"] \ have["edge"] : d.v = v /\ Destined(d)
Exchanged(v) == ~Waiting(v) \/ HeldByRight \/ HonestNodeRefused
Converges == \A v \in 1 .. MaxEdits : Waiting(v) ~> Exchanged(v)
=============================================================================
