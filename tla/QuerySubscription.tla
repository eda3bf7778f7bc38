------------------------- MODULE QuerySubscription -------------------------
(***************************************************************************)
(* Queries of the platform and their subscriptions: the projection that    *)
(* every commit keeps (store/query_projection.go), a page read at a        *)
(* sequence of it (store/query_read.go), and the groups of subscribers     *)
(* that one loop keeps up to date with snapshots, differences and resets   *)
(* (application/queries.go).                                               *)
(*                                                                         *)
(* One query of one user whose grants change.  A group is known by the     *)
(* authorization revision its access was computed under.                   *)
(***************************************************************************)
EXTENDS Naturals, Sequences, FiniteSets

CONSTANTS
    Rows,           \* identities of rows
    Clients,
    Retain,         \* QueryHistoryCommits
    Limit,          \* commits that the loop reads at once
    Room,           \* events waiting for a subscriber
    MaxCommits, MaxFaults,  \* bounds
    None            \* a model value

(* A list of commits that misses the compacted ones is long enough to be    *)
(* taken as a change.                                                       *)
QueryConstants == Retain >= Limit /\ Limit > 0 /\ Room > 0

VARIABLES
    log,        \* per commit the content of each row and the rows permitted
    state,      \* sf_query_state
    rows,       \* sf_query_rows
    commits,    \* sf_query_commits
    groups,     \* the group of each authorization revision
    poll,       \* the loop of runQueries
    client,
    faults

vars == <<log, state, rows, commits, groups, poll, client, faults>>
database == <<log, state, rows, commits>>

Head0 == Len(log)
Revisions == 0 .. MaxCommits
Empty == [i \in Rows |-> [revision |-> 0, content |-> 0]]
NoView == [i \in Rows |-> 0]
NoPoll == [pc |-> "idle", todo |-> {}, item |-> None, head |-> 0, floor |-> 0, epoch |-> 0,
           commits |-> {}, key |-> 0, page |-> Empty, failed |-> FALSE]
NewClient == [pc |-> "off", view |-> NoView, cursor |-> None, auth |-> 0,
              before |-> None, queue |-> <<>>]

TypeOK ==
    /\ log \in Seq([content : [Rows -> Revisions], may : SUBSET Rows])
    /\ Head0 \in 1 .. MaxCommits
    /\ state \in [floor : Revisions, epoch : Revisions, auth : Revisions]
    /\ \A r \in rows : r.from \in 1 .. Head0 /\ r.to \in 0 .. Head0
    /\ \A c \in commits : c.sequence \in state.floor .. Head0
    /\ \A a \in Revisions : groups[a] = None \/ groups[a].sequence \in 0 .. Head0
    /\ poll.pc \in {"idle", "state", "commits", "groups", "page", "send"}
    /\ \A c \in Clients : client[c].pc \in {"off", "attach", "on"}
                          /\ Len(client[c].queue) <= Room
    /\ faults \in 0 .. MaxFaults

Init ==
    /\ log = <<[content |-> [i \in Rows |-> 1], may |-> Rows]>>
    /\ state = [floor |-> 0, epoch |-> 0, auth |-> 1]
    /\ rows = {[id |-> i, from |-> 1, to |-> 0, deleted |-> FALSE, content |-> 1] : i \in Rows}
    /\ commits = {[sequence |-> 1, kind |-> "authorization"]}
    /\ groups = [a \in Revisions |-> None] /\ poll = NoPoll
    /\ client = [c \in Clients |-> NewClient] /\ faults = 0

-----------------------------------------------------------------------------
(* Transactions.                                                            *)

Content == log[Head0].content
May == log[Head0].may

(* writeQueryRecord: the valid row ends and the new one begins.             *)
Written(i, head, deleted) ==
    {IF r.id = i /\ r.to = 0 THEN [r EXCEPT !.to = head] ELSE r : r \in rows}
    \cup {[id |-> i, from |-> head, to |-> 0, deleted |-> deleted, content |-> head]}

(* finalizeQueries: a changed row, one of another kind, or a grant.         *)
Commit(content, may, kind) ==
    /\ Head0 < MaxCommits
    /\ log' = Append(log, [content |-> content, may |-> may])
    /\ commits' = commits \cup {[sequence |-> Head0 + 1, kind |-> kind]}
    /\ UNCHANGED <<groups, poll, client, faults>>
Upsert(i) ==
    /\ Commit([Content EXCEPT ![i] = Head0 + 1], May, "entities")
    /\ rows' = Written(i, Head0 + 1, FALSE) /\ UNCHANGED state
Delete(i) ==
    /\ Content[i] # 0
    /\ Commit([Content EXCEPT ![i] = 0], May, "entities")
    /\ rows' = Written(i, Head0 + 1, TRUE) /\ UNCHANGED state
Other == Commit(Content, May, "alarms") /\ UNCHANGED <<rows, state>>
Grant(i) ==
    /\ Commit(Content, IF i \in May THEN May \ {i} ELSE May \cup {i}, "authorization")
    /\ state' = [state EXCEPT !.auth = Head0 + 1] /\ UNCHANGED rows

(* RebuildQueryProjection: a new generation of rows and no history.         *)
Regenerated == {[id |-> i, from |-> Head0 + 1, to |-> 0, deleted |-> FALSE,
                 content |-> Content[i]] : i \in {j \in Rows : Content[j] # 0}}
Rebuild ==
    /\ Head0 < MaxCommits /\ faults < MaxFaults /\ faults' = faults + 1
    /\ log' = Append(log, log[Head0])
    /\ rows' = Regenerated
    /\ commits' = {[sequence |-> Head0 + 1, kind |-> "rebuild"]}
    /\ state' = [floor |-> Head0 + 1, epoch |-> state.epoch + 1, auth |-> Head0 + 1]
    /\ UNCHANGED <<groups, poll, client>>

(* CompactQueryHistory: the state at the new floor and all that follows.    *)
Floor == IF Head0 > Retain THEN Head0 - Retain ELSE 0
Gone(r, floor) == IF r.to > 0 THEN r.to <= floor ELSE r.deleted /\ r.from <= floor
Compact ==
    /\ Floor > state.floor
    /\ rows' = {r \in rows : ~Gone(r, Floor)}
    /\ commits' = {c \in commits : c.sequence > Floor}
    /\ state' = [state EXCEPT !.floor = Floor]
    /\ UNCHANGED <<log, groups, poll, client, faults>>

-----------------------------------------------------------------------------
(* QueryPage: the rows valid at a sequence, as far as they are permitted    *)
(* now.  It is refused for another generation, a compacted sequence or      *)
(* another authorization revision.                                          *)
Valid(r, sequence) == ~r.deleted /\ r.from <= sequence /\ (r.to = 0 \/ r.to > sequence)
Scanned(r) == [revision |-> r.from, content |-> r.content]
PageAt(sequence) == [i \in Rows |->
    IF i \in May /\ \E r \in rows : r.id = i /\ Valid(r, sequence)
    THEN Scanned(CHOOSE r \in rows : r.id = i /\ Valid(r, sequence))
    ELSE Empty[i]]
Readable(epoch, sequence, auth) ==
    epoch = state.epoch /\ sequence >= state.floor /\ auth = state.auth

(* queryDelta, by the revisions of the rows.                                *)
Delta(before, after, sequence, epoch, auth) ==
    [type |-> "delta", epoch |-> epoch, sequence |-> sequence, auth |-> auth,
     upsert |-> {[id |-> i, content |-> after[i].content] :
                    i \in {j \in Rows : after[j].revision \notin {0, before[j].revision}}},
     remove |-> {i \in Rows : before[i].revision # 0 /\ after[i].revision = 0}]
Snapshot(page, sequence, epoch, auth) ==
    [Delta(Empty, page, sequence, epoch, auth) EXCEPT !.type = "snapshot"]
Reset == [type |-> "reset", epoch |-> 0, sequence |-> 0, auth |-> 0,
          upsert |-> {}, remove |-> {}]

(* sendQuery: a subscriber that does not read has its events replaced by a  *)
(* reset, which also ends the subscription.                                 *)
Attached(key) == {c \in Clients : client[c].pc = "on" /\ client[c].auth = key
                                  /\ groups[key] # None /\ c \in groups[key].subs}
Slow(c) == Len(client[c].queue) = Room
Deliver(event, key, table) == [c \in Clients |->
    IF c \notin Attached(key) THEN table[c]
    ELSE [table[c] EXCEPT !.queue = IF Slow(c) THEN <<Reset>> ELSE Append(@, event)]]
Kept(key) == {c \in Attached(key) : ~Slow(c)}
(* A group without subscribers is removed; the loop no longer knows it.     *)
WithSubs(group, subs) == IF subs = {} THEN None ELSE [group EXCEPT !.subs = subs]
Forget(key, p) ==
    IF p.pc \in {"page", "send"} /\ p.key = key THEN [p EXCEPT !.pc = "groups", !.key = 0,
                                                      !.todo = @ \ {key}, !.page = Empty,
                                                      !.failed = FALSE]
    ELSE [p EXCEPT !.todo = @ \ {key}]
Closed(key) ==
    /\ client' = [c \in Clients |-> IF c \in Attached(key)
                  THEN [client[c] EXCEPT !.queue = IF Slow(c) THEN <<Reset>> ELSE Append(@, Reset)]
                  ELSE client[c]]
    /\ groups' = [groups EXCEPT ![key] = None]

-----------------------------------------------------------------------------
(* A client.                                                                *)

Cleared(c) == client' = [client EXCEPT ![c] = NewClient]

(* Queries.Page: the first page and its cursor.                             *)
Visible(page) == [i \in Rows |-> page[i].content]
DirectPage(c) ==
    /\ client[c].pc = "off" /\ client[c].cursor = None
    /\ client' = [client EXCEPT ![c].view = Visible(PageAt(Head0)),
            ![c].cursor = [epoch |-> state.epoch, sequence |-> Head0, auth |-> state.auth]]
    /\ UNCHANGED <<database, groups, poll, faults>>

(* Subscribe, the access and the page at the cursor to resume from.         *)
Access == state.auth
Subscribe(c) ==
    /\ client[c].pc = "off"
    /\ LET k == client[c].cursor IN
       IF k # None /\ (k.auth # Access \/ ~Readable(k.epoch, k.sequence, k.auth))
       THEN Cleared(c)
       ELSE client' = [client EXCEPT ![c].pc = "attach", ![c].auth = Access,
                ![c].before = IF k = None THEN None ELSE PageAt(k.sequence)]
    /\ UNCHANGED <<database, groups, poll, faults>>

(* Subscribe, under the lock: the group of the access, read again when the  *)
(* cursor is ahead of it.                                                   *)
Read(c) == [epoch |-> state.epoch, sequence |-> Head0, page |-> PageAt(Head0), subs |-> {}]
Joined(c, group, changed) ==
    LET key == client[c].auth
        event == IF client[c].before = None
                 THEN Snapshot(group.page, group.sequence, group.epoch, key)
                 ELSE Delta(client[c].before, group.page, group.sequence, group.epoch, key)
    IN  /\ groups' = [groups EXCEPT ![key] = [group EXCEPT !.subs =
                        {c} \cup IF changed THEN Kept(key) ELSE Attached(key)]]
        /\ client' = [(IF changed
                       THEN Deliver(Delta(groups[key].page, group.page, group.sequence,
                                          group.epoch, key), key, client)
                       ELSE client)
                      EXCEPT ![c].pc = "on", ![c].queue = <<event>>, ![c].before = None]
Attach(c) ==
    /\ client[c].pc = "attach"
    /\ LET key == client[c].auth
           k == client[c].cursor
           known == groups[key] # None
           ahead == k # None /\ known /\ k.sequence > groups[key].sequence
       IN  \/ /\ known /\ ~ahead /\ Joined(c, groups[key], FALSE)
           \/ /\ ~known /\ key = state.auth /\ Joined(c, Read(c), FALSE)
           \/ /\ ahead /\ key = state.auth /\ Joined(c, Read(c), TRUE)
           \/ /\ (~known \/ ahead) /\ key # state.auth
              /\ client' = [client EXCEPT ![c].pc = "off", ![c].auth = 0, ![c].before = None]
              /\ UNCHANGED groups
    /\ UNCHANGED <<database, poll, faults>>

(* The client applies the events in their order and keeps the cursor.       *)
Applied(view, event) == [i \in Rows |->
    IF \E u \in event.upsert : u.id = i
    THEN (CHOOSE u \in event.upsert : u.id = i).content
    ELSE IF event.type = "snapshot" \/ i \in event.remove THEN 0 ELSE view[i]]
Receive(c) ==
    /\ client[c].pc = "on" /\ client[c].queue # <<>>
    /\ LET event == Head(client[c].queue) IN
       IF event.type = "reset" THEN Cleared(c)
       ELSE client' = [client EXCEPT ![c].queue = Tail(@), ![c].view = Applied(@, event),
                ![c].cursor = [epoch |-> event.epoch, sequence |-> event.sequence,
                               auth |-> event.auth]]
    /\ UNCHANGED <<database, groups, poll, faults>>

Off(c, table) == [table EXCEPT ![c].pc = "off", ![c].queue = <<>>, ![c].auth = 0,
                               ![c].before = None]
(* The connection ends, or the process: what was not received is lost.      *)
Leave(c) ==
    /\ client[c].pc = "on" /\ faults < MaxFaults /\ faults' = faults + 1
    /\ client' = Off(c, client)
    /\ LET key == client[c].auth
           last == c \in Attached(key) /\ Attached(key) = {c}
       IN  /\ groups' = IF c \in Attached(key)
                        THEN [groups EXCEPT ![key] = WithSubs(@, Attached(key) \ {c})]
                        ELSE groups
           /\ poll' = IF last THEN Forget(key, poll) ELSE poll
    /\ UNCHANGED database
Restart ==
    /\ faults < MaxFaults /\ faults' = faults + 1
    /\ groups' = [a \in Revisions |-> None] /\ poll' = NoPoll
    /\ client' = [c \in Clients |-> Off(c, client)[c]]
    /\ UNCHANGED database

-----------------------------------------------------------------------------
(* runQueries.                                                              *)

Present == {a \in Revisions : groups[a] # None}
(* The groups as they are now, and the lowest of their positions.           *)
Poll ==
    /\ poll.pc = "idle" /\ Present # {}
    /\ poll' = [NoPoll EXCEPT !.pc = "state", !.todo = Present, !.item = groups]
    /\ UNCHANGED <<database, groups, client, faults>>
PollState ==
    /\ poll.pc = "state"
    /\ poll' = [poll EXCEPT !.pc = "commits", !.head = Head0, !.floor = state.floor,
                            !.epoch = state.epoch]
    /\ UNCHANGED <<database, groups, client, faults>>
After == {poll.item[a].sequence : a \in {b \in Revisions : poll.item[b] # None}}
Listed ==
    LET later == {c \in commits : \E s \in After : c.sequence > s}
    IN  {c \in later : Cardinality({d \in later : d.sequence < c.sequence}) < Limit}
PollCommits ==
    /\ poll.pc = "commits"
    /\ poll' = [poll EXCEPT !.pc = "groups", !.commits = Listed]
    /\ UNCHANGED <<database, groups, client, faults>>

(* A group, its access computed again: another revision, another generation *)
(* or a compacted position ends its subscriptions.                          *)
Ended(key) ==
    \/ state.auth # key
    \/ poll.item[key].epoch # poll.epoch
    \/ poll.item[key].sequence < poll.floor
Affected(key) ==
    \/ Cardinality(poll.commits) >= Limit
    \/ \E c \in poll.commits : c.sequence > poll.item[key].sequence
                               /\ c.kind \in {"entities", "rebuild", "authorization"}
PollGroup(key) ==
    /\ poll.pc = "groups" /\ key \in poll.todo
    /\ \/ /\ Ended(key) /\ Closed(key)
          /\ poll' = [poll EXCEPT !.todo = @ \ {key}]
       \/ /\ ~Ended(key) /\ poll.head <= poll.item[key].sequence
          /\ poll' = [poll EXCEPT !.todo = @ \ {key}] /\ UNCHANGED <<groups, client>>
       \/ /\ ~Ended(key) /\ poll.head > poll.item[key].sequence
          /\ poll' = [poll EXCEPT !.key = key, !.page = poll.item[key].page,
                        !.pc = IF Affected(key) THEN "page" ELSE "send"]
          /\ UNCHANGED <<groups, client>>
    /\ UNCHANGED <<database, faults>>
PollPage ==
    /\ poll.pc = "page"
    /\ poll' = IF Readable(poll.epoch, poll.head, poll.key)
               THEN [poll EXCEPT !.pc = "send", !.page = PageAt(poll.head)]
               ELSE [poll EXCEPT !.pc = "send", !.failed = TRUE]
    /\ UNCHANGED <<database, groups, client, faults>>
(* Under the lock: a group that went ahead meanwhile keeps its page.        *)
PollSend ==
    /\ poll.pc = "send"
    /\ poll' = [poll EXCEPT !.pc = "groups", !.todo = @ \ {poll.key}, !.key = 0,
                            !.page = Empty, !.failed = FALSE]
    /\ LET g == groups[poll.key] IN
       IF poll.head < g.sequence THEN UNCHANGED <<groups, client>>
       ELSE IF poll.failed THEN Closed(poll.key)
       ELSE /\ client' = Deliver(Delta(g.page, poll.page, poll.head, poll.epoch, poll.key),
                                 poll.key, client)
            /\ groups' = [groups EXCEPT ![poll.key] =
                    WithSubs([g EXCEPT !.page = poll.page, !.sequence = poll.head,
                                       !.epoch = poll.epoch], Kept(poll.key))]
    /\ UNCHANGED <<database, faults>>
PollEnd ==
    /\ poll.pc = "groups" /\ poll.todo = {}
    /\ poll' = NoPoll
    /\ UNCHANGED <<database, groups, client, faults>>

Loop == Poll \/ PollState \/ PollCommits \/ PollPage \/ PollSend \/ PollEnd
        \/ \E a \in Revisions : PollGroup(a)
ClientStep(c) == Subscribe(c) \/ Attach(c) \/ Receive(c)
Next ==
    \/ \E i \in Rows : Upsert(i) \/ Delete(i) \/ Grant(i)
    \/ Other \/ Rebuild \/ Compact \/ Loop \/ Restart
    \/ \E c \in Clients : ClientStep(c) \/ DirectPage(c) \/ Leave(c)
-----------------------------------------------------------------------------
(* A client shows what was stored, and permitted to it, at its cursor:      *)
(* whatever it missed, joined, resumed or was reset between.                *)
ShowsItsCursor == \A c \in Clients : client[c].cursor # None =>
    LET at == log[client[c].cursor.sequence] IN
    client[c].view = [i \in Rows |-> IF i \in at.may THEN at.content[i] ELSE 0]

(* The cursor of a client goes back only by a reset.                        *)
CursorsAdvance == \A c \in Clients :
    client[c].cursor # None /\ client'[c].cursor # None
    => client'[c].cursor.sequence >= client[c].cursor.sequence

(* A client shows less than what is stored.                                 *)
Behind(c) == client[c].cursor = None \/ client[c].cursor.sequence < Head0
=============================================================================
