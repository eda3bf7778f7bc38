------------------------------- MODULE Archive -------------------------------
(***************************************************************************)
(* One series of observations, hot rows and compressed blocks.  A point is *)
(* a pair of an observation time and a revision; a later revision of a     *)
(* time is a row of its own.  The archiver prepares a block outside any    *)
(* transaction and retires its rows in one; the retention replaces blocks  *)
(* the same way; a query reads the hot rows and then the blocks.           *)
(***************************************************************************)
EXTENDS Naturals, FiniteSets

CONSTANTS
    Times,          \* 1 .. N
    Revisions,      \* 1 .. R
    BlockPoints,    \* points of a block
    Limit,          \* points a query asks for
    MaxPoints       \* bound: points stored at a time

ArchiveConstants ==
    /\ Times \subseteq Nat /\ IsFiniteSet(Times)
    /\ Revisions \subseteq Nat /\ IsFiniteSet(Revisions)
    /\ Limit \in Nat

VARIABLES
    hot,            \* table observations
    blocks,         \* table observation_archives: the contents of each block
    cut,            \* now - HotHours: older points may be archived
    raw,            \* now - RawDays: older points are past their retention
    candidate,      \* ArchiveObservations: the block prepared
    expiry,         \* ApplyRetention
    query           \* Store.Query

vars == <<hot, blocks, cut, raw, candidate, expiry, query>>

NoCandidate == [pc |-> "idle", rows |-> {}, previous |-> FALSE]
NoExpiry == [pc |-> "idle", raw |-> 0, block |-> {}, keep |-> {}]
NoQuery == [pc |-> "idle", points |-> {}, blocks |-> {}, before |-> {}]

Time(p) == p[1]
Archived == UNION blocks
Points == hot \cup Archived
Known(t) == {p \in Points : Time(p) = t}

FirstTime(S) == CHOOSE t \in {Time(p) : p \in S} : \A p \in S : t <= Time(p)
LastTime(S) == CHOOSE t \in {Time(p) : p \in S} : \A p \in S : t >= Time(p)

-----------------------------------------------------------------------------
(* InsertPoint: a reading, or the next revision of a derived value, at any  *)
(* time that is not past the retention.                                     *)
Insert(t) ==
    LET r == Cardinality(Known(t)) + 1
    IN  /\ t > raw /\ r \in Revisions /\ Cardinality(Points) < MaxPoints
        /\ hot' = hot \cup {<<t, r>>}
        /\ UNCHANGED <<blocks, cut, raw, candidate, expiry, query>>

(* Fault: a block takes every row.                                          *)
Unbounded(S) == S

(* prepareArchive: the oldest rows before the cut.                          *)
Bounded(S) ==
    LET older(p) == {q \in S : Time(q) < Time(p) \/ (Time(q) = Time(p) /\ q[2] < p[2])}
    IN  {p \in S : Cardinality(older(p)) < BlockPoints}
Prepare ==
    LET cold == {p \in hot : Time(p) < cut}
        rows == Bounded(cold)
    IN  /\ candidate.pc = "idle" /\ rows # {}
        /\ candidate' = [pc |-> "commit", rows |-> rows, previous |-> rows \in blocks]
        /\ UNCHANGED <<hot, blocks, cut, raw, expiry, query>>

(* Faults: the rows are deleted by their time and not one by one; the       *)
(* later revision of a row is left behind.                                  *)
RetireOlder(rows) == {p \in hot : Time(p) > LastTime(rows)}
RetireFirst(rows) == hot \ {p \in rows : p[2] = 1}

Retired(rows) == hot \ rows

(* checkArchive, and every row as it was when the block was made.           *)
Unchanged(c) == c.rows \subseteq hot /\ (c.rows \in blocks <=> c.previous)

(* commitArchive                                                            *)
Commit ==
    /\ candidate.pc = "commit"
    /\ IF Unchanged(candidate)
       THEN hot' = Retired(candidate.rows) /\ blocks' = blocks \cup {candidate.rows}
       ELSE UNCHANGED <<hot, blocks>>
    /\ candidate' = NoCandidate
    /\ UNCHANGED <<cut, raw, expiry, query>>

-----------------------------------------------------------------------------
(* ApplyRetention takes its cut once.                                       *)
BeginRetention ==
    /\ expiry.pc = "idle" /\ raw > 0
    /\ expiry' = [NoExpiry EXCEPT !.pc = "blocks", !.raw = raw]
    /\ UNCHANGED <<hot, blocks, cut, raw, candidate, query>>

(* expireArchives: the block with the oldest point, *)
PrepareExpiry ==
    /\ expiry.pc = "blocks"
    /\ LET old == {b \in blocks : FirstTime(b) <= expiry.raw}
           b == CHOOSE x \in old : \A y \in old : FirstTime(x) <= FirstTime(y)
       IN  expiry' = IF old = {} THEN [expiry EXCEPT !.pc = "rows"]
                     ELSE [expiry EXCEPT !.pc = "replace", !.block = b,
                                         !.keep = {p \in b : Time(p) > expiry.raw}]
    /\ UNCHANGED <<hot, blocks, cut, raw, candidate, query>>

(* Fault: a block is deleted whose replacement is not written.              *)
WithoutKept(e) == blocks \ {e.block}

Replaced(e) == (blocks \ {e.block}) \cup (IF e.keep = {} THEN {} ELSE {e.keep})

(* and its replacement, in one transaction.                                 *)
ReplaceBlock ==
    /\ expiry.pc = "replace"
    /\ IF expiry.block \in blocks /\ expiry.keep \notin blocks
       THEN blocks' = Replaced(expiry) /\ expiry' = [expiry EXCEPT !.pc = "blocks"]
       ELSE expiry' = NoExpiry /\ UNCHANGED blocks
    /\ UNCHANGED <<hot, cut, raw, candidate, query>>
ExpireRows ==
    /\ expiry.pc = "rows"
    /\ hot' = {p \in hot : Time(p) > expiry.raw}
    /\ expiry' = NoExpiry
    /\ UNCHANGED <<blocks, cut, raw, candidate, query>>

-----------------------------------------------------------------------------
(* The newest revision of every time, and the newest of these.              *)
Merged(S) == {p \in S : ~\E q \in S : Time(q) = Time(p) /\ q[2] > p[2]}
Newest(S, n) == {p \in S : Cardinality({q \in S : Time(q) > Time(p)}) < n}
Page(S) == Newest(Merged(S), Limit + 1)

(* Query: the hot rows.                                                     *)
QueryHot ==
    /\ query.pc = "idle"
    /\ query' = [NoQuery EXCEPT !.pc = "archive", !.points = Page(hot), !.before = Page(Points)]
    /\ UNCHANGED <<hot, blocks, cut, raw, candidate, expiry>>

(* Fault: a block that ends before the page is full is taken to end it.     *)
StopEarly(points, b) == points # {} /\ LastTime(b) < FirstTime(points)

(* A block that can no longer contribute ends the search.                   *)
Irrelevant(points, b) == Cardinality(points) > Limit /\ LastTime(b) < FirstTime(points)

(* archiveQuery: one statement returns the blocks; they are read one by     *)
(* one, those that end last first.                                          *)
ReadBlock(left, b) ==
    LET rest == IF Irrelevant(query.points, b) THEN {} ELSE left \ {b}
    IN  query' = [query EXCEPT !.pc = IF rest = {} THEN "done" ELSE "blocks", !.blocks = rest,
            !.points = IF Irrelevant(@, b) THEN @ ELSE Page(@ \cup b)]
ReadFrom(left) ==
    \/ left = {} /\ query' = [query EXCEPT !.pc = "done"]
    \/ \E b \in left : (\A c \in left : LastTime(b) >= LastTime(c)) /\ ReadBlock(left, b)
QueryArchive ==
    /\ \/ query.pc = "archive" /\ ReadFrom(blocks)
       \/ query.pc = "blocks" /\ ReadFrom(query.blocks)
    /\ UNCHANGED <<hot, blocks, cut, raw, candidate, expiry>>
QueryDone ==
    /\ query.pc = "done" /\ query' = NoQuery
    /\ UNCHANGED <<hot, blocks, cut, raw, candidate, expiry>>

-----------------------------------------------------------------------------
(* Time passes; an archiver or a retention run is interrupted.              *)
Cool ==
    /\ cut <= Cardinality(Times) /\ cut' = cut + 1
    /\ UNCHANGED <<hot, blocks, raw, candidate, expiry, query>>
Expire ==
    /\ raw < Cardinality(Times) /\ raw' = raw + 1
    /\ UNCHANGED <<hot, blocks, cut, candidate, expiry, query>>
Interrupt ==
    /\ candidate.pc # "idle" \/ expiry.pc # "idle"
    /\ candidate' = NoCandidate /\ expiry' = NoExpiry
    /\ UNCHANGED <<hot, blocks, cut, raw, query>>

Init ==
    /\ hot = {} /\ blocks = {}
    /\ cut = 1 /\ raw = 0
    /\ candidate = NoCandidate /\ expiry = NoExpiry /\ query = NoQuery

ArchiverStep == Prepare \/ Commit
RetentionStep == PrepareExpiry \/ ReplaceBlock \/ ExpireRows
QueryStep == QueryHot \/ QueryArchive \/ QueryDone

Next ==
    \/ \E t \in Times : Insert(t)
    \/ ArchiverStep \/ BeginRetention \/ RetentionStep \/ QueryStep
    \/ Cool \/ Expire \/ Interrupt

Spec == Init /\ [][Next]_vars

-----------------------------------------------------------------------------
TypeOK ==
    /\ hot \subseteq Times \X Revisions
    /\ \A b \in blocks : b # {} /\ b \subseteq Times \X Revisions
                         /\ Cardinality(b) <= BlockPoints
    /\ Cardinality(query.points) <= Limit + 1

(* Every point is in one place only, a hot row or one block: the archiver   *)
(* and the retention never leave a copy behind (commitArchive and           *)
(* expireArchives, each one transaction on what was prepared before).       *)
OnePlace ==
    /\ hot \cap Archived = {}
    /\ \A a, b \in blocks : a # b => a \cap b = {}

(* No point within its retention disappears, whatever was inserted while a  *)
(* block was being prepared.                                                *)
Keeps == \A p \in Points : Time(p) > raw' => p \in Points'
KeptWhileRetained == [][Keeps]_vars

(* A query misses no point that was stored before it began, unless newer    *)
(* ones fill its page or it expires: the points move between the two reads. *)
QueryMissesNothing ==
    query.pc = "done" =>
        \A p \in query.before :
            \/ \E q \in query.points : Time(q) = Time(p) /\ q[2] >= p[2]
            \/ Time(p) <= raw
            \/ Cardinality({q \in query.points : Time(q) > Time(p)}) > Limit
=============================================================================
