--------------------------- MODULE DocumentPages ---------------------------
(***************************************************************************)
(* Pages of definitions, drafts or catalogue entries for the assistant     *)
(* (application/investigations.go, Documents): candidates are listed in    *)
(* the order of their identities, at most a budget of them, and each is    *)
(* then read with its rights and what it depends on; a page ends with a    *)
(* continuation that names the last one looked at.  Between the steps      *)
(* documents are made, changed and deleted, and rights come and go.        *)
(***************************************************************************)
EXTENDS Naturals, Sequences, FiniteSets, FiniteSetsExt

CONSTANTS
    Documents,      \* identities, natural numbers in their order
    Wanted,         \* documents of the kind that is asked for
    Limit,          \* items of a page
    ScanBudget,     \* candidates of a page
    MaxChanges,     \* bound: changes of documents and rights
    None

VARIABLES
    version,        \* of each document, 0 when there is none
    readable,       \* documents that may be read, with what they depend on
    changes,
    page,           \* the page under way
    cursor,         \* of the client: after which document it goes on
    got,            \* documents the client has got
    steady          \* wanted documents there, unchanged, since the first page

vars == <<version, readable, changes, page, cursor, got, steady>>

PageConstants ==
    /\ Documents \subseteq Nat \ {0} /\ IsFiniteSet(Documents) /\ None \notin Documents \cup {0}
    /\ Limit \in Nat \ {0} /\ ScanBudget \in Nat \ {0}

TypeOK ==
    /\ version \in [Documents -> 0..MaxChanges + 1]
    /\ readable \subseteq Documents /\ changes \in 0..MaxChanges
    /\ page = None \/ (page.found \subseteq Documents /\ page.items \subseteq Documents
                       /\ Cardinality(page.found) <= ScanBudget + 1)
    /\ cursor \in {None, 0} \cup Documents
    /\ got \subseteq Documents /\ steady \subseteq Wanted

Present == {d \in Documents : version[d] > 0}

Init ==
    /\ \E there \in SUBSET Documents :
           version = [d \in Documents |-> IF d \in there THEN 1 ELSE 0]
    /\ readable \in SUBSET Documents
    /\ changes = 0
    /\ page = None /\ cursor = 0 /\ got = {}
    /\ steady = Wanted \cap Present \cap readable

(* The first ScanBudget + 1 documents after the continuation.              *)
AIDocuments(after) ==
    {d \in Present : d > after /\
        Cardinality({e \in Present : after < e /\ e < d}) <= ScanBudget}

Begin ==
    /\ page = None /\ cursor # None
    /\ page' = [found |-> AIDocuments(cursor), version |-> version, at |-> cursor,
                last |-> cursor, items |-> {}]
    /\ UNCHANGED <<version, readable, changes, cursor, got, steady>>

Ahead == {d \in page.found : d > page.at}
Scanned == Cardinality(page.found \ Ahead)

(* The page ends: items and a continuation, or the end of the list.        *)
Answer(p, more) ==
    /\ got' = got \cup p.items
    /\ cursor' = IF more THEN p.last ELSE None
    /\ page' = None

(* The rights to a document, its resources and all that it depends on.      *)
DefinitionEvidence(d) == d \in readable

(* A candidate is left out when it, or what it depends on, may not be read  *)
(* or is gone, and fails the page when it has changed since it was listed.  *)
ReadAIDocument(d) ==
    CASE ~DefinitionEvidence(d) -> "denied"
      [] DefinitionEvidence(d) /\ version[d] # page.version[d] -> "conflict"
      [] OTHER -> "read"

Read ==
    /\ page # None /\ Ahead # {} /\ Scanned < ScanBudget
    /\ LET d == Min(Ahead)
           p == [page EXCEPT !.at = d, !.last = d]
           q == [p EXCEPT !.items = @ \cup {d}]
       IN  CASE d \notin Wanted \/ ReadAIDocument(d) = "denied" ->
                    page' = p /\ UNCHANGED <<cursor, got>>
             [] d \in Wanted /\ ReadAIDocument(d) = "conflict" ->
                    page' = None /\ UNCHANGED <<cursor, got>>
             [] OTHER ->
                    IF Cardinality(q.items) = Limit THEN Answer(q, Ahead # {d})
                    ELSE page' = q /\ UNCHANGED <<cursor, got>>
    /\ UNCHANGED <<version, readable, changes, steady>>

Exhausted ==
    /\ page # None /\ Ahead # {} /\ Scanned = ScanBudget
    /\ Answer(page, TRUE)
    /\ UNCHANGED <<version, readable, changes, steady>>

AllRead ==
    /\ page # None /\ Ahead = {}
    /\ Answer(page, FALSE)
    /\ UNCHANGED <<version, readable, changes, steady>>

(* A document is made or changed, or deleted; a right comes or goes.       *)
Change(d) ==
    /\ changes < MaxChanges
    /\ changes' = changes + 1
    /\ steady' = steady \ {d}
    /\ \/ version' = [version EXCEPT ![d] = @ + 1] /\ UNCHANGED readable
       \/ version[d] > 0 /\ version' = [version EXCEPT ![d] = 0] /\ UNCHANGED readable
       \/ /\ readable' = IF d \in readable THEN readable \ {d} ELSE readable \cup {d}
          /\ UNCHANGED version
    /\ UNCHANGED <<page, cursor, got>>

Next == Begin \/ Read \/ Exhausted \/ AllRead \/ \E d \in Documents : Change(d)

(* A client that follows the continuations to the end gets every document  *)
(* of the kind that was there, unchanged and readable, all the while.      *)
PagesComplete == cursor = None => steady \subseteq got

(* Each page goes on behind the one before, so the pages come to an end.   *)
PagesGoOn == cursor' # cursor => cursor' = None \/ cursor' > cursor
=============================================================================
