------------------------ MODULE DefinitionPublishing ------------------------
(***************************************************************************)
(* Definitions of rules in the cloud and at an edge: drafts are saved and  *)
(* published, definitions deactivated (application/definitions.go,         *)
(* engine/definitions.go), batches of drafts are made from templates       *)
(* (application/templates.go), and each published version is prepared for  *)
(* execution with its dependencies, in the cloud when it is published or   *)
(* the platform starts, at the edge when it is imported (compiledplan).    *)
(* An operation reads, checks what it read, and commits in a transaction   *)
(* that compares the versions read.                                        *)
(***************************************************************************)
EXTENDS Naturals, Sequences, FiniteSets, FiniteSetsExt

CONSTANTS
    Definitions,
    Name,           \* Name[d]: the name of the definition, within its group
    Legacy,         \* definitions of an older release, without a plan of their own
    LegacyDeps,     \* what they may depend on: a set of functions
    Batches,        \* batches of templates
    Made,           \* Made[b]: the definitions that the instances of a batch make
    MaxCalls,       \* bound: operations under way
    MaxVersions, MaxDrafts, MaxTime,    \* bounds: versions and drafts of each, clock
    MaxImport,      \* the most versions that the edge imports at a time
    None

VARIABLES
    definition,     \* of each definition, its versions in the cloud
    draft,          \* of each definition, its draft
    batch,          \* of each batch, its document
    answered,       \* requests for batches that have been answered
    calls,          \* the operations under way; of two alike one is enough,
                    \* for when it commits the other one conflicts
    clock,
    cloud,          \* plans and issues of the cloud
    log,            \* versions in the order in which they are sent to the edge
    known,          \* of each definition, how many versions the edge has
    edge            \* plans and issues of the edge

vars == <<definition, draft, batch, answered, calls, clock, cloud, log, known, edge>>

DefinitionConstants ==
    /\ Legacy \subseteq Definitions /\ LegacyDeps \subseteq [Legacy -> SUBSET Definitions]
    /\ Made \in [Batches -> SUBSET Definitions]

Versioned == Definitions \X (1..MaxVersions)

TypeOK ==
    /\ \A d \in Definitions : \A v \in 1..Len(definition[d]) :
           definition[d][v] \in [status : {"published", "inactive"},
                                 deps : SUBSET Definitions, time : 0..MaxTime]
    /\ draft \in [Definitions -> [version : 0..MaxDrafts + MaxVersions, base : 0..MaxVersions,
                                  deps : SUBSET Definitions, batch : Batches \cup {None}]]
    /\ batch \in [Batches -> [status : {None, "prepared", "failed"}, version : 0..2]]
    /\ answered \subseteq Batches \X (0..2)
    /\ \A x \in calls : x.op \in {"save", "publish", "deactivate", "batch"}
    /\ Cardinality(calls) <= MaxCalls
    /\ clock \in 1..MaxTime
    /\ cloud.plans \cup cloud.issues \subseteq Versioned
    /\ edge.plans \cup edge.issues \subseteq Versioned
    /\ \A d \in Definitions : known[d] \in 0..Len(definition[d])

Current(d) == Len(definition[d])
DepsOf(d) == IF definition[d] = <<>> THEN {} ELSE definition[d][Current(d)].deps

(* What a definition that depends on deps depends on, today: the least set  *)
(* with these and all that its members depend on.                           *)
Reach(deps) ==
    {e \in Definitions : \A S \in SUBSET Definitions :
        deps \subseteq S /\ (\A f \in S : DepsOf(f) \subseteq S) => e \in S}
Active(d) == definition[d] # <<>> /\ definition[d][Current(d)].status = "published"

(* definitionAt: the version in effect at a time, of those a site has.      *)
InEffect(have, e, time) == Max({v \in 1..have[e] : definition[e][v].time <= time} \cup {0})

(* Prepare visits the dependencies as they were when the version took       *)
(* effect; all have to be published.                                        *)
Visited(have, deps, time) ==
    LET Version(e) == <<e, InEffect(have, e, time)>>
        seen[n \in 0..Cardinality(Definitions)] ==
            IF n = 0 THEN {Version(e) : e \in deps}
            ELSE seen[n - 1] \cup {Version(e) : e \in UNION
                     {definition[p[1]][p[2]].deps : p \in {q \in seen[n - 1] : q[2] > 0}}}
    IN  seen[Cardinality(Definitions)]
Resolves(have, d, deps, time) ==
    \A p \in Visited(have, deps, time) :
        p[1] # d /\ p[2] > 0 /\ definition[p[1]][p[2]].status = "published"
Found(have, p) ==
    LET x == definition[p[1]][p[2]] IN Resolves(have, p[1], x.deps, x.time)
Prepared(site, ps) == [plans |-> site.plans \cup ps, issues |-> site.issues \ ps]

(* PreparePublishedPlans, and what an import does: versions that resolve    *)
(* get plans, with those they visit, the others are isolated.               *)
PrepareAll(site, have, ps) ==
    LET good == {p \in ps : Found(have, p)}
        seen(p) == Visited(have, definition[p[1]][p[2]].deps, definition[p[1]][p[2]].time)
        with == Prepared(site, good \cup UNION {seen(p) : p \in good})
    IN  [with EXCEPT !.issues = @ \cup (ps \ good)]
AllPublished(have) ==
    {p \in Versioned : p[2] <= have[p[1]] /\ definition[p[1]][p[2]].status = "published"}
Has(d) == IF d \in Legacy THEN 1 ELSE 0

Init ==
    /\ \E deps \in LegacyDeps : definition = [d \in Definitions |->
           IF d \notin Legacy THEN <<>>
           ELSE <<[status |-> "published", deps |-> deps[d], time |-> 1]>>]
    /\ draft = [d \in Definitions |->
                   [version |-> 0, base |-> 0, deps |-> {}, batch |-> None]]
    /\ batch = [b \in Batches |-> [status |-> None, version |-> 0]]
    /\ answered = {} /\ calls = {} /\ clock = 1
    /\ cloud = PrepareAll([plans |-> {}, issues |-> {}], [d \in Definitions |-> Has(d)],
                          {<<d, 1>> : d \in Legacy})
    /\ log \in {s \in [1..Cardinality(Legacy) -> Legacy \X {1}] :
                    \A d \in Legacy : \E i \in DOMAIN s : s[i] = <<d, 1>>}
    /\ known = [d \in Definitions |-> 0] /\ edge = [plans |-> {}, issues |-> {}]

Advance ==
    /\ clock < MaxTime /\ clock' = clock + 1
    /\ UNCHANGED <<definition, draft, batch, answered, calls, cloud, log, known, edge>>

Begin(x) == Cardinality(calls) < MaxCalls /\ calls' = calls \cup {x}
End(x) == calls' = calls \ {x}
Seen(ds) == {<<e, Current(e)>> : e \in ds}
Unchanged(seen) == \A s \in seen : Current(s[1]) = s[2]
Away(x) == End(x) /\ UNCHANGED <<definition, draft, batch, answered, cloud, log>>
-----------------------------------------------------------------------------
(* SaveDraft and loadDraft: access reads every dependency, and the use case *)
(* keeps the versions that it read.                                         *)
Accessible(d, deps) == d \notin Reach(deps) /\ \A e \in Reach(deps) : definition[e] # <<>>
BeginSave(d, deps) ==
    /\ draft[d].version < MaxDrafts /\ Accessible(d, deps)
    /\ Begin([op |-> "save", of |-> d, deps |-> deps, base |-> Current(d),
              draft |-> draft[d].version, seen |-> Seen(Reach(deps) \cup {d})])
    /\ UNCHANGED <<definition, draft, batch, answered, clock, cloud, log, known, edge>>

Fresh(x) == Unchanged(x.seen) /\ draft[x.of].version = x.draft
CommitSave(x) ==
    /\ x.op = "save"
    /\ IF ~Fresh(x) THEN Away(x)
       ELSE /\ draft' = [draft EXCEPT ![x.of] = [version |-> x.draft + 1, base |-> x.base,
                                                 deps |-> x.deps, batch |-> None]]
            /\ End(x)
            /\ UNCHANGED <<definition, batch, answered, cloud, log>>
    /\ UNCHANGED <<clock, known, edge>>

BeginPublish(d) ==
    /\ draft[d].version > 0 /\ Current(d) < MaxVersions
    /\ Accessible(d, draft[d].deps) /\ draft[d].base = Current(d)
    /\ Begin([op |-> "publish", of |-> d, deps |-> draft[d].deps, base |-> draft[d].base,
              draft |-> draft[d].version, seen |-> Seen(Reach(draft[d].deps) \cup {d}),
              time |-> 0])
    /\ UNCHANGED <<definition, draft, batch, answered, clock, cloud, log, known, edge>>

(* Validate reads the dependencies once more, each has to be active; the    *)
(* time of the publication is taken.                                        *)
Validate(x) ==
    /\ x.op = "publish" /\ x.time = 0
    /\ IF x.of \notin Reach(x.deps) /\ \A e \in Reach(x.deps) : Active(e)
       THEN calls' = (calls \ {x}) \cup {[x EXCEPT !.time = clock]} ELSE End(x)
    /\ UNCHANGED <<definition, draft, batch, answered, clock, cloud, log, known, edge>>

Append1(d, x) == definition' = [definition EXCEPT ![d] = Append(@, x)]
CommitPublish(x) ==
    LET p == <<x.of, x.base + 1>>
    IN  /\ x.op = "publish" /\ x.time > 0
        /\ IF ~Fresh(x) \/ ~Resolves([e \in Definitions |-> Current(e)], x.of, x.deps, x.time)
           THEN Away(x)
           ELSE /\ Append1(x.of, [status |-> "published", deps |-> x.deps, time |-> x.time])
                /\ draft' = [draft EXCEPT ![x.of].version = @ + 1, ![x.of].base = p[2]]
                /\ cloud' = Prepared(cloud, {p} \cup Visited(
                       [e \in Definitions |-> Current(e)], x.deps, x.time))
                /\ log' = Append(log, p) /\ End(x)
                /\ UNCHANGED <<batch, answered>>
        /\ UNCHANGED <<clock, known, edge>>

(* Deactivate is refused while an active definition depends on this one;    *)
(* only the own version is compared when it commits.                        *)
BeginDeactivate(d) ==
    /\ definition[d] # <<>> /\ Current(d) < MaxVersions
    /\ \A e \in Definitions : Active(e) => d \notin DepsOf(e)
    /\ Begin([op |-> "deactivate", of |-> d, deps |-> DepsOf(d), base |-> Current(d),
              time |-> clock])
    /\ UNCHANGED <<definition, draft, batch, answered, clock, cloud, log, known, edge>>

CommitDeactivate(x) ==
    /\ x.op = "deactivate"
    /\ IF Current(x.of) # x.base THEN Away(x)
       ELSE /\ Append1(x.of, [status |-> "inactive", deps |-> x.deps, time |-> x.time])
            /\ log' = Append(log, <<x.of, x.base + 1>>) /\ End(x)
            /\ UNCHANGED <<draft, batch, answered, cloud>>
    /\ UNCHANGED <<clock, known, edge>>
-----------------------------------------------------------------------------
(* A batch makes drafts, all or none: it fails when an identity or a name   *)
(* is taken, among all definitions and drafts that it read.  Its request    *)
(* may be repeated, and a failed batch retried.                             *)
Taken == {d \in Definitions : draft[d].version > 0 \/ definition[d] # <<>>}
Clash(b) == \/ Made[b] \cap Taken # {}
            \/ \E d \in Made[b], e \in Taken : Name[d] = Name[e]
Catalogue == [d \in Definitions |-> <<Current(d), draft[d].version>>]
BeginBatch(b) ==
    /\ batch[b].status \in {None, "failed"} /\ batch[b].version < 2
    /\ Begin([op |-> "batch", of |-> b, version |-> batch[b].version, catalogue |-> Catalogue,
              status |-> IF Clash(b) THEN "failed" ELSE "prepared"])
    /\ UNCHANGED <<definition, draft, batch, answered, clock, cloud, log, known, edge>>

BatchFresh(x) == x.catalogue = Catalogue
CommitBatch(x) ==
    LET r == <<x.of, x.version>>
    IN  /\ x.op = "batch"
        /\ IF r \in answered \/ ~BatchFresh(x) \/ batch[x.of].version # x.version THEN Away(x)
           ELSE /\ draft' = [d \in Definitions |->
                       IF x.status = "prepared" /\ d \in Made[x.of]
                       THEN [version |-> 1, base |-> 0, deps |-> {}, batch |-> x.of]
                       ELSE draft[d]]
                /\ batch' = [batch EXCEPT ![x.of] =
                                 [status |-> x.status, version |-> x.version + 1]]
                /\ answered' = answered \cup {r} /\ End(x)
                /\ UNCHANGED <<definition, cloud, log>>
        /\ UNCHANGED <<clock, known, edge>>
-----------------------------------------------------------------------------
(* The platform starts: every published version is prepared; one that has a *)
(* plan of its own must resolve, or the start fails.                        *)
Restart ==
    /\ LET all == AllPublished([d \in Definitions |-> Current(d)])
           have == [d \in Definitions |-> Current(d)]
       IN  /\ \A p \in all : Found(have, p) \/ (p[1] \in Legacy /\ p[2] = 1)
           /\ cloud' = PrepareAll(cloud, have, all)
    /\ calls' = {}
    /\ UNCHANGED <<definition, draft, batch, answered, clock, log, known, edge>>

(* importChanges stores the next versions, prepares them and retries the    *)
(* versions isolated before, all in one transaction; it fails when a        *)
(* version with a plan of its own does not resolve.                         *)
Retried(site) == site.issues
ImportChanges(n) ==
    LET done == FoldFunction(LAMBDA a, b : a + b, 0, known)
        new == {log[i] : i \in done + 1..done + n}
        have == [d \in Definitions |-> known[d] + Cardinality({p \in new : p[1] = d})]
        published == {p \in new : definition[p[1]][p[2]].status = "published"}
        with == PrepareAll(edge, have, published)
    IN  /\ done + n <= Len(log)
        /\ known' = have
        /\ \A p \in published : Found(have, p) \/ (p[1] \in Legacy /\ p[2] = 1)
        /\ edge' = PrepareAll(with, have, Retried(with))
        /\ UNCHANGED <<definition, draft, batch, answered, calls, clock, cloud, log>>

Next ==
    \/ \E d \in Definitions :
           \/ \E deps \in SUBSET (Definitions \ {d}) : BeginSave(d, deps)
           \/ BeginPublish(d) \/ BeginDeactivate(d)
    \/ \E b \in Batches : BeginBatch(b)
    \/ \E x \in calls :
           CommitSave(x) \/ Validate(x) \/ CommitPublish(x) \/ CommitDeactivate(x)
           \/ CommitBatch(x)
    \/ \E n \in 1..MaxImport : ImportChanges(n)
    \/ Restart \/ Advance
Spec == Init /\ [][Next]_vars
-----------------------------------------------------------------------------
(* A version is published from the draft as it stands, at a moment at which *)
(* everything it depends on is active and does not depend on it.            *)
New(d) == Len(definition'[d]) > Len(definition[d])
PublishedProperly ==
    \A d \in Definitions :
        New(d) /\ definition'[d][Len(definition'[d])].status = "published"
            => LET deps == definition'[d][Len(definition'[d])].deps
               IN  /\ deps = draft[d].deps /\ draft[d].base = Current(d)
                   /\ d \notin Reach(deps) /\ \A e \in Reach(deps) : Active(e)

(* Both sites have a plan of every published version that they have, or     *)
(* they have isolated it; the edge isolates nothing that resolves with what *)
(* it has.                                                                  *)
Covered(site, have) ==
    /\ AllPublished(have) = site.plans \cup site.issues
    /\ \A p \in site.issues : p[1] \in Legacy
PlansPresent ==
    /\ Covered(cloud, [d \in Definitions |-> Current(d)]) /\ Covered(edge, known)
    /\ \A p \in edge.issues : ~Found(known, p)

(* A prepared batch has made all of its drafts, a failed one none, and no   *)
(* two batches made drafts of one name.                                     *)
FromBatch(b) == {d \in Definitions : draft[d].batch = b}
BatchesWhole ==
    /\ \A b \in Batches : batch[b].status = "prepared"
           => \A d \in Made[b] : draft[d].version > 0
    /\ \A b \in Batches : batch[b].status # "prepared" => FromBatch(b) = {}
    /\ \A d, e \in Definitions : d # e /\ draft[d].batch # None /\ draft[e].batch # None
           => Name[d] # Name[e]
=============================================================================
