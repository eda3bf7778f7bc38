-------------------------- MODULE Investigations --------------------------
(***************************************************************************)
(* Investigations of the assistant (ai/chat.go): a request of a user opens *)
(* an investigation, asks a model in rounds, runs the tools it calls and   *)
(* keeps what each returned as evidence (application/investigations.go),   *)
(* and completes with an answer that cites evidence.  Evidence is prepared *)
(* when a tool returned it and delivered when the model has answered a     *)
(* request that held it.  Meanwhile rights are granted and revoked, what   *)
(* was read is deleted, the evidence expires, the user reads and deletes   *)
(* investigations, writes fail or lose their answer, the platform stops.   *)
(* Every caller is the owner: anyone else is answered that the             *)
(* investigation does not exist.                                           *)
(***************************************************************************)
EXTENDS Naturals, Sequences

CONSTANTS
    Inquiries,
    Resources,      \* what tools read: entities, definitions, executions, ...
    MaxRounds,      \* requests to the model for one investigation
    Expiring,       \* investigations whose retention may end
    MaxResults,     \* bound: tool results of one investigation
    MaxChanges,     \* bound: changes of rights
    MaxReads,       \* bound: times a user reads an investigation
    None

VARIABLES
    inquiry,        \* the investigations stored
    evidence,       \* of each investigation, its evidence, by ordinal
    chat,           \* of each investigation, the request that works on it
    granted,        \* resources the user may read
    existing,       \* resources that have not been deleted
    revision,       \* of the rights of the user
    expired,        \* investigations whose retention is over
    reading,        \* the investigation the user reads, as far as it is read
    reads,
    consumed        \* of each investigation, evidence the model has answered to

vars == <<inquiry, evidence, chat, granted, existing, revision, expired, reading, reads, consumed>>

Ended == {"completed", "failed", "cancelled"}
Statuses == {"running", "deleted"} \cup Ended
Support == {"pending", "supported", "partial", "unsupported", "missing"}
Citations == Inquiries \X (1..MaxResults)

Places == {"asking", "delivering", "answered", "calling", "completing", "finished", "broken",
           "over"}

InvestigationConstants ==
    /\ Expiring \subseteq Inquiries /\ MaxRounds \in Nat \ {0} /\ MaxResults \in Nat \ {0}
    /\ None \notin Statuses \cup Places /\ \A cited \in SUBSET Citations : cited # None

NoInquiry == [status |-> None, cited |-> None, said |-> "pending"]
NoChat == [at |-> None, round |-> 0, pending |-> {}, cited |-> {}, said |-> "pending", seen |-> 0]

TypeOK ==
    /\ inquiry \in [Inquiries -> [status : Statuses \cup {None},
                                  cited : {None} \cup SUBSET Citations, said : Support]]
    /\ \A i \in Inquiries : \A n \in DOMAIN evidence[i] :
           evidence[i][n] \in [delivery : {"prepared", "delivered"}, held : BOOLEAN,
                               status : {"ok", "error"}, of : SUBSET Resources]
    /\ \A i \in Inquiries : /\ Len(evidence[i]) <= MaxResults
                            /\ chat[i].round <= MaxRounds
                            /\ chat[i].pending \cup consumed[i] \subseteq DOMAIN evidence[i]
    /\ granted \cup existing \subseteq Resources /\ expired \subseteq Inquiries
    /\ revision \in 0..MaxChanges /\ reads \in 0..MaxReads

Init ==
    /\ inquiry = [i \in Inquiries |-> NoInquiry]
    /\ evidence = [i \in Inquiries |-> <<>>]
    /\ chat = [i \in Inquiries |-> NoChat]
    /\ granted = Resources /\ existing = Resources
    /\ revision = 0 /\ expired = {}
    /\ reading = None /\ reads = 0
    /\ consumed = [i \in Inquiries |-> {}]

---------------------------------------------------------------------------
(* What a citation is worth.                                               *)

(* Whether what evidence was taken from can be read now: deleted resources  *)
(* are not found, others may be denied.                                     *)
CheckResource(r) == CASE r \notin existing -> "deleted" [] r \notin granted -> "forbidden"
                      [] OTHER -> "permitted"

EvidenceState(e, i) ==
    CASE i \in expired -> "expired"
      [] ~e.held -> "deleted"
      [] e.delivery # "delivered" -> "not_delivered"
      [] \E r \in e.of : CheckResource(r) = "deleted" -> "deleted"
      [] \E r \in e.of : CheckResource(r) = "forbidden" -> "forbidden"
      [] e.status # "ok" -> e.status
      [] OTHER -> "valid"

Reference(i, c) ==
    CASE c[2] \notin DOMAIN evidence[c[1]] -> "unknown"
      [] c[1] # i -> "cross_investigation"
      [] OTHER -> EvidenceState(evidence[c[1]][c[2]], c[1])

References(i, cited) ==
    LET valid == {c \in cited : Reference(i, c) = "valid"} IN
    CASE cited = {} -> "missing"
      [] valid = cited -> "supported"
      [] valid = {} -> "unsupported"
      [] OTHER -> "partial"

(* A handler reads the investigation and writes it, with its evidence, in a *)
(* transaction that compares the version read.  Only its request writes one *)
(* that runs and only Delete one that has ended, so this is one step.       *)
PutInvestigation(i, value) == inquiry' = [inquiry EXCEPT ![i] = value]
PutEvidence(i, all) == evidence' = [evidence EXCEPT ![i] = all]

---------------------------------------------------------------------------
(* The request that works on an investigation.  Any write of it may fail,  *)
(* or be made and its answer lost: then the request ends (Break).          *)

Move(i, at) == chat' = [chat EXCEPT ![i].at = at]

(* A request that may be answered, with its first round before it.         *)
Asked == [NoChat EXCEPT !.at = "asking", !.round = 1]

Begin(i) ==
    /\ inquiry[i].status = None
    /\ PutInvestigation(i, [inquiry[i] EXCEPT !.status = "running"])
    /\ chat' = [chat EXCEPT ![i] = Asked]
    /\ UNCHANGED <<evidence, granted, existing, revision, expired, reading, reads, consumed>>

(* The model has answered a request that held every result so far.         *)
ModelCompletion(i) ==
    /\ chat[i].at = "asking"
    /\ consumed' = [consumed EXCEPT ![i] = DOMAIN evidence[i]]
    /\ Move(i, "delivering")
    /\ UNCHANGED <<inquiry, evidence, granted, existing, revision, expired, reading, reads>>

Delivered(i) ==
    /\ chat[i].at = "delivering"
    /\ IF chat[i].pending = {} THEN UNCHANGED <<inquiry, evidence>>
       ELSE /\ inquiry[i].status = "running"
            /\ UNCHANGED inquiry
            /\ PutEvidence(i, [n \in DOMAIN evidence[i] |->
                   IF n \in chat[i].pending THEN [evidence[i][n] EXCEPT !.delivery = "delivered"]
                   ELSE evidence[i][n]])
    /\ \E at \in {"answered", "broken"} :
           chat' = [chat EXCEPT ![i] = [@ EXCEPT !.at = at, !.pending = {}]]
    /\ UNCHANGED <<granted, existing, revision, expired, reading, reads, consumed>>

(* A tool returned something about resources that it could read, or an     *)
(* error.                                                                  *)
Captured == SUBSET (granted \cap existing)
PreparedEvidence ==
    {[delivery |-> "prepared", held |-> TRUE, status |-> "ok", of |-> of] : of \in Captured}
        \cup {[delivery |-> "prepared", held |-> TRUE, status |-> "error", of |-> {}]}

Record(i) ==
    /\ chat[i].at \in {"answered", "calling"}
    /\ inquiry[i].status = "running"
    /\ Len(evidence[i]) < MaxResults
    /\ \E e \in PreparedEvidence : PutEvidence(i, Append(evidence[i], e))
    /\ UNCHANGED inquiry
    /\ \E at \in {"calling", "broken"} :
           chat' = [chat EXCEPT ![i] = [chat[i] EXCEPT !.at = at,
                        !.pending = @ \cup {Len(evidence[i]) + 1}]]
    /\ UNCHANGED <<granted, existing, revision, expired, reading, reads, consumed>>

NextRound(i) ==
    /\ chat[i].at = "calling"
    /\ IF chat[i].round < MaxRounds
       THEN chat' = [chat EXCEPT ![i] = [chat[i] EXCEPT !.at = "asking", !.round = @ + 1]]
       ELSE Move(i, "broken")
    /\ UNCHANGED <<inquiry, evidence, granted, existing, revision, expired, reading, reads, consumed>>

(* The answer cites what it likes; the citations are judged before the     *)
(* transaction, which stands on the rights read before them.               *)
Conclude(i) ==
    /\ chat[i].at = "answered"
    /\ inquiry[i].status = "running"
    /\ \E cited \in SUBSET {c \in Citations : c[2] <= 1 + Len(evidence[c[1]])} :
           chat' = [chat EXCEPT ![i] = [@ EXCEPT !.at = "completing", !.cited = cited,
                        !.said = References(i, cited), !.seen = revision]]
    /\ UNCHANGED <<inquiry, evidence, granted, existing, revision, expired, reading, reads, consumed>>

Complete(i) ==
    /\ chat[i].at = "completing"
    /\ chat[i].seen = revision
    /\ PutInvestigation(i,
           [status |-> "completed", cited |-> chat[i].cited, said |-> chat[i].said])
    /\ \E at \in {"finished", "broken"} : Move(i, at)
    /\ UNCHANGED <<evidence, granted, existing, revision, expired, reading, reads, consumed>>

(* The model or a write fails, time is over, the client goes away, or what *)
(* was committed cannot be read back.                                      *)
Break(i) ==
    /\ chat[i].at \in {"asking", "delivering", "answered", "calling", "completing"}
    /\ Move(i, "broken")
    /\ UNCHANGED <<inquiry, evidence, granted, existing, revision, expired, reading, reads, consumed>>

Stopped(i) == chat' = [chat EXCEPT ![i] = [NoChat EXCEPT !.at = "over"]]

(* Recorded without the rights of the user; when it fails nobody is told.  *)
Fail(i) ==
    /\ chat[i].at = "broken"
    /\ \/ /\ inquiry[i].status = "running"
          /\ \E status \in {"failed", "cancelled"} :
                 PutInvestigation(i,
                     [inquiry[i] EXCEPT !.status = status, !.said = "unsupported"])
       \/ UNCHANGED inquiry
    /\ Stopped(i)
    /\ UNCHANGED <<evidence, granted, existing, revision, expired, reading, reads, consumed>>

Finish(i) ==
    /\ chat[i].at = "finished"
    /\ Stopped(i)
    /\ UNCHANGED <<inquiry, evidence, granted, existing, revision, expired, reading, reads, consumed>>

Crash ==
    /\ \E i \in Inquiries : chat[i].at \notin {None, "over"}
    /\ chat' = [i \in Inquiries |-> IF chat[i].at = None THEN NoChat
                                    ELSE [NoChat EXCEPT !.at = "over"]]
    /\ reading' = None
    /\ UNCHANGED <<inquiry, evidence, granted, existing, revision, expired, reads, consumed>>

---------------------------------------------------------------------------
(* The user.                                                               *)

(* The evidence to be erased is read before the transaction.               *)
Delete(i) ==
    /\ inquiry[i].status \in Ended
    /\ PutInvestigation(i, [inquiry[i] EXCEPT !.status = "deleted", !.cited = None])
    /\ PutEvidence(i, [n \in DOMAIN evidence[i] |->
           [evidence[i][n] EXCEPT !.held = FALSE, !.of = {}]])
    /\ UNCHANGED <<chat, granted, existing, revision, expired, reading, reads, consumed>>

(* An investigation is read before its evidence, and both before what is    *)
(* cited and the rights.                                                    *)
GetValue(i) ==
    /\ reading = None /\ reads < MaxReads
    /\ inquiry[i].status # None
    /\ reading' = [of |-> i, value |-> inquiry[i], held |-> None, shown |-> None]
    /\ reads' = reads + 1
    /\ UNCHANGED <<inquiry, evidence, chat, granted, existing, revision, expired, consumed>>

GetEvidence ==
    /\ reading # None /\ reading.held = None
    /\ reading' = [reading EXCEPT !.held = evidence[reading.of]]
    /\ UNCHANGED <<inquiry, evidence, chat, granted, existing, revision, expired, reads, consumed>>

Shown(i, value, held) ==
    LET states == {EvidenceState(held[n], i) : n \in DOMAIN held}
        clear == \/ value.status = "deleted" \/ i \in expired
                 \/ states \cap {"forbidden", "deleted", "expired"} # {}
        cited == IF value.cited = None THEN {} ELSE value.cited
    IN  [answer |-> value.cited # None /\ ~clear,
         support |-> CASE value.status = "running" /\ cited = {} -> "pending"
                       [] value.status \in {"failed", "cancelled"} -> "unsupported"
                       [] clear /\ value.status # "running" -> "unsupported"
                       [] OTHER -> References(i, cited)]

GetAnswer ==
    /\ reading # None /\ reading.held # None /\ reading.shown = None
    /\ reading' = [reading EXCEPT !.shown = Shown(reading.of, reading.value, reading.held)]
    /\ UNCHANGED <<inquiry, evidence, chat, granted, existing, revision, expired, reads, consumed>>

Put ==
    /\ reading # None /\ reading.shown # None
    /\ reading' = None
    /\ UNCHANGED <<inquiry, evidence, chat, granted, existing, revision, expired, reads, consumed>>

---------------------------------------------------------------------------
(* Everything else.                                                        *)

ChangeRight(r) ==
    /\ revision < MaxChanges
    /\ revision' = revision + 1
    /\ granted' = IF r \in granted THEN granted \ {r} ELSE granted \cup {r}
    /\ UNCHANGED <<inquiry, evidence, chat, existing, expired, reading, reads, consumed>>

Remove(r) ==
    /\ r \in existing
    /\ existing' = existing \ {r}
    /\ UNCHANGED <<inquiry, evidence, chat, granted, revision, expired, reading, reads, consumed>>

Expire(i) ==
    /\ i \in Expiring \ expired /\ inquiry[i].status # None
    /\ expired' = expired \cup {i}
    /\ UNCHANGED <<inquiry, evidence, chat, granted, existing, revision, reading, reads, consumed>>

Next ==
    \/ \E i \in Inquiries :
        \/ Begin(i) \/ ModelCompletion(i) \/ Delivered(i) \/ Record(i) \/ NextRound(i)
        \/ Conclude(i) \/ Complete(i) \/ Break(i) \/ Fail(i) \/ Finish(i)
        \/ Delete(i) \/ GetValue(i) \/ Expire(i)
    \/ GetEvidence \/ GetAnswer \/ Put \/ Crash
    \/ \E r \in Resources : ChangeRight(r) \/ Remove(r)

---------------------------------------------------------------------------
Delivery(i) == {n \in DOMAIN evidence[i] : evidence[i][n].delivery = "delivered"}

(* The answer of a completed investigation rests on evidence on record:    *)
(* what its model has answered to, and nothing else, is delivered, so a    *)
(* right lost later is noticed when the answer is read.                    *)
AnswerRests ==
    \A i \in Inquiries : inquiry[i].status = "completed" => consumed[i] = Delivery(i)

(* Who is told that an answer is supported, by the investigation stored or *)
(* by one that is read, reads an answer that cites results without error   *)
(* of this very investigation, each of which its model had before it.      *)
SupportedIsTrue ==
    LET Founded(i, cited) ==
            /\ cited \notin {None, {}}
            /\ \A c \in cited : /\ c[1] = i /\ c[2] \in consumed[i]
                                /\ evidence[i][c[2]].status = "ok"
    IN  /\ \A i \in Inquiries :
               inquiry[i].status = "completed" /\ inquiry[i].said = "supported"
                   => Founded(i, inquiry[i].cited)
        /\ (reading # None /\ reading.shown # None /\ reading.shown.support = "supported")
               => Founded(reading.of, reading.value.cited)

(* An investigation ends once, and only then it can be deleted: a request  *)
(* that breaks after its answer was stored does not turn it into a failure.*)
EndsOnce ==
    \A i \in Inquiries : inquiry'[i].status # inquiry[i].status =>
        CASE inquiry[i].status = None -> inquiry'[i].status = "running"
          [] inquiry[i].status = "running" -> inquiry'[i].status \in Ended
          [] OTHER -> inquiry[i].status # "deleted" /\ inquiry'[i].status = "deleted"

(* Nothing is added to an investigation that has ended, and of a deleted   *)
(* one nothing comes back that could be read.                              *)
NothingAdded ==
    \A i \in Inquiries : inquiry[i].status \in Ended \cup {"deleted"} =>
        /\ Len(evidence'[i]) = Len(evidence[i]) /\ Delivery(i)' = Delivery(i)
        /\ inquiry'[i].cited \in {inquiry[i].cited, None}
        /\ inquiry'[i].status = "deleted" =>
               \A n \in DOMAIN evidence[i] : ~evidence'[i][n].held
=============================================================================
