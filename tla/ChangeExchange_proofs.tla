----------------------- MODULE ChangeExchange_proofs -----------------------
(***************************************************************************)
(* Proofs about the exchange of changes: however many calls the cloud is   *)
(* working on, whatever is given up or fails, and whatever is written      *)
(* meanwhile, no cursor passes what the other side has not committed.      *)
(*                                                                         *)
(* The logs only grow, and so does what each side has (Grows).  So what a  *)
(* request was when it was sent, a prefix of the edge's log that the cloud *)
(* has or will have once it has imported the changes, it stays until the   *)
(* handler ends, even after the edge has given the call up (RequestHolds), *)
(* and the same holds of an answer on its way back (AnswerHolds).          *)
(***************************************************************************)
EXTENDS ChangeExchange, SequenceTheorems, TLAPS

Docs == [name : Names, v : 1 .. MaxEdits]
EdgeDocs == {d \in Docs : d.name # "rule"}
Request == [up : Nat, down : Nat, changes : Seq(EdgeDocs), audit : Nat \X Nat]
Answer == [down : Nat, changes : SUBSET Docs, audit : Nat, right : BOOLEAN]
ClientState ==
    [pc : {"idle", "waiting", "permissions", "import", "cursor"}, request : Request,
     answer : Answer, by : Handlers \cup {0}]
HandlerState ==
    [pc : {"free", "cursor", "progress", "import", "audit", "changes", "offer"},
     request : Request, off : Nat, answer : Answer]

Typed ==
    /\ log \in [Sites -> Seq(Docs)] /\ log["edge"] \in Seq(EdgeDocs)
    /\ have \in [Sites -> SUBSET Docs]
    /\ cursor \in [up : Nat, down : Nat, audit : Nat]
    /\ trail \in Nat /\ copy \in Nat /\ edits \in Nat
    /\ progress \in [exists : BOOLEAN, down : Nat, off : Nat]
    /\ right \in [Sites -> BOOLEAN]
    /\ client \in ClientState
    /\ server \in [Handlers -> HandlerState]

\* Each document is in a log once; the cloud has exactly what is in its log.
Logs ==
    /\ \A s \in Sites : IsInjective(log[s]) /\ ToSet(log[s]) \subseteq have[s]
    /\ have["cloud"] = ToSet(log["cloud"])

\* The first n changes of the edge, or those of the cloud that an edge gets,
\* are among the documents in S.
Sent(l, n, S) == \A i \in 1 .. n : l[i] \in S
Taken(l, n, S) == \A i \in 1 .. n : Destined(l[i]) => l[i] \in S

AnswerHolds(a) ==
    /\ a.down <= Len(log["cloud"])
    /\ Taken(log["cloud"], a.down, have["edge"] \cup a.changes)
    /\ a.audit <= copy

RequestHolds(o) ==
    o.pc # "free" =>
        /\ o.request.up <= Len(log["edge"])
        /\ Sent(log["edge"], o.request.up, have["cloud"] \cup ToSet(o.request.changes))
        /\ o.request.down <= Len(log["cloud"])
        /\ Taken(log["cloud"], o.request.down, have["edge"])
        /\ o.request.audit[2] <= trail
        /\ o.pc \in {"audit", "changes", "offer"} =>
               Sent(log["edge"], o.request.up, have["cloud"])
        /\ o.pc = "offer" => AnswerHolds(o.answer)

\* An answer that the edge has received, until its cursor is saved.
ReplyHolds(c) ==
    c.pc \in {"permissions", "import", "cursor"} =>
        /\ c.request.up <= Len(log["edge"])
        /\ Sent(log["edge"], c.request.up, have["cloud"])
        /\ AnswerHolds(c.answer)
        /\ c.pc = "cursor" => Taken(log["cloud"], c.answer.down, have["edge"])

\* The handler that the edge waits for works on the request of the edge.
Waits ==
    client.pc = "waiting" =>
        /\ client.by \in Handlers
        /\ server[client.by].pc # "free"
        /\ server[client.by].request = client.request

Cursors ==
    /\ cursor.up <= Len(log["edge"]) /\ Sent(log["edge"], cursor.up, have["cloud"])
    /\ cursor.down <= Len(log["cloud"]) /\ Taken(log["cloud"], cursor.down, have["edge"])
    /\ progress.down <= Len(log["cloud"]) /\ Taken(log["cloud"], progress.down, have["edge"])
    /\ cursor.audit <= copy /\ copy <= trail

Rules ==
    /\ records \subseteq have["cloud"]
    /\ \A d \in Versions("cloud", "rule") : d \in records \/ d \in have["edge"]

XInv ==
    /\ Typed
    /\ Logs
    /\ \A h \in Handlers : RequestHolds(server[h])
    /\ ReplyHolds(client)
    /\ Waits
    /\ Cursors
    /\ Rules

-----------------------------------------------------------------------------
(* Sequences that grow.                                                     *)
Prefix(l, m) == Len(l) <= Len(m) /\ \A i \in 1 .. Len(l) : m[i] = l[i]

LEMMA AppendGrows ==
    ASSUME NEW S, NEW l \in Seq(S), NEW d \in S
    PROVE  /\ Append(l, d) \in Seq(S)
           /\ Prefix(l, Append(l, d))
           /\ ToSet(Append(l, d)) = ToSet(l) \cup {d}
           /\ IsInjective(l) /\ d \notin ToSet(l) => IsInjective(Append(l, d))
<1>1. /\ Append(l, d) \in Seq(S)
      /\ Len(Append(l, d)) = Len(l) + 1
      /\ DOMAIN Append(l, d) = 1 .. Len(l) + 1
      /\ \A i \in 1 .. Len(l) : Append(l, d)[i] = l[i]
      /\ Append(l, d)[Len(l) + 1] = d
  BY AppendProperties, LenProperties
<1>2. Len(l) \in Nat /\ DOMAIN l = 1 .. Len(l)
  BY LenProperties
<1>3. Prefix(l, Append(l, d))
  BY <1>1, <1>2 DEF Prefix
<1>4. ToSet(Append(l, d)) = ToSet(l) \cup {d}
  BY <1>1, <1>2 DEF ToSet
<1>5. ASSUME IsInjective(l), d \notin ToSet(l)
      PROVE  IsInjective(Append(l, d))
  BY <1>1, <1>2, <1>5 DEF IsInjective, ToSet
<1> QED
  BY <1>1, <1>3, <1>4, <1>5

LEMMA ConcatGrows ==
    ASSUME NEW S, NEW l \in Seq(S), NEW m \in Seq(S)
    PROVE  /\ l \o m \in Seq(S)
           /\ Prefix(l, l \o m)
           /\ ToSet(l \o m) = ToSet(l) \cup ToSet(m)
           /\ IsInjective(l) /\ IsInjective(m) /\ ToSet(l) \cap ToSet(m) = {}
                => IsInjective(l \o m)
<1> DEFINE both == l \o m
<1>1. /\ both \in Seq(S)
      /\ Len(both) = Len(l) + Len(m)
      /\ \A i \in 1 .. Len(l) + Len(m) :
            both[i] = IF i <= Len(l) THEN l[i] ELSE m[i - Len(l)]
  BY ConcatProperties
<1>2. /\ Len(l) \in Nat /\ DOMAIN l = 1 .. Len(l)
      /\ Len(m) \in Nat /\ DOMAIN m = 1 .. Len(m)
      /\ DOMAIN both = 1 .. Len(l) + Len(m)
  BY <1>1, LenProperties
<1> HIDE DEF both
<1>3. Prefix(l, both)
  BY <1>1, <1>2 DEF Prefix
<1>8. ASSUME NEW k \in 1 .. Len(l) + Len(m)
      PROVE  IF k <= Len(l) THEN both[k] \in ToSet(l) ELSE both[k] \in ToSet(m)
  <2>1. CASE k <= Len(l)
    <3>1. k \in DOMAIN l /\ both[k] = l[k]
      BY <2>1, <1>1, <1>2
    <3> QED
      BY <3>1, <2>1 DEF ToSet
  <2>2. CASE ~(k <= Len(l))
    <3>1. k - Len(l) \in DOMAIN m /\ both[k] = m[k - Len(l)]
      BY <2>2, <1>1, <1>2
    <3> QED
      BY <3>1, <2>2 DEF ToSet
  <2> QED
    BY <2>1, <2>2
<1>4. ToSet(both) \subseteq ToSet(l) \cup ToSet(m)
  <2>1. ASSUME NEW d \in ToSet(both)
        PROVE  d \in ToSet(l) \cup ToSet(m)
    <3>1. PICK k \in 1 .. Len(l) + Len(m) : d = both[k]
      BY <1>2 DEF ToSet
    <3> QED
      BY <3>1, <1>8
  <2> QED
    BY <2>1
<1>5. ToSet(l) \subseteq ToSet(both)
  BY SMTT(30), <1>1, <1>2 DEF ToSet
<1>6. ToSet(m) \subseteq ToSet(both)
  <2>1. ASSUME NEW j \in 1 .. Len(m)
        PROVE  m[j] = both[Len(l) + j] /\ Len(l) + j \in 1 .. Len(l) + Len(m)
    BY <1>1, <1>2
  <2> QED
    BY <2>1, <1>2 DEF ToSet
<1>7. ASSUME IsInjective(l), IsInjective(m), ToSet(l) \cap ToSet(m) = {}
      PROVE  IsInjective(both)
  <2>1. SUFFICES ASSUME NEW a \in 1 .. Len(l) + Len(m), NEW b \in 1 .. Len(l) + Len(m),
                        both[a] = both[b]
                 PROVE  a = b
    BY <1>2 DEF IsInjective
  <2>2. CASE a <= Len(l) /\ b <= Len(l)
    BY <2>1, <2>2, <1>1, <1>2, <1>7 DEF IsInjective
  <2>3. CASE a > Len(l) /\ b > Len(l)
    <3>1. m[a - Len(l)] = m[b - Len(l)] /\ a - Len(l) \in DOMAIN m /\ b - Len(l) \in DOMAIN m
      BY <2>1, <2>3, <1>1, <1>2
    <3>2. a - Len(l) = b - Len(l)
      BY <3>1, <1>7 DEF IsInjective
    <3> QED
      BY <3>2, <1>2
  <2>4. CASE a <= Len(l) /\ b > Len(l)
    <3>1. both[a] \in ToSet(l) /\ both[b] \in ToSet(m)
      BY <2>4, <1>2, <1>8
    <3> QED
      BY <3>1, <2>1, <1>7
  <2>5. CASE a > Len(l) /\ b <= Len(l)
    <3>1. both[b] \in ToSet(l) /\ both[a] \in ToSet(m)
      BY <2>5, <1>2, <1>8
    <3> QED
      BY <3>1, <2>1, <1>7
  <2> QED
    BY <2>2, <2>3, <2>4, <2>5, <1>2
<1> QED
  BY <1>1, <1>3, <1>4, <1>5, <1>6, <1>7 DEF both

\* What follows a cursor begins right behind it.
LEMMA AfterFollows ==
    ASSUME Batch \in Nat, NEW S, NEW l \in Seq(S), NEW i \in 0 .. Len(l)
    PROVE  /\ After(l, i) \in Seq(S)
           /\ Len(After(l, i)) \in Nat
           /\ i + Len(After(l, i)) \in 0 .. Len(l)
           /\ \A j \in 1 .. i + Len(After(l, i)) : j <= i \/ l[j] \in ToSet(After(l, i))
<1> DEFINE n == Least(Len(l), i + Batch)
           t == SubSeq(l, i + 1, n)
<1>1. Len(l) \in Nat /\ DOMAIN l = 1 .. Len(l) /\ \A j \in 1 .. Len(l) : l[j] \in S
  BY LenProperties
<1>2. n \in Nat /\ i <= n /\ n <= Len(l) /\ i \in Nat
  BY <1>1 DEF Least
<1> HIDE DEF n
<1>3. /\ t \in Seq(S)
      /\ Len(t) = IF i + 1 <= n THEN n - (i + 1) + 1 ELSE 0
      /\ \A j \in 1 .. n - (i + 1) + 1 : t[j] = l[(i + 1) + j - 1]
  <2>1. i + 1 \in Int /\ n \in Int /\ \A j \in i + 1 .. n : l[j] \in S
    BY <1>1, <1>2
  <2> QED
    BY <2>1, SubSeqProperties
<1> HIDE DEF t
<1>4. Len(t) = n - i /\ DOMAIN t = 1 .. n - i /\ \A j \in 1 .. n - i : t[j] = l[i + j]
  BY <1>2, <1>3, LenProperties
<1>5. ASSUME NEW j \in 1 .. n, ~(j <= i)
      PROVE  l[j] \in ToSet(t)
  <2>1. j - i \in 1 .. n - i /\ t[j - i] = l[i + (j - i)] /\ i + (j - i) = j
    BY <1>2, <1>4, <1>5
  <2> QED
    BY <2>1, <1>4 DEF ToSet
<1>6. After(l, i) = t
  BY DEF After, t, n
<1> QED
  BY <1>2, <1>3, <1>4, <1>5, <1>6

LEMMA PrefixKeeps ==
    ASSUME NEW S, NEW l \in Seq(S), NEW m \in Seq(S), Prefix(l, m),
           NEW n \in Nat, n <= Len(l), NEW A, NEW B, A \subseteq B
    PROVE  /\ n <= Len(m)
           /\ Sent(l, n, A) => Sent(m, n, B)
           /\ Taken(l, n, A) => Taken(m, n, B)
<1>1. Len(l) \in Nat /\ Len(m) \in Nat /\ Len(l) <= Len(m)
  BY LenProperties DEF Prefix
<1>2. \A i \in 1 .. n : i \in 1 .. Len(l) /\ m[i] = l[i]
  BY <1>1 DEF Prefix
<1> QED
  BY <1>1, <1>2 DEF Sent, Taken

-----------------------------------------------------------------------------
(* What the documents are.                                                  *)
LEMMA DocTypes ==
    /\ EdgeDocs \subseteq Docs
    /\ Seq(EdgeDocs) \subseteq Seq(Docs)
    /\ \A v \in 1 .. MaxEdits : /\ [name |-> "device", v |-> v] \in EdgeDocs
                                /\ [name |-> "rule", v |-> v] \in Docs
<1>1. EdgeDocs \subseteq Docs
  BY DEF EdgeDocs
<1>2. ASSUME NEW v \in 1 .. MaxEdits
      PROVE  [name |-> "device", v |-> v] \in EdgeDocs /\ [name |-> "rule", v |-> v] \in Docs
  BY DEF EdgeDocs, Docs, Names
<1>3. Seq(EdgeDocs) \subseteq Seq(Docs)
  BY <1>1
<1> QED
  BY <1>1, <1>2, <1>3

LEMMA Nothing ==
    /\ NoRequest \in Request
    /\ NoAnswer \in Answer
    /\ Idle \in ClientState
    /\ Free \in HandlerState
<1>1. <<>> \in Seq(EdgeDocs) /\ {} \in SUBSET Docs /\ <<0, 0>> \in Nat \X Nat
  OBVIOUS
<1>2. NoRequest \in Request
  BY <1>1 DEF NoRequest, Request
<1>3. NoAnswer \in Answer
  BY <1>1 DEF NoAnswer, Answer
<1> QED
  BY <1>2, <1>3 DEF Idle, ClientState, Free, HandlerState

\* A document that is written at a site, with its entry in the log.
LEMMA PutSteps ==
    ASSUME Typed, Logs, NEW s \in Sites, NEW d \in Docs, s = "edge" => d \in EdgeDocs,
           d \notin have[s], Put(s, d)
    PROVE  /\ log' \in [Sites -> Seq(Docs)] /\ log'["edge"] \in Seq(EdgeDocs)
           /\ have' \in [Sites -> SUBSET Docs]
           /\ \A t \in Sites : Prefix(log[t], log'[t]) /\ have[t] \subseteq have'[t]
           /\ Logs'
<1>1. log' = [log EXCEPT ![s] = Append(@, d)] /\ have' = [have EXCEPT ![s] = @ \cup {d}]
  BY DEF Put
<1>2. log[s] \in Seq(Docs) /\ log[s] \in [1 .. Len(log[s]) -> Docs]
  BY LenProperties DEF Typed
<1>3. /\ Append(log[s], d) \in Seq(Docs)
      /\ Prefix(log[s], Append(log[s], d))
      /\ ToSet(Append(log[s], d)) = ToSet(log[s]) \cup {d}
      /\ IsInjective(log[s]) /\ d \notin ToSet(log[s]) => IsInjective(Append(log[s], d))
  BY <1>2, AppendGrows
<1>4. s = "edge" => Append(log[s], d) \in Seq(EdgeDocs)
  BY AppendGrows DEF Typed
<1>5. log' \in [Sites -> Seq(Docs)] /\ log'["edge"] \in Seq(EdgeDocs)
  BY <1>1, <1>3, <1>4 DEF Typed, Sites
<1>6. have' \in [Sites -> SUBSET Docs]
  BY <1>1 DEF Typed
<1>7. ASSUME NEW t \in Sites
      PROVE  Prefix(log[t], log'[t]) /\ have[t] \subseteq have'[t]
  <2>1. CASE t = s
    BY <2>1, <1>1, <1>3 DEF Typed
  <2>2. CASE t # s
    <3>1. log'[t] = log[t] /\ have'[t] = have[t] /\ Len(log[t]) \in Nat
      BY <2>2, <1>1, LenProperties DEF Typed
    <3> QED
      BY <3>1 DEF Prefix
  <2> QED
    BY <2>1, <2>2
<1>8. \A t \in Sites : IsInjective(log'[t]) /\ ToSet(log'[t]) \subseteq have'[t]
  BY <1>1, <1>3 DEF Logs, Typed
<1>9. have'["cloud"] = ToSet(log'["cloud"])
  BY <1>1, <1>3 DEF Logs, Typed, Sites
<1> QED
  BY <1>5, <1>6, <1>7, <1>8, <1>9 DEF Logs

-----------------------------------------------------------------------------
(* Nothing is taken out of a log or a database, nor from the audit chains.  *)
Grows ==
    /\ \A s \in Sites : Prefix(log[s], log'[s]) /\ have[s] \subseteq have'[s]
    /\ copy <= copy' /\ trail <= trail'

\* What a step does to the logs and databases.
LogStep ==
    /\ log' \in [Sites -> Seq(Docs)] /\ log'["edge"] \in Seq(EdgeDocs)
    /\ have' \in [Sites -> SUBSET Docs]
    /\ \A s \in Sites : Prefix(log[s], log'[s]) /\ have[s] \subseteq have'[s]
    /\ Logs'

LEMMA SameLogs ==
    ASSUME Typed, Logs, UNCHANGED <<log, have>>
    PROVE  LogStep
<1>1. ASSUME NEW s \in Sites
      PROVE  Prefix(log[s], log'[s]) /\ have[s] \subseteq have'[s]
  <2>1. Len(log[s]) \in Nat
    BY LenProperties DEF Typed
  <2> QED
    BY <2>1 DEF Prefix
<1> QED
  BY <1>1 DEF LogStep, Logs, Typed

LEMMA ImportSteps ==
    ASSUME Typed, Logs, NEW h \in Handlers, Import(h)
    PROVE  LogStep
<1> DEFINE sent == server[h].request.changes
           changes == ToSet(sent)
<1>1. sent \in Seq(EdgeDocs) /\ Len(sent) \in Nat /\ changes \subseteq EdgeDocs
  <2>1. sent \in Seq(EdgeDocs)
    BY DEF Typed, HandlerState, Request
  <2>2. Len(sent) \in Nat /\ DOMAIN sent = 1 .. Len(sent) /\ \A i \in 1 .. Len(sent) : sent[i] \in EdgeDocs
    BY <2>1, LenProperties
  <2> QED
    BY <2>1, <2>2 DEF ToSet
<1>2. CASE ~Permitted("cloud", changes)
  BY <1>2, SameLogs DEF Import
<1>3. CASE Permitted("cloud", changes)
  <2>1. PICK n \in 0 .. Len(sent) : \E new \in [1 .. n -> changes] :
                 /\ InOrder(sent, changes \ have["cloud"], new)
                 /\ log' = [log EXCEPT !["cloud"] = @ \o new]
    BY <1>3 DEF Import
  <2>2. PICK new \in [1 .. n -> changes] :
                 /\ InOrder(sent, changes \ have["cloud"], new)
                 /\ log' = [log EXCEPT !["cloud"] = @ \o new]
    BY <2>1
  <2>3. have' = [have EXCEPT !["cloud"] = @ \cup changes]
    BY <1>3 DEF Import, Imported
  <2> HIDE DEF changes, sent
  <2>4. changes \subseteq Docs
    BY <1>1, DocTypes
  <2>5. new \in Seq(Docs)
    <3>1. n \in Nat /\ new \in [1 .. n -> Docs]
      BY <2>4, <1>1
    <3> QED
      BY <3>1
  <2>6. log["cloud"] \in Seq(Docs) /\ "cloud" \in Sites /\ "edge" \in Sites
    BY DEF Typed, Sites
  <2>7. /\ log["cloud"] \o new \in Seq(Docs)
        /\ Prefix(log["cloud"], log["cloud"] \o new)
        /\ ToSet(log["cloud"] \o new) = ToSet(log["cloud"]) \cup ToSet(new)
        /\ IsInjective(log["cloud"]) /\ IsInjective(new) /\ ToSet(log["cloud"]) \cap ToSet(new) = {}
                => IsInjective(log["cloud"] \o new)
    BY <2>5, <2>6, ConcatGrows
  <2>8. IsInjective(new) /\ ToSet(new) = changes \ have["cloud"]
    BY <2>2 DEF InOrder
  <2>9. /\ IsInjective(log'["cloud"])
        /\ ToSet(log'["cloud"]) = have'["cloud"]
        /\ Prefix(log["cloud"], log'["cloud"]) /\ have["cloud"] \subseteq have'["cloud"]
        /\ log'["cloud"] \in Seq(Docs) /\ have'["cloud"] \in SUBSET Docs
    <3>1. log'["cloud"] = log["cloud"] \o new /\ have'["cloud"] = have["cloud"] \cup changes
      BY <2>2, <2>3, <2>6 DEF Typed
    <3>2. ToSet(log["cloud"]) = have["cloud"] /\ have["cloud"] \subseteq Docs /\ IsInjective(log["cloud"])
      BY <2>6 DEF Logs, Typed
    <3> QED
      BY <3>1, <3>2, <2>4, <2>7, <2>8
  <2>10. log'["edge"] = log["edge"] /\ have'["edge"] = have["edge"]
    BY <2>2, <2>3, <2>6 DEF Typed
  <2>11. Prefix(log["edge"], log'["edge"])
    <3>1. Len(log["edge"]) \in Nat
      BY <2>6, LenProperties DEF Typed
    <3> QED
      BY <3>1, <2>10 DEF Prefix
  <2>12. log' \in [Sites -> Seq(Docs)] /\ have' \in [Sites -> SUBSET Docs] /\ log'["edge"] \in Seq(EdgeDocs)
    BY <2>2, <2>3, <2>9, <2>10 DEF Typed, Sites
  <2>13. Logs'
    <3>1. IsInjective(log["edge"]) /\ ToSet(log["edge"]) \subseteq have["edge"]
      BY <2>6 DEF Logs
    <3> QED
      BY <3>1, <2>9, <2>10 DEF Logs, Sites
  <2> QED
    BY <2>9, <2>10, <2>11, <2>12, <2>13 DEF LogStep, Sites
<1> QED
  BY <1>2, <1>3

LEMMA LogSteps ==
    ASSUME ExchangeConstants, Typed, Logs, [Next]_vars
    PROVE  LogStep
<1>1. CASE EditDevice
  <2>1. PICK v \in 1 .. MaxEdits :
          /\ Versions("edge", "device") = {[name |-> "device", v |-> w] : w \in 1 .. v - 1}
          /\ Put("edge", [name |-> "device", v |-> v])
    BY <1>1 DEF EditDevice
  <2> DEFINE d == [name |-> "device", v |-> v]
  <2>2. d \in EdgeDocs /\ d \in Docs
    BY DocTypes
  <2>3. d \notin have["edge"]
    <3>1. d \in have["edge"] => d \in Versions("edge", "device")
      BY DEF Versions
    <3>2. ASSUME NEW w \in 1 .. v - 1 PROVE d # [name |-> "device", v |-> w]
      <4>1. d.v = v /\ w # v
        BY DEF ExchangeConstants
      <4> QED
        BY <4>1
    <3> QED
      BY <3>1, <3>2, <2>1
  <2> HIDE DEF d
  <2>4. Put("edge", d)
    BY <2>1 DEF d
  <2> QED
    BY <2>2, <2>3, <2>4, PutSteps DEF LogStep, Sites
<1>2. CASE HandleAlarm
  <2> DEFINE d == [name |-> "alarm", v |-> 1]
  <2>1. d \in EdgeDocs /\ d \in Docs
    <3>1. 1 \in 1 .. MaxEdits
      BY <1>2 DEF HandleAlarm, Put, ExchangeConstants, Typed
    <3> QED
      BY <3>1 DEF EdgeDocs, Docs, Names
  <2>2. d \notin have["edge"]
    BY <1>2 DEF HandleAlarm, Versions
  <2>3. Put("edge", d)
    BY <1>2 DEF HandleAlarm
  <2> HIDE DEF d
  <2> QED
    BY <2>1, <2>2, <2>3, PutSteps DEF LogStep, Sites
<1>3. CASE PublishRule
  <2>1. PICK v \in 1 .. MaxEdits :
          /\ Versions("cloud", "rule") = {[name |-> "rule", v |-> w] : w \in 1 .. v - 1}
          /\ Put("cloud", [name |-> "rule", v |-> v])
    BY <1>3 DEF PublishRule
  <2> DEFINE d == [name |-> "rule", v |-> v]
  <2>2. d \in Docs
    BY DocTypes
  <2>3. d \notin have["cloud"]
    <3>1. d \in have["cloud"] => d \in Versions("cloud", "rule")
      BY DEF Versions
    <3>2. ASSUME NEW w \in 1 .. v - 1 PROVE d # [name |-> "rule", v |-> w]
      <4>1. d.v = v /\ w # v
        BY DEF ExchangeConstants
      <4> QED
        BY <4>1
    <3> QED
      BY <3>1, <3>2, <2>1
  <2> HIDE DEF d
  <2>4. Put("cloud", d)
    BY <2>1 DEF d
  <2> QED
    BY <2>2, <2>3, <2>4, PutSteps DEF LogStep, Sites
<1>4. CASE \E h \in Handlers : Import(h)
  BY <1>4, ImportSteps
<1>5. CASE ImportAnswer
  <2>1. CASE UNCHANGED have
    BY <2>1, <1>5, SameLogs DEF ImportAnswer
  <2>2. CASE ~UNCHANGED have
    <3>1. have' = [have EXCEPT !["edge"] = @ \cup client.answer.changes] /\ UNCHANGED log
      BY <2>2, <1>5 DEF ImportAnswer, Imported
    <3>2. client.answer.changes \subseteq Docs
      BY DEF Typed, ClientState, Answer
    <3>3. ASSUME NEW s \in Sites
          PROVE  Prefix(log[s], log'[s]) /\ have[s] \subseteq have'[s]
      <4>1. Len(log[s]) \in Nat
        BY LenProperties DEF Typed
      <4> QED
        BY <4>1, <3>1 DEF Prefix, Typed
    <3>4. have' \in [Sites -> SUBSET Docs] /\ have'["cloud"] = have["cloud"]
      BY <3>1, <3>2 DEF Typed, Sites
    <3>5. Logs'
      BY <3>1, <3>3, <3>4 DEF Logs
    <3> QED
      BY <3>1, <3>3, <3>4, <3>5 DEF LogStep, Typed
  <2> QED
    BY <2>1, <2>2
<1>6. CASE UNCHANGED <<log, have>>
  BY <1>6, SameLogs
<1>7. \/ EditDevice \/ HandleAlarm \/ PublishRule \/ (\E h \in Handlers : Import(h)) \/ ImportAnswer
      \/ UNCHANGED <<log, have>>
  BY DEF Next, Step, Exchange, Handle, Send, ReadProgress, WriteProgress, ImportAudit, Collect,
         Offer, TakePermissions, SaveCursor, ChangeRight, CompleteMetadata, GiveUp, Fail, vars
<1> QED
  BY <1>1, <1>2, <1>3, <1>4, <1>5, <1>6, <1>7

-----------------------------------------------------------------------------
(* Types.                                                                   *)
\* A handler that goes on or ends leaves the types as they are.
LEMMA RefusedType ==
    ASSUME Typed, NEW h \in Handlers, Refused(h)
    PROVE  client' \in ClientState /\ server' \in [Handlers -> HandlerState]
  BY Nothing DEF Refused, Typed

LEMMA GoesType ==
    ASSUME Typed, NEW h \in Handlers,
           NEW p \in {"free", "cursor", "progress", "import", "audit", "changes", "offer"}, Goes(h, p)
    PROVE  client' \in ClientState /\ server' \in [Handlers -> HandlerState]
<1>1. server' = [server EXCEPT ![h] = [@ EXCEPT !.pc = p]] /\ client' = client
  BY DEF Goes
<1>2. PICK o \in HandlerState : o = server[h]
  BY DEF Typed
<1>3. [o EXCEPT !.pc = p] \in HandlerState
  BY DEF HandlerState
<1> QED
  BY <1>1, <1>2, <1>3 DEF Typed

LEMMA SendType ==
    ASSUME ExchangeConstants, Typed, NEW h \in Handlers, Send(h), cursor.up <= Len(log["edge"])
    PROVE  Typed'
<1> DEFINE changes == After(log["edge"], cursor.up)
           r == [up |-> cursor.up + Len(changes), down |-> cursor.down, changes |-> changes,
                 audit |-> <<cursor.audit, Least(trail, cursor.audit + Batch)>>]
<1>1. cursor.up \in Nat /\ cursor.down \in Nat /\ cursor.audit \in Nat /\ Len(log["edge"]) \in Nat
  BY LenProperties DEF Typed
<1>2. changes \in Seq(EdgeDocs) /\ Len(changes) \in Nat
  <2>1. Batch \in Nat /\ log["edge"] \in Seq(EdgeDocs) /\ cursor.up \in 0 .. Len(log["edge"])
    BY <1>1 DEF ExchangeConstants, Typed
  <2> QED
    BY <2>1, AfterFollows
<1> HIDE DEF changes
<1>3. Least(trail, cursor.audit + Batch) \in Nat
  BY <1>1 DEF Least, Typed, ExchangeConstants
<1>4. r \in Request
  BY <1>1, <1>2, <1>3 DEF Request
<1>5. /\ client' = [Idle EXCEPT !.pc = "waiting", !.request = r, !.by = h]
      /\ server' = [server EXCEPT ![h] = [Free EXCEPT !.pc = "cursor", !.request = r]]
      /\ UNCHANGED <<log, have, cursor, trail, copy, progress, records, right, edits, revocations, faults>>
  BY DEF Send, changes
<1> HIDE DEF r
<1>6. [Idle EXCEPT !.pc = "waiting", !.request = r, !.by = h] \in ClientState
  BY <1>4, Nothing DEF ClientState
<1>7. [Free EXCEPT !.pc = "cursor", !.request = r] \in HandlerState
  BY <1>4, Nothing DEF HandlerState
<1> QED
  BY <1>5, <1>6, <1>7 DEF Typed

LEMMA CollectType ==
    ASSUME ExchangeConstants, Typed, NEW h \in Handlers, Collect(h),
           server[h].request.down <= Len(log["cloud"])
    PROVE  Typed'
<1> DEFINE r == server[h].request
           changes == After(log["cloud"], r.down)
           a == [down |-> r.down + Len(changes),
                 changes |-> {d \in ToSet(changes) : Destined(d)},
                 audit |-> copy, right |-> right["cloud"]]
<1>1. server[h] \in HandlerState /\ r \in Request /\ r.down \in Nat
  BY DEF Typed, HandlerState, Request
<1>2. changes \in Seq(Docs) /\ Len(changes) \in Nat
  <2>1. Batch \in Nat /\ log["cloud"] \in Seq(Docs) /\ Len(log["cloud"]) \in Nat
    BY LenProperties DEF ExchangeConstants, Typed, Sites
  <2>2. r.down \in 0 .. Len(log["cloud"])
    BY <1>1, <2>1
  <2> QED
    BY <2>1, <2>2, AfterFollows
<1> HIDE DEF changes
<1>3. ToSet(changes) \subseteq Docs
  BY <1>2, LenProperties DEF ToSet
<1>4. a \in Answer
  BY <1>1, <1>2, <1>3 DEF Answer, Typed, Sites
<1>5. /\ server' = [server EXCEPT ![h] = [@ EXCEPT !.pc = "offer", !.answer = a]]
      /\ UNCHANGED <<log, have, cursor, trail, copy, progress, records, right, client, edits,
                     revocations, faults>>
  BY DEF Collect, changes
<1> HIDE DEF a
<1>6. PICK o \in HandlerState : o = server[h]
  BY <1>1
<1>7. [o EXCEPT !.pc = "offer", !.answer = a] \in HandlerState
  BY <1>4 DEF HandlerState
<1> QED
  BY <1>5, <1>6, <1>7 DEF Typed

LEMMA HandleType ==
    ASSUME ExchangeConstants, Typed, LogStep, NEW h \in Handlers, Handle(h), ~Collect(h)
    PROVE  Typed'
<1>1. server[h] \in HandlerState /\ server[h].request \in Request /\ server[h].answer \in Answer
      /\ server[h].off \in Nat
  BY DEF Typed, HandlerState
<1>2. CASE ReadProgress(h)
  <2>1. CASE Refused(h)
    BY <2>1, <1>2, RefusedType DEF ReadProgress, Typed
  <2>2. CASE Goes(h, "import")
    BY <2>2, <1>2, GoesType DEF ReadProgress, Typed
  <2>3. CASE /\ server' = [server EXCEPT ![h].pc = "progress", ![h].off = progress.off]
             /\ UNCHANGED client
    <3>1. server' = [server EXCEPT ![h] = [@ EXCEPT !.pc = "progress", !.off = progress.off]]
      BY <2>3
    <3>2. PICK o \in HandlerState : o = server[h]
      BY <1>1
    <3>3. [o EXCEPT !.pc = "progress", !.off = progress.off] \in HandlerState
      BY DEF HandlerState, Typed
    <3> QED
      BY <3>1, <3>2, <3>3, <2>3, <1>2 DEF ReadProgress, Typed
  <2> QED
    BY <2>1, <2>2, <2>3, <1>2 DEF ReadProgress
<1>3. CASE WriteProgress(h)
  <2>1. Goes(h, "import")
    BY <1>3 DEF WriteProgress
  <2>2. client' \in ClientState /\ server' \in [Handlers -> HandlerState]
    BY <2>1, GoesType
  <2>3. server[h].request.down \in Nat /\ Greatest(server[h].off, server[h].request.down) \in Nat
    BY <1>1 DEF Request, Greatest
  <2>4. progress' \in [exists : BOOLEAN, down : Nat, off : Nat]
    BY <1>3, <2>3 DEF WriteProgress
  <2> QED
    BY <1>3, <2>2, <2>4 DEF WriteProgress, Typed
<1>4. CASE Import(h)
  <2>1. client' \in ClientState /\ server' \in [Handlers -> HandlerState]
    <3>1. Refused(h) \/ Goes(h, "audit")
      BY <1>4 DEF Import
    <3> QED
      BY <3>1, RefusedType, GoesType
  <2> QED
    BY <1>4, <2>1 DEF Import, Typed, LogStep
<1>5. CASE ImportAudit(h)
  <2>1. client' \in ClientState /\ server' \in [Handlers -> HandlerState]
    <3>1. Refused(h) \/ Goes(h, "changes")
      BY <1>5 DEF ImportAudit
    <3> QED
      BY <3>1, RefusedType, GoesType
  <2>2. server[h].request.audit[2] \in Nat
    BY <1>1 DEF Request
  <2>3. copy' \in Nat
    BY <1>5, <2>2 DEF ImportAudit, Greatest, Typed
  <2> QED
    BY <1>5, <2>1, <2>3 DEF ImportAudit, Typed
<1>6. CASE Offer(h)
  <2>1. server' \in [Handlers -> HandlerState]
    BY <1>6, Nothing DEF Offer, Typed
  <2>2. client' \in ClientState
    <3>1. PICK c \in ClientState : c = client
      BY DEF Typed
    <3>2. PICK a \in Answer : a = server[h].answer
      BY <1>1
    <3>3. [c EXCEPT !.pc = "permissions", !.answer = a] \in ClientState
      BY DEF ClientState
    <3> QED
      BY <1>6, <3>1, <3>2, <3>3 DEF Offer
  <2>3. progress' \in [exists : BOOLEAN, down : Nat, off : Nat]
    <3>1. server[h].answer.down \in Nat /\ progress.off \in Nat
      BY <1>1 DEF Answer, Typed
    <3>2. Greatest(progress.off, server[h].answer.down) \in Nat
      BY <3>1 DEF Greatest
    <3> QED
      BY <1>6, <3>2 DEF Offer, Typed
  <2> QED
    BY <1>6, <2>1, <2>2, <2>3 DEF Offer, Typed
<1> QED
  BY <1>2, <1>3, <1>4, <1>5, <1>6 DEF Handle

LEMMA TypeSteps ==
    ASSUME ExchangeConstants, XInv, [Next]_vars, LogStep
    PROVE  Typed'
<1> USE DEF XInv
<1>1. ASSUME NEW h \in Handlers, Send(h) PROVE Typed'
  BY <1>1, SendType DEF Cursors
<1>2. ASSUME NEW h \in Handlers, Handle(h) PROVE Typed'
  <2>1. CASE Collect(h)
    <3>1. server[h].request.down <= Len(log["cloud"])
      BY <2>1 DEF Collect, RequestHolds
    <3> QED
      BY <2>1, <3>1, CollectType
  <2>2. CASE ~Collect(h)
    BY <2>2, <1>2, HandleType
  <2> QED
    BY <2>1, <2>2
<1>3. CASE TakePermissions
  <2>1. client \in ClientState /\ client.answer \in Answer
    BY DEF Typed, ClientState
  <2>2. right' \in [Sites -> BOOLEAN]
    BY <1>3, <2>1 DEF TakePermissions, Typed, Answer
  <2>3. client' \in ClientState
    <3>1. [client EXCEPT !.pc = "import"] \in ClientState
      BY <2>1 DEF ClientState
    <3> QED
      BY <1>3, <3>1, Nothing DEF TakePermissions
  <2> QED
    BY <1>3, <2>2, <2>3 DEF TakePermissions, Typed
<1>4. CASE ImportAnswer
  <2>1. [client EXCEPT !.pc = "cursor"] \in ClientState
    BY DEF Typed, ClientState
  <2> QED
    BY <1>4, <2>1, Nothing DEF ImportAnswer, LogStep, Typed
<1>5. CASE SaveCursor
  <2>1. client.request \in Request /\ client.answer \in Answer
    BY DEF Typed, ClientState
  <2>2. cursor' \in [up : Nat, down : Nat, audit : Nat]
    BY <2>1, <1>5 DEF SaveCursor, Request, Answer
  <2> QED
    BY <1>5, <2>2, Nothing DEF SaveCursor, Typed
<1>6. CASE EditDevice \/ HandleAlarm
  <2>1. /\ edits' = edits + 1 /\ trail' = trail + 1
        /\ UNCHANGED <<cursor, copy, progress, records, right, client, server>>
    BY <1>6 DEF EditDevice, HandleAlarm, Put
  <2> QED
    BY <2>1 DEF LogStep, Typed
<1>7. CASE PublishRule
  BY <1>7 DEF PublishRule, Put, LogStep, Typed
<1>8. CASE ChangeRight
  BY <1>8 DEF ChangeRight, Typed
<1>9. CASE CompleteMetadata
  BY <1>9 DEF CompleteMetadata, Typed
<1>10. CASE GiveUp
  BY <1>10, Nothing DEF GiveUp, Typed
<1>11. ASSUME NEW h \in Handlers, Fail(h) PROVE Typed'
  BY <1>11, RefusedType DEF Fail, Typed
<1>12. CASE UNCHANGED vars
  BY <1>12 DEF vars, Typed
<1> QED
  BY <1>1, <1>2, <1>3, <1>4, <1>5, <1>6, <1>7, <1>8, <1>9, <1>10, <1>11, <1>12
     DEF Next, Step, Exchange

-----------------------------------------------------------------------------
(* What holds of a request or an answer still holds when logs have grown.   *)
LEMMA StepGrows ==
    ASSUME ExchangeConstants, Typed, [Next]_vars, LogStep
    PROVE  Grows
<1>1. trail <= trail'
  <2>1. trail' = trail \/ trail' = trail + 1
    BY DEF Next, Step, Exchange, Handle, Send, ReadProgress, WriteProgress, Import, ImportAudit,
           Collect, Offer, TakePermissions, ImportAnswer, SaveCursor, ChangeRight, CompleteMetadata,
           GiveUp, Fail, EditDevice, HandleAlarm, PublishRule, vars
  <2> QED
    BY <2>1 DEF Typed
<1>2. copy <= copy'
  <2>1. CASE UNCHANGED copy
    BY <2>1 DEF Typed
  <2>2. CASE \E h \in Handlers : ImportAudit(h)
    <3>1. PICK h \in Handlers : ImportAudit(h)
      BY <2>2
    <3>2. server[h].request.audit[2] \in Nat
      BY DEF Typed, HandlerState, Request
    <3> QED
      BY <3>1, <3>2 DEF ImportAudit, Greatest, Typed
  <2>3. UNCHANGED copy \/ \E h \in Handlers : ImportAudit(h)
    BY DEF Next, Step, Exchange, Handle, Send, ReadProgress, WriteProgress, Import, 
           Collect, Offer, TakePermissions, ImportAnswer, SaveCursor, ChangeRight, CompleteMetadata,
           GiveUp, Fail, EditDevice, HandleAlarm, PublishRule, vars
  <2> QED
    BY <2>1, <2>2, <2>3
<1> QED
  BY <1>1, <1>2 DEF LogStep, Grows

LEMMA LogsKeep ==
    ASSUME Typed, Typed', Grows, NEW n \in Nat, NEW A, NEW B, A \subseteq B
    PROVE  /\ n <= Len(log["edge"]) => n <= Len(log["edge"])'
           /\ n <= Len(log["cloud"]) => n <= Len(log["cloud"])'
           /\ n <= Len(log["edge"]) /\ Sent(log["edge"], n, A) => Sent(log'["edge"], n, B)
           /\ n <= Len(log["cloud"]) /\ Taken(log["cloud"], n, A) => Taken(log'["cloud"], n, B)
<1>1. ASSUME NEW s \in Sites, n <= Len(log[s])
      PROVE  /\ n <= Len(log'[s])
             /\ Sent(log[s], n, A) => Sent(log'[s], n, B)
             /\ Taken(log[s], n, A) => Taken(log'[s], n, B)
  <2>1. log[s] \in Seq(Docs) /\ log'[s] \in Seq(Docs) /\ Prefix(log[s], log'[s])
    BY DEF Typed, Grows
  <2> QED
    BY <2>1, <1>1, PrefixKeeps
<1>2. "edge" \in Sites /\ "cloud" \in Sites
  BY DEF Sites
<1> QED
  BY <1>1, <1>2

LEMMA AnswerKept ==
    ASSUME Typed, Typed', Grows, NEW a \in Answer, AnswerHolds(a)
    PROVE  AnswerHolds(a)'
<1>1. a.down \in Nat /\ a.audit \in Nat /\ copy \in Nat /\ copy' \in Nat
  BY DEF Answer, Typed
<1>2. have["edge"] \cup a.changes \subseteq have'["edge"] \cup a.changes
  BY DEF Grows, Sites
<1>3. a.down <= Len(log'["cloud"]) /\ Taken(log'["cloud"], a.down, have'["edge"] \cup a.changes)
  BY <1>1, <1>2, LogsKeep DEF AnswerHolds
<1>4. a.audit <= copy'
  BY <1>1 DEF AnswerHolds, Grows
<1> QED
  BY <1>3, <1>4 DEF AnswerHolds

LEMMA RequestKept ==
    ASSUME Typed, Typed', Grows, NEW o \in HandlerState, RequestHolds(o)
    PROVE  RequestHolds(o)'
<1> SUFFICES ASSUME o.pc # "free" PROVE RequestHolds(o)'
  BY DEF RequestHolds
<1>1. /\ o.request.up \in Nat /\ o.request.down \in Nat /\ o.request.audit[2] \in Nat
      /\ trail \in Nat /\ trail' \in Nat /\ o.answer \in Answer
  BY DEF HandlerState, Request, Typed
<1>2. have["edge"] \subseteq have'["edge"] /\ have["cloud"] \subseteq have'["cloud"]
  BY DEF Grows, Sites
<1>3. /\ o.request.up <= Len(log'["edge"])
      /\ Sent(log'["edge"], o.request.up, have'["cloud"] \cup ToSet(o.request.changes))
  <2>1. have["cloud"] \cup ToSet(o.request.changes) \subseteq have'["cloud"] \cup ToSet(o.request.changes)
    BY <1>2
  <2>2. o.request.up <= Len(log["edge"])
        /\ Sent(log["edge"], o.request.up, have["cloud"] \cup ToSet(o.request.changes))
    BY DEF RequestHolds
  <2> QED
    BY <1>1, <2>1, <2>2, LogsKeep
<1>4. o.request.down <= Len(log'["cloud"]) /\ Taken(log'["cloud"], o.request.down, have'["edge"])
  BY <1>1, <1>2, LogsKeep DEF RequestHolds
<1>5. o.request.audit[2] <= trail'
  BY <1>1 DEF RequestHolds, Grows
<1>6. o.pc \in {"audit", "changes", "offer"} => Sent(log'["edge"], o.request.up, have'["cloud"])
  BY <1>1, <1>2, LogsKeep DEF RequestHolds
<1>7. o.pc = "offer" => AnswerHolds(o.answer)'
  BY <1>1, AnswerKept DEF RequestHolds
<1> QED
  BY <1>3, <1>4, <1>5, <1>6, <1>7 DEF RequestHolds

LEMMA ReplyKept ==
    ASSUME Typed, Typed', Grows, NEW c \in ClientState, ReplyHolds(c)
    PROVE  ReplyHolds(c)'
<1> SUFFICES ASSUME c.pc \in {"permissions", "import", "cursor"} PROVE ReplyHolds(c)'
  BY DEF ReplyHolds
<1>1. c.request.up \in Nat /\ c.answer.down \in Nat /\ c.answer \in Answer
  BY DEF ClientState, Request, Answer
<1>2. have["edge"] \subseteq have'["edge"] /\ have["cloud"] \subseteq have'["cloud"]
  BY DEF Grows, Sites
<1>3. c.request.up <= Len(log'["edge"]) /\ Sent(log'["edge"], c.request.up, have'["cloud"])
  BY <1>1, <1>2, LogsKeep DEF ReplyHolds
<1>4. AnswerHolds(c.answer)'
  BY <1>1, AnswerKept DEF ReplyHolds
<1>5. c.pc = "cursor" => Taken(log'["cloud"], c.answer.down, have'["edge"])
  BY <1>1, <1>2, LogsKeep DEF ReplyHolds, AnswerHolds
<1> QED
  BY <1>3, <1>4, <1>5 DEF ReplyHolds

-----------------------------------------------------------------------------
(* The handlers of the cloud.                                               *)
\* A step concerns a handler that is sent a request, goes on, or ends.
LEMMA HandlerMoves ==
    ASSUME Typed, [Next]_vars, NEW h \in Handlers
    PROVE  \/ server'[h] = server[h] \/ server'[h].pc = "free" \/ Send(h)
           \/ ReadProgress(h) \/ WriteProgress(h) \/ Import(h) \/ ImportAudit(h) \/ Collect(h)
<1>1. ASSUME NEW g \in Handlers, Send(g) \/ Handle(g) \/ Fail(g), g # h
      PROVE  server'[h] = server[h]
  BY <1>1 DEF Send, Handle, Fail, Refused, Goes, ReadProgress, WriteProgress, Import, ImportAudit,
              Collect, Offer, Typed
<1>2. ASSUME Fail(h) \/ Offer(h)
      PROVE  server'[h].pc = "free"
  BY <1>2 DEF Fail, Offer, Refused, Free, Typed
<1>3. \/ UNCHANGED server
      \/ \E g \in Handlers : Send(g) \/ Handle(g) \/ Fail(g)
  BY DEF Next, Step, Exchange, TakePermissions, ImportAnswer, SaveCursor, ChangeRight,
         CompleteMetadata, GiveUp, EditDevice, HandleAlarm, PublishRule, vars
<1> QED
  BY <1>1, <1>2, <1>3 DEF Handle

LEMMA SendHolds ==
    ASSUME ExchangeConstants, XInv, Typed', NEW h \in Handlers, Send(h)
    PROVE  RequestHolds(server[h])'
<1> USE DEF XInv
<1> DEFINE changes == After(log["edge"], cursor.up)
<1>1. cursor.up \in Nat /\ cursor.audit \in Nat /\ Len(log["edge"]) \in Nat /\ trail \in Nat
  BY LenProperties DEF Typed
<1>2. /\ Len(changes) \in Nat
      /\ cursor.up + Len(changes) \in 0 .. Len(log["edge"])
      /\ \A j \in 1 .. cursor.up + Len(changes) : j <= cursor.up \/ log["edge"][j] \in ToSet(changes)
  <2>1. Batch \in Nat /\ log["edge"] \in Seq(EdgeDocs) /\ cursor.up \in 0 .. Len(log["edge"])
    BY <1>1 DEF ExchangeConstants, Typed, Cursors
  <2> QED
    BY <2>1, AfterFollows
<1>3. /\ server'[h].pc = "cursor"
      /\ server'[h].request.up = cursor.up + Len(changes)
      /\ server'[h].request.down = cursor.down
      /\ server'[h].request.changes = changes
      /\ server'[h].request.audit[2] = Least(trail, cursor.audit + Batch)
      /\ UNCHANGED <<log, have, trail>>
  BY DEF Send, Typed, Free
<1> HIDE DEF changes
<1>4. Sent(log["edge"], cursor.up + Len(changes), have["cloud"] \cup ToSet(changes))
  BY <1>1, <1>2 DEF Sent, Cursors
<1>5. Least(trail, cursor.audit + Batch) <= trail
  BY <1>1 DEF Least, ExchangeConstants
<1>6. cursor.up + Len(changes) <= Len(log["edge"])
  BY <1>1, <1>2
<1> QED
  BY <1>3, <1>4, <1>5, <1>6 DEF RequestHolds, Cursors

LEMMA CollectHolds ==
    ASSUME ExchangeConstants, XInv, Typed', NEW h \in Handlers, Collect(h)
    PROVE  RequestHolds(server[h])'
<1> USE DEF XInv
<1> DEFINE r == server[h].request
           changes == After(log["cloud"], r.down)
           given == {d \in ToSet(changes) : Destined(d)}
<1>1. /\ server[h].pc = "changes"
      /\ server'[h].pc = "offer" /\ server'[h].request = r
      /\ server'[h].answer.down = r.down + Len(changes)
      /\ server'[h].answer.changes = given
      /\ server'[h].answer.audit = copy
      /\ UNCHANGED <<log, have, trail, copy>>
  BY DEF Collect, Typed, HandlerState
<1>2. /\ r.down <= Len(log["cloud"]) /\ Taken(log["cloud"], r.down, have["edge"])
      /\ r.down \in Nat /\ Len(log["cloud"]) \in Nat /\ copy \in Nat
  <2>1. r.down \in Nat /\ Len(log["cloud"]) \in Nat
    BY LenProperties DEF Typed, HandlerState, Request, Sites
  <2> QED
    BY <1>1, <2>1 DEF RequestHolds, Typed
<1>3. /\ Len(changes) \in Nat
      /\ r.down + Len(changes) \in 0 .. Len(log["cloud"])
      /\ \A j \in 1 .. r.down + Len(changes) : j <= r.down \/ log["cloud"][j] \in ToSet(changes)
  <2>1. Batch \in Nat /\ log["cloud"] \in Seq(Docs) /\ r.down \in 0 .. Len(log["cloud"])
    BY SMTT(30), <1>2 DEF ExchangeConstants, Typed, Sites
  <2> QED
    BY <2>1, AfterFollows
<1> HIDE DEF changes
<1>4. Taken(log["cloud"], r.down + Len(changes), have["edge"] \cup given)
  BY <1>2, <1>3 DEF Taken
<1>5. r.down + Len(changes) <= Len(log["cloud"]) /\ copy <= copy
  BY <1>2, <1>3
<1> HIDE DEF given
<1>6. AnswerHolds(server[h].answer)'
  BY <1>1, <1>4, <1>5 DEF AnswerHolds
<1>7. RequestHolds(server[h])
  OBVIOUS
<1> HIDE DEF r
<1> QED
  BY <1>1, <1>6, <1>7 DEF RequestHolds, r

LEMMA ServerSteps ==
    ASSUME ExchangeConstants, XInv, [Next]_vars, Typed', Grows, NEW h \in Handlers
    PROVE  RequestHolds(server[h])'
<1> USE DEF XInv
<1>1. PICK o \in HandlerState : o = server[h]
  BY DEF Typed
<1>2. PICK q \in HandlerState : q = server'[h]
  BY DEF Typed
<1>3. RequestHolds(o) /\ RequestHolds(o)'
  BY <1>1, RequestKept
<1>4. SUFFICES RequestHolds(q)'
  BY <1>2 DEF RequestHolds, AnswerHolds
<1>5. CASE q = o
  BY <1>3, <1>5
<1>6. CASE q.pc = "free"
  BY <1>6 DEF RequestHolds
<1>7. CASE Send(h)
  BY <1>7, <1>2, SendHolds DEF RequestHolds, AnswerHolds
<1>8. CASE Collect(h)
  BY <1>8, <1>2, CollectHolds DEF RequestHolds, AnswerHolds
<1>9. CASE ReadProgress(h) \/ WriteProgress(h)
  <2>1. o.pc # "free" /\ (q.pc = "free" \/ (q.request = o.request /\ q.pc \in {"import", "progress"}))
    BY <1>1, <1>2, <1>9 DEF ReadProgress, WriteProgress, Refused, Goes, Free, Typed, HandlerState
  <2>2. CASE q.request = o.request /\ q.pc \in {"import", "progress"}
    BY <2>1, <2>2, <1>3 DEF RequestHolds
  <2> QED
    BY <2>1, <2>2, <1>6
<1>10. CASE ImportAudit(h)
  <2>1. /\ o.pc = "audit"
        /\ q.pc = "free" \/ (q.request = o.request /\ q.pc = "changes")
    BY <1>1, <1>2, <1>10 DEF ImportAudit, Refused, Goes, Free, Typed, HandlerState
  <2>2. CASE q.request = o.request /\ q.pc = "changes"
    BY <2>1, <2>2, <1>3 DEF RequestHolds
  <2> QED
    BY <2>1, <2>2, <1>6
<1>11. CASE Import(h)
  <2>1. /\ o.pc = "import"
        /\ q.pc = "free" \/ (/\ q.request = o.request /\ q.pc = "audit"
                             /\ ToSet(o.request.changes) \subseteq have'["cloud"])
    <3>1. CASE Refused(h)
      BY <3>1, <1>1, <1>2, <1>11 DEF Import, Refused, Free, Typed
    <3>2. CASE ~Refused(h)
      <4>1. Goes(h, "audit") /\ have' = Imported("cloud", ToSet(o.request.changes))
        BY <3>2, <1>1, <1>11 DEF Import
      <4>2. q.request = o.request /\ q.pc = "audit"
        BY <4>1, <1>1, <1>2 DEF Goes, Typed, HandlerState
      <4>3. ToSet(o.request.changes) \subseteq have'["cloud"]
        BY <4>1 DEF Imported, Typed, Sites
      <4> QED
        BY <4>2, <4>3, <1>1, <1>11 DEF Import
    <3> QED
      BY <3>1, <3>2
  <2>2. CASE /\ q.request = o.request /\ q.pc = "audit"
             /\ ToSet(o.request.changes) \subseteq have'["cloud"]
    <3>1. Sent(log'["edge"], o.request.up, have'["cloud"] \cup ToSet(o.request.changes))
      BY <1>3, <2>1 DEF RequestHolds
    <3>2. have'["cloud"] \cup ToSet(o.request.changes) = have'["cloud"]
      BY <2>2
    <3>3. Sent(log'["edge"], o.request.up, have'["cloud"])
      BY <3>1, <3>2
    <3> QED
      BY <3>3, <2>1, <2>2, <1>3 DEF RequestHolds
  <2> QED
    BY <2>1, <2>2, <1>6
<1> QED
  BY <1>1, <1>2, <1>5, <1>6, <1>7, <1>8, <1>9, <1>10, <1>11, HandlerMoves

-----------------------------------------------------------------------------
(* The call of the edge.                                                    *)
\* A step starts or ends the call, or takes the answer a transaction further.
LEMMA ClientMoves ==
    ASSUME Typed, [Next]_vars
    PROVE  \/ client' = client
           \/ client' = Idle
           \/ \E h \in Handlers : Send(h)
           \/ \E h \in Handlers :
                /\ Offer(h) /\ client.pc = "waiting" /\ client.by = h
                /\ client' = [client EXCEPT !.pc = "permissions", !.answer = server[h].answer]
           \/ client.pc = "permissions" /\ client' = [client EXCEPT !.pc = "import"]
           \/ /\ client.pc = "import" /\ client' = [client EXCEPT !.pc = "cursor"]
              /\ have' = Imported("edge", client.answer.changes) /\ UNCHANGED log
<1>1. ASSUME NEW h \in Handlers, Handle(h) \/ Fail(h), ~Offer(h)
      PROVE  client' = client \/ client' = Idle
  BY <1>1 DEF Handle, Fail, ReadProgress, WriteProgress, Import, ImportAudit, Collect, Refused, Goes
<1>2. ASSUME NEW h \in Handlers, Offer(h)
      PROVE  \/ client' = client
             \/ /\ client.pc = "waiting" /\ client.by = h
                /\ client' = [client EXCEPT !.pc = "permissions", !.answer = server[h].answer]
  BY <1>2 DEF Offer
<1>3. CASE TakePermissions
  BY <1>3 DEF TakePermissions
<1>4. CASE ImportAnswer
  BY <1>4 DEF ImportAnswer
<1>5. CASE SaveCursor \/ GiveUp
  BY <1>5 DEF SaveCursor, GiveUp
<1>6. CASE \/ EditDevice \/ HandleAlarm \/ PublishRule \/ ChangeRight \/ CompleteMetadata
           \/ UNCHANGED vars
  BY <1>6 DEF EditDevice, HandleAlarm, PublishRule, ChangeRight, CompleteMetadata, vars
<1> QED
  BY <1>1, <1>2, <1>3, <1>4, <1>5, <1>6 DEF Next, Step, Exchange

LEMMA ReplySteps ==
    ASSUME ExchangeConstants, XInv, [Next]_vars, Typed', Grows
    PROVE  ReplyHolds(client)'
<1> USE DEF XInv
<1>1. PICK c \in ClientState : c = client
  BY DEF Typed
<1>2. PICK d \in ClientState : d = client'
  BY DEF Typed
<1>3. ReplyHolds(c)'
  BY <1>1, ReplyKept
<1>4. SUFFICES ReplyHolds(d)'
  BY <1>2 DEF ReplyHolds, AnswerHolds
<1>5. CASE client' = client
  BY <1>1, <1>2, <1>3, <1>5
<1>6. CASE d.pc \in {"idle", "waiting"}
  BY <1>6 DEF ReplyHolds
<1>7. CASE client' = Idle \/ \E h \in Handlers : Send(h)
  <2>1. ASSUME NEW h \in Handlers, Send(h) PROVE client'.pc = "waiting"
    BY <2>1 DEF Idle, Send
  <2>2. Idle.pc = "idle"
    BY DEF Idle
  <2>3. d.pc \in {"idle", "waiting"}
    BY <1>2, <1>7, <2>1, <2>2
  <2> QED
    BY <2>3, <1>6
<1>8. ASSUME NEW h \in Handlers, Offer(h), client.pc = "waiting", client.by = h,
             client' = [client EXCEPT !.pc = "permissions", !.answer = server[h].answer]
      PROVE  ReplyHolds(d)'
  <2>1. PICK o \in HandlerState : o = server[h]
    BY DEF Typed
  <2>2. RequestHolds(o)'
    BY <2>1, RequestKept
  <2>3. o.pc = "offer" /\ c.request = o.request
    BY <2>1, <1>1, <1>8 DEF Offer, Waits
  <2>4. d.pc = "permissions" /\ d.request = c.request /\ d.answer = o.answer
    BY <2>1, <1>1, <1>2, <1>8 DEF ClientState
  <2> QED
    BY <2>2, <2>3, <2>4 DEF RequestHolds, ReplyHolds
<1>9. CASE client.pc = "permissions" /\ client' = [client EXCEPT !.pc = "import"]
  <2>1. c.pc = "permissions" /\ d.pc = "import" /\ d.request = c.request /\ d.answer = c.answer
    BY <1>1, <1>2, <1>9 DEF ClientState
  <2> QED
    BY <2>1, <1>3 DEF ReplyHolds
<1>10. CASE /\ client.pc = "import" /\ client' = [client EXCEPT !.pc = "cursor"]
            /\ have' = Imported("edge", client.answer.changes) /\ UNCHANGED log
  <2>1. c.pc = "import" /\ d.pc = "cursor" /\ d.request = c.request /\ d.answer = c.answer
    BY <1>1, <1>2, <1>10 DEF ClientState
  <2>2. have'["edge"] = have["edge"] \cup c.answer.changes
    BY <1>1, <1>10 DEF Imported, Typed, Sites
  <2>3. Taken(log'["cloud"], c.answer.down, have'["edge"] \cup c.answer.changes)
    BY <2>1, <1>3 DEF ReplyHolds, AnswerHolds
  <2>4. have'["edge"] \cup c.answer.changes = have'["edge"]
    BY <2>2
  <2>5. Taken(log'["cloud"], d.answer.down, have'["edge"])
    BY <2>1, <2>3, <2>4
  <2> QED
    BY <2>1, <2>5, <1>3 DEF ReplyHolds
<1> QED
  BY <1>5, <1>7, <1>8, <1>9, <1>10, ClientMoves

LEMMA WaitSteps ==
    ASSUME XInv, [Next]_vars, Typed'
    PROVE  Waits'
<1> USE DEF XInv
<1>1. SUFFICES ASSUME client'.pc = "waiting" PROVE Waits'
  BY DEF Waits
<1>2. ASSUME NEW h \in Handlers, Send(h)
      PROVE  Waits'
  <2>1. /\ client'.by = h /\ client'.request = server'[h].request /\ server'[h].pc = "cursor"
    BY <1>2 DEF Send, Idle, Free, Typed
  <2> QED
    BY <2>1 DEF Waits
<1>3. ASSUME client' = client, \A h \in Handlers : ~Send(h)
      PROVE  Waits'
  <2>1. PICK h \in Handlers : h = client.by /\ server[h].pc # "free" /\ server[h].request = client.request
    BY <1>1, <1>3 DEF Waits
  <2>2. client.pc = "waiting" /\ client'.by = h /\ client'.request = client.request
    BY <1>1, <1>3, <2>1
  <2>3. server'[h].pc # "free" /\ server'[h].request = server[h].request
    <3>1. ASSUME Refused(h) PROVE FALSE
      <4>1. client' = Idle
        BY <3>1, <2>1, <2>2 DEF Refused
      <4> QED
        BY <4>1, <1>1 DEF Idle
    <3>2. ASSUME Offer(h) PROVE FALSE
      <4>1. client' = [client EXCEPT !.pc = "permissions", !.answer = server[h].answer]
        BY <3>2, <2>1, <2>2 DEF Offer
      <4> QED
        BY <4>1, <1>1 DEF Typed, ClientState
    <3>3. CASE server'[h] = server[h]
      BY <3>3, <2>1
    <3>4. CASE ReadProgress(h) \/ WriteProgress(h) \/ Import(h) \/ ImportAudit(h) \/ Collect(h)
      <4>1. PICK o \in HandlerState : o = server[h]
        BY DEF Typed
      <4>2. CASE Collect(h)
        <5>1. /\ server'[h].pc = "offer" /\ server'[h].request = server[h].request
          BY <4>1, <4>2 DEF Collect, Typed, HandlerState
        <5> QED
          BY <5>1
      <4>3. CASE ReadProgress(h)
        BY <4>1, <4>3, <3>1 DEF ReadProgress, Goes, Typed, HandlerState
      <4>4. CASE WriteProgress(h) \/ Import(h) \/ ImportAudit(h)
        <5>1. \E pc \in {"import", "audit", "changes"} : Goes(h, pc)
          BY <4>4, <3>1 DEF WriteProgress, Import, ImportAudit
        <5> QED
          BY SMTT(30), <4>1, <5>1 DEF Goes, Typed, HandlerState
      <4> QED
        BY <3>4, <4>2, <4>3, <4>4
    <3>5. \/ server'[h] = server[h] \/ Refused(h) \/ Offer(h)
          \/ ReadProgress(h) \/ WriteProgress(h) \/ Import(h) \/ ImportAudit(h) \/ Collect(h)
      <4>1. ASSUME NEW g \in Handlers, Send(g) \/ Handle(g) \/ Fail(g), g # h
            PROVE  server'[h] = server[h]
        BY <4>1 DEF Send, Handle, Fail, Refused, Goes, ReadProgress, WriteProgress, Import,
                    ImportAudit, Collect, Offer, Typed
      <4>2. \/ UNCHANGED server
            \/ \E g \in Handlers : Send(g) \/ Handle(g) \/ Fail(g)
        BY DEF Next, Step, Exchange, TakePermissions, ImportAnswer, SaveCursor, ChangeRight,
               CompleteMetadata, GiveUp, EditDevice, HandleAlarm, PublishRule, vars
      <4> QED
        BY <4>1, <4>2, <1>3 DEF Handle, Fail
    <3> QED
      BY <3>1, <3>2, <3>3, <3>4, <3>5
  <2> QED
    BY <2>1, <2>2, <2>3 DEF Waits
<1>4. client' # Idle
  BY <1>1 DEF Idle
<1>5. /\ client' # [client EXCEPT !.pc = "import"] /\ client' # [client EXCEPT !.pc = "cursor"]
      /\ \A a : client' # [client EXCEPT !.pc = "permissions", !.answer = a]
  BY <1>1 DEF Typed, ClientState
<1> QED
  BY <1>2, <1>3, <1>4, <1>5, ClientMoves

-----------------------------------------------------------------------------
(* The cursors, and the rules that are published.                           *)
LEMMA CursorSteps ==
    ASSUME ExchangeConstants, XInv, [Next]_vars, Typed', Grows
    PROVE  Cursors'
<1> USE DEF XInv
<1>1. /\ cursor.up \in Nat /\ cursor.down \in Nat /\ cursor.audit \in Nat /\ progress.down \in Nat
      /\ copy \in Nat /\ copy' \in Nat /\ trail \in Nat /\ trail' \in Nat
  BY DEF Typed
<1>2. have["edge"] \subseteq have'["edge"] /\ have["cloud"] \subseteq have'["cloud"]
  BY DEF Grows, Sites
<1>3. /\ cursor'.up <= Len(log'["edge"]) /\ Sent(log'["edge"], cursor'.up, have'["cloud"])
      /\ cursor'.down <= Len(log'["cloud"]) /\ Taken(log'["cloud"], cursor'.down, have'["edge"])
      /\ cursor'.audit <= copy'
  <2>1. CASE SaveCursor
    <3>1. PICK c \in ClientState : c = client
      BY DEF Typed
    <3>2. ReplyHolds(c)'
      BY <3>1, ReplyKept
    <3>3. /\ c.pc = "cursor" /\ cursor'.up = c.request.up /\ cursor'.down = c.answer.down
          /\ cursor'.audit = c.answer.audit
      BY <3>1, <2>1 DEF SaveCursor
    <3> QED
      BY <3>2, <3>3 DEF ReplyHolds, AnswerHolds
  <2>2. CASE UNCHANGED cursor
    <3>1. /\ cursor.up <= Len(log'["edge"]) /\ Sent(log'["edge"], cursor.up, have'["cloud"])
      BY <1>1, <1>2, LogsKeep DEF Cursors
    <3>2. /\ cursor.down <= Len(log'["cloud"]) /\ Taken(log'["cloud"], cursor.down, have'["edge"])
      BY <1>1, <1>2, LogsKeep DEF Cursors
    <3>3. cursor.audit <= copy'
      BY <1>1 DEF Cursors, Grows
    <3> QED
      BY <2>2, <3>1, <3>2, <3>3
  <2>3. SaveCursor \/ UNCHANGED cursor
    BY DEF Next, Step, Exchange, Handle, Send, ReadProgress, WriteProgress, Import, ImportAudit,
           Collect, Offer, TakePermissions, ImportAnswer, ChangeRight, CompleteMetadata,
           GiveUp, Fail, EditDevice, HandleAlarm, PublishRule, vars
  <2> QED
    BY <2>1, <2>2, <2>3
<1>4. progress'.down <= Len(log'["cloud"]) /\ Taken(log'["cloud"], progress'.down, have'["edge"])
  <2>1. ASSUME NEW h \in Handlers, WriteProgress(h)
        PROVE  progress'.down <= Len(log'["cloud"]) /\ Taken(log'["cloud"], progress'.down, have'["edge"])
    <3>1. /\ server[h].pc = "progress" /\ progress'.down = server[h].request.down
          /\ UNCHANGED <<log, have>>
      BY <2>1 DEF WriteProgress
    <3> QED
      BY <3>1 DEF RequestHolds
  <2>2. CASE progress'.down = progress.down
    <3>1. progress.down <= Len(log'["cloud"]) /\ Taken(log'["cloud"], progress.down, have'["edge"])
      BY <1>1, <1>2, LogsKeep DEF Cursors
    <3> QED
      BY <2>2, <3>1
  <2>3. progress'.down = progress.down \/ \E h \in Handlers : WriteProgress(h)
    <3>1. ASSUME NEW h \in Handlers, Offer(h)
          PROVE  progress'.down = progress.down
      BY <3>1 DEF Offer, Typed
    <3>2. \/ UNCHANGED progress
          \/ \E h \in Handlers : Offer(h) \/ WriteProgress(h)
      BY DEF Next, Step, Exchange, Handle, Send, ReadProgress, Import, ImportAudit, Collect,
             TakePermissions, ImportAnswer, SaveCursor, ChangeRight, CompleteMetadata,
             GiveUp, Fail, EditDevice, HandleAlarm, PublishRule, vars
    <3> QED
      BY <3>1, <3>2
  <2> QED
    BY <2>1, <2>2, <2>3
<1>5. copy' <= trail'
  <2>1. ASSUME NEW h \in Handlers, ImportAudit(h)
        PROVE  copy' <= trail'
    <3>1. server[h].request.audit[2] <= trail /\ server[h].request.audit[2] \in Nat /\ UNCHANGED trail
      BY <2>1 DEF ImportAudit, RequestHolds, Typed, HandlerState, Request
    <3>2. copy' = copy \/ copy' = Greatest(copy, server[h].request.audit[2])
      BY <2>1 DEF ImportAudit
    <3> QED
      BY <3>1, <3>2, <1>1 DEF Cursors, Greatest
  <2>2. UNCHANGED copy \/ \E h \in Handlers : ImportAudit(h)
    BY DEF Next, Step, Exchange, Handle, Send, ReadProgress, WriteProgress, Import,
           Collect, Offer, TakePermissions, ImportAnswer, SaveCursor, ChangeRight, CompleteMetadata,
           GiveUp, Fail, EditDevice, HandleAlarm, PublishRule, vars
  <2> QED
    BY <2>1, <2>2, <1>1 DEF Cursors, Grows
<1> QED
  BY <1>3, <1>4, <1>5 DEF Cursors

\* A record is closed when the edge has acknowledged the cursor behind its rule.
LEMMA RuleSteps ==
    ASSUME ExchangeConstants, XInv, [Next]_vars, Typed', Grows
    PROVE  Rules'
<1> USE DEF XInv
<1>1. have["edge"] \subseteq have'["edge"] /\ have["cloud"] \subseteq have'["cloud"]
  BY DEF Grows, Sites
<1>2. CASE PublishRule
  <2>1. PICK v \in 1 .. MaxEdits : /\ Put("cloud", [name |-> "rule", v |-> v])
                                   /\ records' = records \cup {[name |-> "rule", v |-> v]}
    BY <1>2 DEF PublishRule
  <2>2. have'["cloud"] = have["cloud"] \cup {[name |-> "rule", v |-> v]}
    BY <2>1 DEF Put, Typed, Sites
  <2> QED
    BY <1>1, <2>1, <2>2 DEF Rules, Versions
<1>3. ASSUME NEW h \in Handlers, Import(h)
      PROVE  Rules'
  <2>1. \A d \in ToSet(server[h].request.changes) : d.name # "rule"
    <3>1. server[h].request.changes \in Seq(EdgeDocs)
      BY DEF Typed, HandlerState, Request
    <3>2. ToSet(server[h].request.changes) \subseteq EdgeDocs
      BY <3>1, LenProperties DEF ToSet
    <3> QED
      BY <3>2 DEF EdgeDocs
  <2>2. \/ UNCHANGED have
        \/ have'["cloud"] = have["cloud"] \cup ToSet(server[h].request.changes)
    BY <1>3 DEF Import, Imported, Typed, Sites
  <2>3. UNCHANGED records
    BY <1>3 DEF Import
  <2> QED
    BY <1>1, <2>1, <2>2, <2>3 DEF Rules, Versions
<1>4. CASE CompleteMetadata
  <2>1. PICK d \in records : Confirmed(d) /\ records' = records \ {d} /\ UNCHANGED <<log, have, progress>>
    BY <1>4 DEF CompleteMetadata
  <2>2. d.name = "rule" => d \in have["edge"]
    <3>1. \E i \in DOMAIN log["cloud"] : log["cloud"][i] = d
      BY DEF Rules, Logs, ToSet
    <3>2. Place(d) \in DOMAIN log["cloud"] /\ log["cloud"][Place(d)] = d
      BY <3>1 DEF Place
    <3>3. DOMAIN log["cloud"] = 1 .. Len(log["cloud"]) /\ Len(log["cloud"]) \in Nat
          /\ progress.down \in Nat
      BY LenProperties DEF Typed, Sites
    <3>4. Place(d) \in 1 .. progress.down
      BY <2>1, <3>2, <3>3 DEF Confirmed
    <3> QED
      BY <3>2, <3>4 DEF Cursors, Taken, Destined
  <2> QED
    BY <2>1, <2>2 DEF Rules, Versions
<1>5. CASE UNCHANGED records /\ have'["cloud"] = have["cloud"]
  BY <1>1, <1>5 DEF Rules, Versions
<1>6. \/ PublishRule \/ CompleteMetadata \/ (\E h \in Handlers : Import(h))
      \/ (UNCHANGED records /\ have'["cloud"] = have["cloud"])
  <2>1. CASE EditDevice \/ HandleAlarm
    BY <2>1 DEF EditDevice, HandleAlarm, Put, Typed, Sites
  <2>2. CASE ImportAnswer
    BY <2>2 DEF ImportAnswer, Imported, Typed, Sites
  <2>3. \/ EditDevice \/ HandleAlarm \/ ImportAnswer \/ UNCHANGED <<records, have>>
        \/ PublishRule \/ CompleteMetadata \/ (\E h \in Handlers : Import(h))
    BY DEF Next, Step, Exchange, Handle, Send, ReadProgress, WriteProgress, ImportAudit,
           Collect, Offer, TakePermissions, SaveCursor, ChangeRight, GiveUp, Fail, vars
  <2> QED
    BY <2>1, <2>2, <2>3
<1> QED
  BY <1>2, <1>3, <1>4, <1>5, <1>6

-----------------------------------------------------------------------------
(* The invariant.                                                           *)
LEMMA InitXInv ==
    ASSUME ExchangeConstants, Init
    PROVE  XInv
<1>1. /\ log["edge"] = <<>> /\ log["cloud"] = <<>> /\ have["edge"] = {} /\ have["cloud"] = {}
      /\ \A s \in Sites : log[s] = <<>> /\ have[s] = {}
  BY DEF Init, Sites
<1>2. <<>> \in Seq(Docs) /\ <<>> \in Seq(EdgeDocs) /\ Len(<<>>) = 0
      /\ DOMAIN <<>> = {} /\ ToSet(<<>>) = {}
  BY DEF ToSet
<1>3. Typed
  BY <1>1, <1>2, Nothing DEF Init, Typed
<1>4. Logs
  BY <1>1, <1>2 DEF Logs, IsInjective
<1>5. \A h \in Handlers : RequestHolds(server[h])
  BY DEF Init, RequestHolds, Free
<1>6. ReplyHolds(client) /\ Waits
  BY DEF Init, ReplyHolds, Waits, Idle
<1>7. Cursors
  BY <1>1, <1>2 DEF Init, Cursors, Sent, Taken
<1>8. Rules
  BY <1>1 DEF Init, Rules, Versions
<1> QED
  BY <1>3, <1>4, <1>5, <1>6, <1>7, <1>8 DEF XInv

LEMMA StepKeeps ==
    ASSUME ExchangeConstants, XInv, [Next]_vars
    PROVE  XInv'
<1>1. LogStep
  BY LogSteps DEF XInv
<1>2. Typed'
  BY <1>1, TypeSteps
<1>3. Grows
  BY <1>1, StepGrows DEF XInv
<1>4. Logs'
  BY <1>1 DEF LogStep
<1>5. \A h \in Handlers : RequestHolds(server[h])'
  BY <1>2, <1>3, ServerSteps
<1>6. ReplyHolds(client)'
  BY <1>2, <1>3, ReplySteps
<1>7. Waits' /\ Cursors' /\ Rules'
  BY <1>2, <1>3, WaitSteps, CursorSteps, RuleSteps
<1> QED
  BY <1>2, <1>4, <1>5, <1>6, <1>7 DEF XInv

LEMMA NoneIsSkipped ==
    XInv => NothingSkipped
  BY DEF XInv, NothingSkipped, Cursors, Rules, Sent, Taken

\* In every behaviour, whatever the number of handlers, changes in a batch,
\* documents, revocations and faults: what a cursor, a request or an answer
\* has passed is in the other database (Client.Exchange, Server.Exchange).
THEOREM ExchangeInvariance == ExchangeConstants => (Spec => []XInv)
<1> SUFFICES ASSUME ExchangeConstants PROVE Spec => []XInv
  OBVIOUS
<1>1. Init => XInv
  BY InitXInv
<1>2. XInv /\ [Next]_vars => XInv'
  BY StepKeeps
<1> QED
  BY <1>1, <1>2, PTL DEF Spec

\* No cursor passes what the other side has not committed, and a publication
\* record is closed only when the edge has the rule (acknowledgeCursor,
\* CompleteMetadata).
THEOREM NoneSkipped == ExchangeConstants => (Spec => []NothingSkipped)
<1> SUFFICES ASSUME ExchangeConstants PROVE Spec => []NothingSkipped
  OBVIOUS
<1> QED
  BY NoneIsSkipped, ExchangeInvariance, PTL

\* The logs hold each document once and are in the database of their site, and
\* no cursor is beyond the end of a log (store.RecordChange, ImportDocument).
THEOREM TypeCorrect == ExchangeConstants => (Spec => []TypeOK)
<1> SUFFICES ASSUME ExchangeConstants PROVE Spec => []TypeOK
  OBVIOUS
<1>1. XInv => TypeOK
  <2> SUFFICES ASSUME XInv PROVE TypeOK
    OBVIOUS
  <2>1. \A s \in Sites : have[s] \subseteq [name : Names, v : 1 .. MaxEdits]
    BY DEF XInv, Typed, Docs
  <2>2. client.pc \in {"idle", "waiting", "permissions", "import", "cursor"}
    BY DEF XInv, Typed, ClientState
  <2>3. \A h \in Handlers :
          server[h].pc \in {"free", "cursor", "progress", "import", "audit", "changes", "offer"}
    BY DEF XInv, Typed, HandlerState
  <2> QED
    BY <2>1, <2>2, <2>3 DEF XInv, TypeOK, Logs, Cursors, Rules
<1> QED
  BY <1>1, ExchangeInvariance, PTL
=============================================================================
