------------------------ MODULE CommandService_proofs ------------------------
(***************************************************************************)
(* The guarantees of the command service for any number of commands,       *)
(* calls, retries, repetitions and restarts.                               *)
(***************************************************************************)
EXTENDS CommandService, TLAPS

CallState ==
    [pc : {"idle", "route", "attempt", "sending", "complete", "reply"},
     cmd : Commands \cup {None}, async : BOOLEAN, attempt : Nat,
     ctx : {"live", "deadline", "cancelled"}, res : Status]

Settled(c) == records[c] # None /\ records[c].phase = "complete"

\* How far a call has got, given the journal and the commands sent.
Progress(l) ==
    /\ l.pc = "route" => sent[l.cmd] = 0 /\ l.attempt = 0
    /\ l.pc = "attempt" => sent[l.cmd] = l.attempt /\ l.attempt <= RetryCount(l.cmd)
    /\ l.pc = "sending" => sent[l.cmd] = l.attempt + 1 /\ l.attempt <= RetryCount(l.cmd)
    /\ l.pc = "complete" /\ l.res \in Definite /\ l.cmd \notin Idempotent /\ sent[l.cmd] > 0
       => device[l.cmd] = l.res
    /\ l.pc = "reply" /\ l.res \in Definite =>
       Settled(l.cmd) /\ records[l.cmd].res = l.res

CallOK(k) ==
    calls[k].pc # "idle" =>
        /\ calls[k].cmd \in Commands
        /\ Executing(k) => /\ records[calls[k].cmd] # None
                           /\ records[calls[k].cmd].phase = "running"
        /\ Durable => Progress(calls[k])

EntryOK(c) ==
    /\ Durable /\ records[c] = None => sent[c] = 0
    /\ records[c] # None /\ records[c].phase = "running" => records[c].res = "RESULT_UNKNOWN"

CInv ==
    /\ TypeOK
    /\ \A k \in Calls : CallOK(k)
    /\ \A c \in Commands : EntryOK(c)
    /\ OneExecution
    /\ SendBudget
    /\ NoFalseVerdict
    /\ AnswersFromJournal

LEMMA RetryCountType == \A c \in Commands : RetryCount(c) \in Nat
BY CommandAssumption DEF RetryCount

LEMMA InitCInv == Init => CInv
<1> SUFFICES ASSUME Init PROVE CInv
  OBVIOUS
<1>1. TypeOK
  BY DEF Init, TypeOK, IdleCall, Status
<1>2. \A k \in Calls : calls[k].pc = "idle"
  BY DEF Init, IdleCall
<1>3. (\A k \in Calls : CallOK(k)) /\ OneExecution
  BY <1>2 DEF CallOK, OneExecution, Executing
<1>4. \A c \in Commands : records[c] = None /\ sent[c] = 0
  BY DEF Init
<1>5. \A c \in Commands : EntryOK(c)
  BY <1>4 DEF EntryOK
<1>6. SendBudget /\ NoFalseVerdict /\ AnswersFromJournal
  BY <1>4, RetryCountType DEF SendBudget, NoFalseVerdict, AnswersFromJournal, Init
<1> QED BY <1>1, <1>3, <1>5, <1>6 DEF CInv

\* Call k goes on as l and touches only what belongs to its command.
Moves(k, l) ==
    /\ l \in CallState
    /\ l.cmd = calls[k].cmd
    /\ l.pc \in {"route", "attempt", "sending", "complete"}
    /\ calls' = [calls EXCEPT ![k] = l]
    /\ UNCHANGED <<records, closed, answers, requests, crashes>>
    /\ sent' \in [Commands -> Nat]
    /\ device' \in [Commands -> Status \cup {None}]
    /\ \A c \in Commands : c # l.cmd => sent'[c] = sent[c] /\ device'[c] = device[c]
    /\ Durable => sent'[l.cmd] <= RetryCount(l.cmd) + 1
    /\ Durable =>
          /\ l.pc = "route" => sent'[l.cmd] = 0 /\ l.attempt = 0
          /\ l.pc = "attempt" => sent'[l.cmd] = l.attempt /\ l.attempt <= RetryCount(l.cmd)
          /\ l.pc = "sending" => sent'[l.cmd] = l.attempt + 1 /\ l.attempt <= RetryCount(l.cmd)
          /\ l.pc = "complete" /\ l.res \in Definite /\ l.cmd \notin Idempotent
             /\ sent'[l.cmd] > 0 => device'[l.cmd] = l.res

LEMMA CallMoves ==
    ASSUME CInv, NEW k \in Calls, Executing(k), NEW l, Moves(k, l)
    PROVE  CInv'
<1> USE DEF Moves
<1> DEFINE c == l.cmd
<1>1. /\ c \in Commands
      /\ records[c] # None /\ records[c].phase = "running"
  BY DEF CInv, CallOK, Executing
<1>2. \A j \in Calls : calls'[j] = IF j = k THEN l ELSE calls[j]
  BY DEF CInv, TypeOK
<1>3. TypeOK'
  BY DEF CInv, TypeOK, CallState
<1>4. \A j \in Calls : j # k /\ Executing(j) => calls[j].cmd # c
  BY DEF CInv, OneExecution
<1>5. \A j \in Calls : CallOK(j)'
  <2> SUFFICES ASSUME NEW j \in Calls PROVE CallOK(j)'
    OBVIOUS
  <2>1. CASE j = k
    BY <2>1, <1>1, <1>2 DEF CallOK, Executing, Progress, RetryCount
  <2>2. CASE j # k
    <3>1. CallOK(j) /\ calls'[j] = calls[j] /\ (Executing(j)' <=> Executing(j))
      BY <2>2, <1>2 DEF CInv, Executing
    <3>2. CASE Executing(j)
      <4>1. CASE calls[j].cmd \in Commands
        <5>1. sent'[calls[j].cmd] = sent[calls[j].cmd] /\ device'[calls[j].cmd] = device[calls[j].cmd]
          BY <1>4, <2>2, <3>2, <4>1
        <5> QED BY <3>1, <5>1, <3>2 DEF CallOK, Progress, RetryCount, Settled, Executing
      <4>2. CASE calls[j].cmd \notin Commands
        BY <4>2, <3>1, <3>2 DEF CallOK, Executing
      <4> QED BY <4>1, <4>2
    <3>3. CASE ~Executing(j)
      BY <3>1, <3>3 DEF CallOK, Progress, Settled, Executing
    <3> QED BY <3>2, <3>3
  <2> QED BY <2>1, <2>2
<1>6. \A x \in Commands : EntryOK(x)'
  BY <1>1 DEF CInv, EntryOK
<1>7. OneExecution'
  <2> SUFFICES ASSUME NEW i \in Calls, NEW j \in Calls, Executing(i)', Executing(j)',
                      calls'[i].cmd = calls'[j].cmd
               PROVE  i = j
    BY DEF OneExecution
  <2> QED BY <1>2, <1>4 DEF CInv, OneExecution, Executing
<1>8. SendBudget'
  BY <1>1 DEF CInv, SendBudget, RetryCount
<1>9. NoFalseVerdict' /\ AnswersFromJournal'
  BY <1>1 DEF CInv, NoFalseVerdict, AnswersFromJournal
<1> QED BY <1>3, <1>5, <1>6, <1>7, <1>8, <1>9 DEF CInv

\* The steps of an execution before its outcome is stored.
LEMMA ExecutionKeeps ==
    ASSUME CInv, NEW k \in Calls,
           Route(k) \/ Attempt(k) \/ DeviceAnswers(k) \/ DeviceFails(k) \/ Expire(k)
    PROVE  CInv'
<1> DEFINE m == calls[k]
           c == calls[k].cmd
<1>1. /\ m \in CallState /\ m.pc # "idle" /\ Executing(k)
      /\ c \in Commands /\ RetryCount(c) \in Nat
      /\ records[c] # None /\ records[c].phase = "running"
      /\ Durable => Progress(m)
  BY RetryCountType DEF CInv, TypeOK, CallState, CallOK, Executing, Route, Attempt,
                        DeviceAnswers, DeviceFails, Expire, At
<1>2. sent \in [Commands -> Nat] /\ device \in [Commands -> Status \cup {None}]
  BY DEF CInv, TypeOK
<1>3. Durable => sent[c] <= RetryCount(c) + 1
  BY <1>1 DEF CInv, SendBudget
<1>4. \A res \in Status : Outcome(k, res) \in CallState
  BY <1>1 DEF Outcome, CallState
<1>5. \A res \in Status : /\ Outcome(k, res).pc = "complete" /\ Outcome(k, res).res = res
                          /\ Outcome(k, res).cmd = c
  BY <1>1 DEF Outcome, CallState
<1>6. ASSUME NEW res \in Status, Call(k, Outcome(k, res)),
             UNCHANGED <<records, closed, sent, answers, requests, crashes>>,
             device' \in [Commands -> Status \cup {None}],
             \A x \in Commands : x # c => device'[x] = device[x],
             Durable /\ res \in Definite /\ c \notin Idempotent /\ sent[c] > 0 => device'[c] = res
      PROVE  CInv'
  <2> DEFINE l == Outcome(k, res)
  <2>1. l \in CallState /\ l.pc = "complete" /\ l.res = res /\ l.cmd = c
    BY <1>4, <1>5
  <2>2. calls' = [calls EXCEPT ![k] = l]
    BY <1>6 DEF Call
  <2> HIDE DEF l
  <2>3. Moves(k, l)
    BY <1>1, <1>2, <1>3, <1>6, <2>1, <2>2 DEF Moves
  <2> QED BY <1>1, <2>3, CallMoves
<1>7. ASSUME NEW l \in CallState, Call(k, l), l.cmd = c,
             l.pc \in {"route", "attempt", "sending"},
             UNCHANGED <<records, closed, device, answers, requests, crashes>>,
             sent' \in [Commands -> Nat],
             \A x \in Commands : x # c => sent'[x] = sent[x],
             Durable => /\ l.pc = "route" => sent'[c] = 0 /\ l.attempt = 0
                        /\ l.pc = "attempt" => sent'[c] = l.attempt /\ l.attempt <= RetryCount(c)
                        /\ l.pc = "sending" => sent'[c] = l.attempt + 1 /\ l.attempt <= RetryCount(c)
      PROVE  CInv'
  <2>1. Durable => sent'[c] <= RetryCount(c) + 1
    BY <1>1, <1>7 DEF CallState
  <2>2. Moves(k, l)
    BY <1>2, <1>7, <2>1 DEF Moves, Call
  <2> QED BY <1>1, <2>2, CallMoves
<1>8. CASE Route(k)
  <2>1. Durable => sent[c] = 0 /\ m.attempt = 0
    BY <1>1, <1>8 DEF Route, At, Progress
  <2>2. UNCHANGED <<records, closed, sent, device, answers, requests, crashes>>
    BY <1>8 DEF Route
  <2>3. CASE Call(k, Outcome(k, "REJECTED"))
    BY <1>1, <1>2, <1>6, <2>1, <2>2, <2>3 DEF Status, Definite
  <2>4. CASE Call(k, [m EXCEPT !.pc = "attempt"])
    <3> DEFINE l == [m EXCEPT !.pc = "attempt"]
    <3>1. l \in CallState /\ l.cmd = c /\ l.pc = "attempt" /\ l.attempt = m.attempt
      BY <1>1 DEF CallState
    <3> HIDE DEF l
    <3>2. Durable => sent[c] = l.attempt /\ l.attempt <= RetryCount(c)
      BY <1>1, <2>1, <3>1
    <3>3. Call(k, l)
      BY <2>4 DEF l
    <3> QED BY <1>2, <1>7, <2>2, <3>1, <3>2, <3>3
  <2> QED BY <1>8, <2>3, <2>4 DEF Route
<1>9. CASE Attempt(k)
  <2>1. Durable => sent[c] = m.attempt /\ m.attempt <= RetryCount(c)
    BY <1>1, <1>9 DEF Attempt, At, Progress
  <2>2. UNCHANGED <<records, closed, device, answers, requests, crashes>>
    BY <1>9 DEF Attempt
  <2>3. ASSUME NEW res \in Status, Call(k, Outcome(k, res)), UNCHANGED sent
        PROVE  CInv'
    <3>1. Durable /\ c \notin Idempotent => sent[c] = 0
      BY <2>1, <1>1, <1>2 DEF RetryCount, CallState
    <3> QED BY <1>2, <1>6, <2>2, <2>3, <3>1
  <2>4. Exhausted(k) \in Status /\ "REJECTED" \in Status
    BY DEF Exhausted, Status, Definite
  <2>5. CASE sent' = [sent EXCEPT ![c] = @ + 1] /\ Call(k, [m EXCEPT !.pc = "sending"])
    <3> DEFINE l == [m EXCEPT !.pc = "sending"]
    <3>1. l \in CallState /\ l.cmd = c /\ l.pc = "sending" /\ l.attempt = m.attempt
      BY <1>1 DEF CallState
    <3>2. sent' \in [Commands -> Nat] /\ sent'[c] = sent[c] + 1
          /\ \A x \in Commands : x # c => sent'[x] = sent[x]
      BY <1>1, <1>2, <2>5
    <3>3. Call(k, l)
      BY <2>5
    <3> HIDE DEF l
    <3> QED BY <1>7, <2>1, <2>2, <3>1, <3>2, <3>3
  <2> QED BY <1>9, <2>3, <2>4, <2>5 DEF Attempt
<1>10. CASE DeviceAnswers(k)
  <2>1. PICK res \in Status : /\ device' = [device EXCEPT ![c] = res]
                              /\ Call(k, Outcome(k, res))
    BY <1>10, CommandAssumption DEF DeviceAnswers, Status, Definite
  <2>2. /\ device' \in [Commands -> Status \cup {None}] /\ device'[c] = res
        /\ \A x \in Commands : x # c => device'[x] = device[x]
    BY <1>1, <1>2, <2>1
  <2>3. UNCHANGED <<records, closed, sent, answers, requests, crashes>>
    BY <1>10 DEF DeviceAnswers
  <2> QED BY <1>6, <2>1, <2>2, <2>3
<1>11. CASE DeviceFails(k)
  <2>1. Durable => sent[c] = m.attempt + 1 /\ m.attempt <= RetryCount(c)
    BY <1>1, <1>11 DEF DeviceFails, At, Progress
  <2>2. UNCHANGED <<records, closed, sent, device, answers, requests, crashes>>
    BY <1>11 DEF DeviceFails
  <2>3. CASE c \notin Idempotent
    <3>1. Call(k, Outcome(k, "RESULT_UNKNOWN"))
      BY <1>11, <2>3 DEF DeviceFails, AfterError
    <3>2. "RESULT_UNKNOWN" \in Status /\ "RESULT_UNKNOWN" \notin Definite
      BY DEF Status, Definite
    <3> QED BY <1>2, <1>6, <2>2, <3>1, <3>2
  <2>4. CASE c \in Idempotent /\ Call(k, Outcome(k, Exhausted(k)))
    <3>1. Exhausted(k) \in Status
      BY DEF Exhausted, Status, Definite
    <3> QED BY <1>2, <1>6, <2>2, <2>4, <3>1
  <2>5. CASE c \in Idempotent /\ ~LastAttempt(k)
             /\ Call(k, [m EXCEPT !.pc = "attempt", !.attempt = @ + 1])
    <3> DEFINE l == [m EXCEPT !.pc = "attempt", !.attempt = @ + 1]
    <3>1. l \in CallState /\ l.cmd = c /\ l.pc = "attempt" /\ l.attempt = m.attempt + 1
      <4> DEFINE n == m.attempt + 1
      <4>1. n \in Nat
        BY <1>1 DEF CallState
      <4> HIDE DEF n
      <4>2. [m EXCEPT !.pc = "attempt", !.attempt = n] \in CallState
        BY <1>1, <4>1 DEF CallState
      <4>3. l = [m EXCEPT !.pc = "attempt", !.attempt = n]
        BY DEF n
      <4>4. l.cmd = c /\ l.pc = "attempt" /\ l.attempt = n
        BY <1>1, <4>3 DEF CallState
      <4> QED BY <4>2, <4>3, <4>4 DEF n
    <3>2. m.attempt + 1 <= RetryCount(c)
      BY <1>1, <2>5 DEF LastAttempt, CallState
    <3>3. Call(k, l)
      BY <2>5
    <3> HIDE DEF l
    <3> QED BY <1>2, <1>7, <2>1, <2>2, <3>1, <3>2, <3>3
  <2> QED BY <1>11, <2>3, <2>4, <2>5 DEF DeviceFails, AfterError
<1>12. CASE Expire(k)
  <2>1. PICK ctx \in {"deadline", "cancelled"} : Call(k, [m EXCEPT !.ctx = ctx])
    BY <1>12 DEF Expire
  <2> DEFINE l == [m EXCEPT !.ctx = ctx]
  <2>2. /\ l \in CallState /\ l.cmd = c /\ l.pc = m.pc /\ l.attempt = m.attempt
        /\ m.pc \in {"route", "attempt", "sending"}
    BY <1>1, <1>12, <2>1 DEF CallState, Expire
  <2>3. Call(k, l)
    BY <2>1
  <2> HIDE DEF l
  <2>4. UNCHANGED <<records, closed, sent, device, answers, requests, crashes>>
    BY <1>12 DEF Expire
  <2> QED BY <1>1, <1>2, <1>7, <2>2, <2>3, <2>4 DEF Progress
<1> QED BY <1>8, <1>9, <1>10, <1>11, <1>12

\* Only a command without a record is reserved; a journal forgets nothing.
LEMMA ReserveKeeps ==
    ASSUME CInv, NEW k \in Calls, NEW c \in Commands, NEW body \in Bodies,
           NEW async \in BOOLEAN, Reserve(k, c, body, async)
    PROVE  CInv'
<1>1. PICK old \in SUBSET {x \in Commands : Forgettable(x)} :
        LET kept == [x \in Commands |-> IF x \in old THEN None ELSE records[x]]
        IN  \/ /\ NewCommand(kept[c])
               /\ records' = [kept EXCEPT ![c] = [body |-> body, phase |-> "running",
                                                  res |-> "RESULT_UNKNOWN"]]
               /\ Call(k, [IdleCall EXCEPT !.pc = "route", !.cmd = c, !.async = async])
               /\ UNCHANGED answers
            \/ /\ ~NewCommand(kept[c])
               /\ records' = kept
               /\ answers' = IF kept[c].body = body /\ ~async
                             THEN answers \cup {[cmd |-> c, res |-> kept[c].res]}
                             ELSE answers
               /\ UNCHANGED calls
  BY DEF Reserve
<1> DEFINE kept == [x \in Commands |-> IF x \in old THEN None ELSE records[x]]
<1>2. /\ UNCHANGED <<closed, sent, device, crashes>>
      /\ requests' = requests + 1 /\ calls[k].pc = "idle"
  BY DEF Reserve, At
<1>3. /\ kept \in [Commands -> Entry \cup {None}]
      /\ \A x \in Commands : kept[x] \in {records[x], None}
      /\ Durable => \A x \in Commands : kept[x] = records[x]
      /\ \A x \in Commands : records[x] # None /\ records[x].phase = "running"
                              => kept[x] = records[x]
  BY DEF CInv, TypeOK, Forgettable
<1> HIDE DEF kept
<1>4. CASE /\ NewCommand(kept[c])
           /\ records' = [kept EXCEPT ![c] = [body |-> body, phase |-> "running",
                                              res |-> "RESULT_UNKNOWN"]]
           /\ Call(k, [IdleCall EXCEPT !.pc = "route", !.cmd = c, !.async = async])
           /\ UNCHANGED answers
  <2> DEFINE l == [IdleCall EXCEPT !.pc = "route", !.cmd = c, !.async = async]
             r == [body |-> body, phase |-> "running", res |-> "RESULT_UNKNOWN"]
  <2>1. /\ l \in CallState /\ l.pc = "route" /\ l.cmd = c /\ l.attempt = 0
    BY DEF IdleCall, CallState, Status
  <2>2. r \in Entry /\ r # None /\ r.phase = "running" /\ r.res = "RESULT_UNKNOWN"
    BY NoEntryAssumption DEF Entry, Status
  <2>3. calls' = [calls EXCEPT ![k] = l] /\ records' = [kept EXCEPT ![c] = r]
    BY <1>4 DEF Call
  <2> HIDE DEF l, r
  <2>4. /\ \A j \in Calls : calls'[j] = IF j = k THEN l ELSE calls[j]
        /\ \A x \in Commands : records'[x] = IF x = c THEN r ELSE kept[x]
    BY <1>3, <2>3 DEF CInv, TypeOK
  <2>5. kept[c] = None
    BY <1>4 DEF NewCommand
  <2>6. records[c] = None \/ records[c].phase # "running"
    BY <1>3, <2>5
  <2>7. Durable => records[c] = None /\ sent[c] = 0
    BY <1>3, <2>5 DEF CInv, EntryOK
  <2>8. \A j \in Calls : Executing(j) => calls[j].cmd # c
    BY <2>6 DEF CInv, CallOK, Executing
  <2>9. TypeOK'
    <3>1. calls' \in [Calls -> CallState]
      BY <2>1, <2>3 DEF CInv, TypeOK, CallState
    <3>2. records' \in [Commands -> Entry \cup {None}]
      BY <1>3, <2>2, <2>3
    <3> QED BY <1>2, <1>4, <3>1, <3>2 DEF CInv, TypeOK, CallState
  <2>10. \A j \in Calls : CallOK(j)'
    <3> SUFFICES ASSUME NEW j \in Calls PROVE CallOK(j)'
      OBVIOUS
    <3>1. CASE j = k
      BY <1>2, <2>1, <2>2, <2>4, <2>7, <3>1 DEF CallOK, Executing, Progress
    <3>2. CASE j # k
      <4>1. CallOK(j) /\ calls'[j] = calls[j] /\ (Executing(j)' <=> Executing(j))
        BY <2>4, <3>2 DEF CInv, Executing
      <4>2. CASE Executing(j)
        BY <1>2, <1>3, <2>4, <2>8, <4>1, <4>2 DEF CallOK, Progress, RetryCount, Executing
      <4>3. CASE ~Executing(j)
        BY <1>2, <1>3, <2>4, <2>7, <4>1, <4>3 DEF CallOK, Progress, Settled, Executing
      <4> QED BY <4>2, <4>3
    <3> QED BY <3>1, <3>2
  <2>11. \A x \in Commands : EntryOK(x)'
    BY <1>2, <1>3, <2>2, <2>4 DEF CInv, EntryOK
  <2>12. OneExecution'
    <3> SUFFICES ASSUME NEW i \in Calls, NEW j \in Calls, Executing(i)', Executing(j)',
                        calls'[i].cmd = calls'[j].cmd
                 PROVE  i = j
      BY DEF OneExecution
    <3> QED BY <2>1, <2>4, <2>8 DEF CInv, OneExecution, Executing
  <2>13. SendBudget'
    BY <1>2 DEF CInv, SendBudget, RetryCount
  <2>14. NoFalseVerdict' /\ AnswersFromJournal'
    BY <1>2, <1>3, <1>4, <2>2, <2>4, <2>7 DEF CInv, NoFalseVerdict, AnswersFromJournal, TypeOK
  <2> QED BY <2>9, <2>10, <2>11, <2>12, <2>13, <2>14 DEF CInv
<1>5. CASE /\ ~NewCommand(kept[c])
           /\ records' = kept
           /\ answers' = IF kept[c].body = body /\ ~async
                         THEN answers \cup {[cmd |-> c, res |-> kept[c].res]}
                         ELSE answers
           /\ UNCHANGED calls
  <2>1. kept[c] # None /\ kept[c] = records[c] /\ records[c].res \in Status
    BY <1>3, <1>5 DEF NewCommand, CInv, TypeOK, Entry
  <2>2. TypeOK'
    BY <1>2, <1>3, <1>5, <2>1 DEF CInv, TypeOK
  <2>3. \A j \in Calls : CallOK(j)'
    <3> SUFFICES ASSUME NEW j \in Calls PROVE CallOK(j)'
      OBVIOUS
    <3>1. CallOK(j) /\ (Executing(j)' <=> Executing(j))
      BY <1>5 DEF CInv, Executing
    <3> QED BY <1>2, <1>3, <1>5, <3>1 DEF CallOK, Progress, Settled, RetryCount
  <2>4. \A x \in Commands : EntryOK(x)'
    BY <1>2, <1>3, <1>5 DEF CInv, EntryOK
  <2>5. OneExecution' /\ SendBudget'
    BY <1>2, <1>5 DEF CInv, OneExecution, Executing, SendBudget, RetryCount
  <2>6. NoFalseVerdict'
    BY <1>2, <1>3, <1>5 DEF CInv, NoFalseVerdict
  <2>7. AnswersFromJournal'
    <3> SUFFICES ASSUME Durable, NEW a \in answers', a.res \in Definite
                 PROVE  records'[a.cmd] # None /\ records'[a.cmd].phase = "complete"
                        /\ records'[a.cmd].res = a.res
      BY DEF AnswersFromJournal
    <3>1. CASE a \in answers
      BY <1>3, <1>5, <3>1 DEF CInv, AnswersFromJournal, TypeOK
    <3>2. CASE a \notin answers
      <4>1. a.cmd = c /\ a.res = records[c].res
        BY <1>5, <2>1, <3>2
      <4>2. records[c].phase = "complete"
        BY <2>1, <4>1 DEF CInv, EntryOK, TypeOK, Entry, Definite
      <4> QED BY <1>5, <2>1, <4>1, <4>2
    <3> QED BY <3>1, <3>2
  <2> QED BY <2>2, <2>3, <2>4, <2>5, <2>6, <2>7 DEF CInv
<1> QED BY <1>1, <1>4, <1>5 DEF kept

\* The outcome is stored, or the caller is not told one.
LEMMA CompleteKeeps ==
    ASSUME CInv, NEW k \in Calls, Complete(k)
    PROVE  CInv'
<1> DEFINE m == calls[k]
           c == calls[k].cmd
           stored == [records EXCEPT ![c].phase = "complete", ![c].res = m.res]
<1>1. /\ m \in CallState /\ m.pc = "complete" /\ Executing(k) /\ c \in Commands
      /\ records[c] \in Entry /\ records[c] # None /\ records[c].phase = "running"
      /\ Durable => Progress(m)
      /\ m.res \in Status
  BY DEF CInv, TypeOK, CallState, CallOK, Executing, Complete, At
<1>2. UNCHANGED <<closed, sent, device, answers, requests, crashes>>
  BY DEF Complete
<1>3. PICK l \in CallState :
        /\ Call(k, l)
        /\ \/ l.pc = "idle"
           \/ l.pc = "reply" /\ l.cmd = c /\ l.res = "RESULT_UNKNOWN"
           \/ l.pc = "reply" /\ l.cmd = c /\ l.res = m.res /\ records' = stored
  <2>1. CASE records' = stored /\ Call(k, [m EXCEPT !.pc = "reply"])
    <3>1. /\ [m EXCEPT !.pc = "reply"] \in CallState
          /\ [m EXCEPT !.pc = "reply"].pc = "reply"
          /\ [m EXCEPT !.pc = "reply"].cmd = c
          /\ [m EXCEPT !.pc = "reply"].res = m.res
      BY <1>1 DEF CallState
    <3> QED BY <2>1, <3>1
  <2>2. CASE Call(k, Unstored(k))
    <3>1. IdleCall \in CallState /\ IdleCall.pc = "idle"
      BY DEF IdleCall, CallState, Status
    <3>2. LET u == [m EXCEPT !.pc = "reply", !.res = "RESULT_UNKNOWN"] IN
          u \in CallState /\ u.pc = "reply" /\ u.cmd = c /\ u.res = "RESULT_UNKNOWN"
      BY <1>1 DEF CallState, Status
    <3> QED BY <2>2, <3>1, <3>2 DEF Unstored
  <2> QED BY <2>1, <2>2 DEF Complete
<1>4. records' = records \/ records' = stored
  BY DEF Complete
<1>5. /\ records' \in [Commands -> Entry \cup {None}]
      /\ \A x \in Commands : x # c => records'[x] = records[x]
      /\ records' = stored =>
            /\ records'[c] \in Entry /\ records'[c].phase = "complete"
            /\ records'[c].res = m.res
      /\ records'[c] # None
  <2>1. CASE records' = records
    <3>1. stored # records
      <4>1. stored[c].phase = "complete"
        BY <1>1 DEF CInv, TypeOK, Entry
      <4> QED BY <1>1, <4>1
    <3> QED BY <1>1, <2>1, <3>1 DEF CInv, TypeOK
  <2>2. CASE records' = stored
    <3>1. stored[c] = [records[c] EXCEPT !.phase = "complete", !.res = m.res]
      BY <1>1 DEF CInv, TypeOK
    <3>2. stored[c] \in Entry /\ stored[c].phase = "complete" /\ stored[c].res = m.res
      BY ZenonT(40), <1>1, <3>1 DEF Entry
    <3>3. stored \in [Commands -> Entry \cup {None}]
      BY <1>1, <3>1, <3>2 DEF CInv, TypeOK
    <3>4. \A x \in Commands : x # c => stored[x] = records[x]
      BY DEF CInv, TypeOK
    <3>5. stored[c] # None
      BY <3>2, NoEntryAssumption
    <3> QED BY <2>2, <3>2, <3>3, <3>4, <3>5
  <2> QED BY <1>4, <2>1, <2>2
<1>6. \A j \in Calls : calls'[j] = IF j = k THEN l ELSE calls[j]
  BY <1>3 DEF CInv, TypeOK, Call
<1>7. \A j \in Calls : j # k /\ Executing(j) => calls[j].cmd # c
  BY <1>1 DEF CInv, OneExecution
<1> HIDE DEF stored
<1>8. TypeOK'
  <2>1. calls' \in [Calls -> CallState]
    BY <1>3 DEF CInv, TypeOK, CallState, Call
  <2> QED BY <1>2, <1>5, <2>1 DEF CInv, TypeOK, CallState
<1>9. \A j \in Calls : CallOK(j)'
  <2> SUFFICES ASSUME NEW j \in Calls PROVE CallOK(j)'
    OBVIOUS
  <2>1. CASE j = k
    <3>1. CASE l.pc = "idle"
      BY <1>6, <2>1, <3>1 DEF CallOK
    <3>2. CASE l.pc = "reply" /\ l.cmd = c /\ l.res = "RESULT_UNKNOWN"
      BY <1>1, <1>6, <2>1, <3>2 DEF CallOK, Executing, Progress, Definite
    <3>3. CASE l.pc = "reply" /\ l.cmd = c /\ l.res = m.res /\ records' = stored
      BY <1>1, <1>5, <1>6, <2>1, <3>3 DEF CallOK, Executing, Progress, Settled
    <3> QED BY <1>3, <3>1, <3>2, <3>3
  <2>2. CASE j # k
    <3>1. CallOK(j) /\ calls'[j] = calls[j] /\ (Executing(j)' <=> Executing(j))
      BY <1>6, <2>2 DEF CInv, Executing
    <3>2. CASE Executing(j)
      BY <1>2, <1>5, <1>7, <2>2, <3>1, <3>2 DEF CallOK, Progress, RetryCount, Executing
    <3>3. CASE ~Executing(j)
      <4>1. calls[j].pc # "idle" /\ Durable /\ Progress(calls[j]) => Progress(calls[j])'
        <5>1. Durable /\ calls[j].pc = "reply" /\ calls[j].res \in Definite
              /\ Progress(calls[j]) => calls[j].cmd # c
          BY <1>1 DEF Progress, Settled
        <5> QED BY <1>2, <1>5, <3>1, <3>3, <5>1 DEF Progress, Settled, CallOK, Executing, RetryCount
      <4> QED BY <3>1, <3>3, <4>1 DEF CallOK, Progress, Executing
    <3> QED BY <3>2, <3>3
  <2> QED BY <2>1, <2>2
<1>10. \A x \in Commands : EntryOK(x)'
  <2> SUFFICES ASSUME NEW x \in Commands PROVE EntryOK(x)'
    OBVIOUS
  <2>1. CASE x # c
    BY <1>2, <1>5, <2>1 DEF CInv, EntryOK
  <2>2. CASE x = c
    BY <1>2, <1>4, <1>5, <2>2 DEF CInv, EntryOK
  <2> QED BY <2>1, <2>2
<1>11. OneExecution'
  BY <1>3, <1>6 DEF CInv, OneExecution, Executing
<1>12. SendBudget'
  BY <1>2 DEF CInv, SendBudget, RetryCount
<1>13. NoFalseVerdict'
  <2>1. Durable /\ c \notin Idempotent /\ m.res \in Definite /\ sent[c] > 0 => device[c] = m.res
    BY <1>1 DEF Progress
  <2> QED BY <1>1, <1>2, <1>4, <1>5, <2>1 DEF CInv, NoFalseVerdict
<1>14. AnswersFromJournal'
  <2>1. Durable => \A a \in answers : a.res \in Definite => a.cmd # c
    BY <1>1 DEF CInv, AnswersFromJournal
  <2> QED BY <1>2, <1>5, <2>1 DEF CInv, AnswersFromJournal, TypeOK
<1> QED BY <1>8, <1>9, <1>10, <1>11, <1>12, <1>13, <1>14 DEF CInv

\* The reply repeats what the journal holds.
LEMMA ReplyKeeps ==
    ASSUME CInv, NEW k \in Calls, Reply(k)
    PROVE  CInv'
<1> DEFINE m == calls[k]
<1>1. /\ m \in CallState /\ m.pc = "reply" /\ m.cmd \in Commands
      /\ Durable => Progress(m)
  BY DEF CInv, TypeOK, CallState, CallOK, Reply, At
<1>2. /\ UNCHANGED <<records, closed, sent, device, requests, crashes>>
      /\ calls' = [calls EXCEPT ![k] = IdleCall]
      /\ answers' = answers \cup {[cmd |-> m.cmd, res |-> m.res]}
  BY DEF Reply, Call
<1>3. IdleCall \in CallState /\ IdleCall.pc = "idle"
  BY DEF IdleCall, CallState, Status
<1>4. \A j \in Calls : calls'[j] = IF j = k THEN IdleCall ELSE calls[j]
  BY <1>2 DEF CInv, TypeOK
<1>5. TypeOK'
  BY <1>1, <1>2, <1>3 DEF CInv, TypeOK, CallState
<1>6. \A j \in Calls : CallOK(j)'
  BY <1>2, <1>3, <1>4 DEF CInv, CallOK, Executing, Progress, Settled, RetryCount
<1>7. (\A x \in Commands : EntryOK(x)') /\ SendBudget' /\ NoFalseVerdict'
  BY <1>2 DEF CInv, EntryOK, SendBudget, NoFalseVerdict, RetryCount
<1>8. OneExecution'
  BY <1>3, <1>4 DEF CInv, OneExecution, Executing
<1>9. AnswersFromJournal'
  BY <1>1, <1>2 DEF CInv, AnswersFromJournal, Progress, Settled
<1> QED BY <1>5, <1>6, <1>7, <1>8, <1>9 DEF CInv

\* Closing cancels contexts only; a restart ends all calls.
LEMMA ProcessKeeps ==
    ASSUME CInv, Close \/ Restart \/ UNCHANGED vars
    PROVE  CInv'
<1>1. CASE Close
  <2>1. /\ UNCHANGED <<records, sent, device, answers, requests, crashes>>
        /\ closed' = TRUE
        /\ \A j \in Calls : calls'[j] \in {calls[j], [calls[j] EXCEPT !.ctx = "cancelled"]}
    BY <1>1 DEF Close
  <2>2. \A j \in Calls : /\ calls'[j] \in CallState
                         /\ calls'[j].pc = calls[j].pc /\ calls'[j].cmd = calls[j].cmd
                         /\ calls'[j].attempt = calls[j].attempt
                         /\ calls'[j].res = calls[j].res
    BY <2>1 DEF CInv, TypeOK, CallState
  <2>3. TypeOK'
    <3>1. calls' \in [Calls -> CallState]
      BY <1>1, <2>2 DEF Close
    <3> QED BY <2>1, <3>1 DEF CInv, TypeOK, CallState
  <2>4. \A j \in Calls : CallOK(j)'
    BY <2>1, <2>2 DEF CInv, CallOK, Executing, Progress, Settled, RetryCount
  <2>5. OneExecution'
    BY <2>2 DEF CInv, OneExecution, Executing
  <2> QED BY <2>1, <2>3, <2>4, <2>5 DEF CInv, EntryOK, SendBudget, NoFalseVerdict,
                                        AnswersFromJournal, RetryCount
<1>2. CASE Restart
  <2>1. /\ UNCHANGED <<sent, device, answers, requests>>
        /\ closed' = FALSE /\ crashes' = crashes + 1
        /\ calls' = [k \in Calls |-> IdleCall]
        /\ Durable => records' = records
        /\ ~Durable => records' = [c \in Commands |-> None]
    BY <1>2 DEF Restart
  <2>2. IdleCall \in CallState /\ IdleCall.pc = "idle"
    BY DEF IdleCall, CallState, Status
  <2>3. TypeOK'
    <3>1. records' \in [Commands -> Entry \cup {None}]
      BY <2>1, CommandAssumption DEF CInv, TypeOK
    <3>2. calls' \in [Calls -> CallState]
      BY <2>1, <2>2
    <3>3. closed' \in BOOLEAN
      BY <2>1
    <3>4. crashes' \in Nat
      <4>1. crashes \in Nat /\ crashes' = crashes + 1
        BY <2>1 DEF CInv, TypeOK
      <4> QED BY ONLY <4>1
    <3>5. /\ sent' \in [Commands -> Nat] /\ requests' \in Nat
          /\ device' \in [Commands -> Status \cup {None}]
          /\ answers' \subseteq [cmd : Commands, res : Status]
      BY <2>1 DEF CInv, TypeOK
    <3> QED BY <3>1, <3>2, <3>3, <3>4, <3>5 DEF TypeOK, CallState
  <2>4. (\A j \in Calls : CallOK(j)') /\ OneExecution'
    BY <2>1, <2>2 DEF CallOK, OneExecution, Executing
  <2>5. \A x \in Commands : EntryOK(x)'
    BY <2>1, CommandAssumption DEF CInv, EntryOK
  <2> QED BY <2>1, <2>3, <2>4, <2>5 DEF CInv, SendBudget, NoFalseVerdict,
                                        AnswersFromJournal, RetryCount
<1>3. CASE UNCHANGED vars
  BY <1>3 DEF vars, CInv, TypeOK, CallOK, EntryOK, OneExecution, Executing, SendBudget,
              NoFalseVerdict, AnswersFromJournal, Progress, Settled, RetryCount
<1> QED BY <1>1, <1>2, <1>3

LEMMA StepKeeps == CInv /\ [Next]_vars => CInv'
<1> SUFFICES ASSUME CInv, [Next]_vars PROVE CInv'
  OBVIOUS
<1>1. ASSUME NEW k \in Calls, Receive(k) PROVE CInv'
  BY <1>1, ReserveKeeps DEF Receive
<1>2. ASSUME NEW k \in Calls, Step(k) \/ Expire(k) PROVE CInv'
  BY <1>2, ExecutionKeeps, CompleteKeeps, ReplyKeeps DEF Step
<1> QED BY <1>1, <1>2, ProcessKeeps DEF Next

\* The inductive invariant: what the journal and the calls agree on.
THEOREM JournalInvariance == Spec => []CInv
BY InitCInv, StepKeeps, PTL DEF Spec

\* The journal, the calls and the answers keep their types.
THEOREM TypeCorrect == Spec => []TypeOK
<1>1. CInv => TypeOK
  BY DEF CInv
<1> QED BY <1>1, JournalInvariance, PTL

\* A device is never commanded more often than the caller allowed.
THEOREM WithinBudget == Spec => []SendBudget
<1>1. CInv => SendBudget
  BY DEF CInv
<1> QED BY <1>1, JournalInvariance, PTL

\* A definite outcome of a command that is not repeatable is never made up.
THEOREM VerdictsAreTrue == Spec => []NoFalseVerdict
<1>1. CInv => NoFalseVerdict
  BY DEF CInv
<1> QED BY <1>1, JournalInvariance, PTL

\* All callers are told the outcome the journal holds.
THEOREM AnswersAgree == Spec => []AnswersFromJournal
<1>1. CInv => AnswersFromJournal
  BY DEF CInv
<1> QED BY <1>1, JournalInvariance, PTL

\* No command is carried out by two calls at once, with or without a journal.
THEOREM ExecutedByOne == Spec => []OneExecution
<1>1. CInv => OneExecution
  BY DEF CInv
<1> QED BY <1>1, JournalInvariance, PTL

LEMMA FinalStep ==
    ASSUME CInv, [Next]_vars, Durable, NEW c \in Commands, CommandResult(c) \in Definite
    PROVE  CommandResult(c)' = CommandResult(c) /\ sent'[c] = sent[c]
<1>1. records[c] \in Entry /\ records[c] # None /\ records[c].phase = "complete"
  <2>1. records[c] # None
    BY NoEntryAssumption DEF CommandResult, Status
  <2> QED BY <2>1 DEF CInv, TypeOK, EntryOK, Entry, CommandResult, Definite
<1>2. SUFFICES records'[c] = records[c] /\ sent'[c] = sent[c]
  BY DEF CommandResult
<1>3. \A k \in Calls : Executing(k) => calls[k].cmd \in Commands \ {c}
  BY <1>1 DEF CInv, CallOK, Executing
<1>4. ASSUME NEW k \in Calls, Receive(k)
      PROVE  records'[c] = records[c] /\ sent'[c] = sent[c]
  <2>1. PICK x \in Commands, body \in Bodies, async \in BOOLEAN : Reserve(k, x, body, async)
    BY <1>4 DEF Receive
  <2>2. PICK old \in SUBSET {y \in Commands : Forgettable(y)} :
          LET kept == [y \in Commands |-> IF y \in old THEN None ELSE records[y]]
          IN  \/ /\ kept[x] = None
                 /\ records' = [kept EXCEPT ![x] = [body |-> body, phase |-> "running",
                                                    res |-> "RESULT_UNKNOWN"]]
              \/ records' = kept
    BY <2>1 DEF Reserve, NewCommand
  <2>3. [y \in Commands |-> IF y \in old THEN None ELSE records[y]] = records
    BY <2>2 DEF Forgettable, CInv, TypeOK
  <2>4. records'[c] = records[c]
    BY <1>1, <2>2, <2>3 DEF CInv, TypeOK
  <2> QED BY <2>1, <2>4 DEF Reserve
<1>5. ASSUME NEW k \in Calls, Step(k) \/ Expire(k)
      PROVE  records'[c] = records[c] /\ sent'[c] = sent[c]
  <2>1. CASE Attempt(k)
    <3>1. calls[k].cmd # c
      BY <1>3, <2>1 DEF Attempt, At, Executing
    <3> QED BY <2>1, <3>1 DEF Attempt, CInv, TypeOK
  <2>2. CASE Complete(k)
    <3>1. calls[k].cmd # c
      BY <1>3, <2>2 DEF Complete, At, Executing
    <3> QED BY <2>2, <3>1 DEF Complete, CInv, TypeOK
  <2>3. CASE Route(k) \/ DeviceAnswers(k) \/ DeviceFails(k) \/ Reply(k) \/ Expire(k)
    BY <2>3 DEF Route, DeviceAnswers, DeviceFails, Reply, Expire
  <2> QED BY <1>5, <2>1, <2>2, <2>3 DEF Step
<1>6. CASE Close \/ Restart \/ UNCHANGED vars
  BY <1>6 DEF Close, Restart, vars
<1> QED BY <1>4, <1>5, <1>6 DEF Next

\* A definite outcome in the journal is final and its command is not sent again.
THEOREM OutcomesAreFinal == Spec => SettledIsFinal
<1> DEFINE Final == Durable => \A c \in Commands :
             CommandResult(c) \in Definite =>
                CommandResult(c)' = CommandResult(c) /\ sent'[c] = sent[c]
<1>1. CInv /\ [Next]_vars => [Final]_vars
  BY FinalStep
<1> QED BY <1>1, JournalInvariance, PTL DEF Spec, SettledIsFinal
=============================================================================
