---------------------------- MODULE CommandService ----------------------------
(***************************************************************************)
(* The gateway between the platform and a device: command.Service of       *)
(* DataTransfer over the command journal of state.Store.  A call is one    *)
(* northbound request (gRPC, MQTT or REST); calls run concurrently and the *)
(* same command may arrive any number of times, also with another content. *)
(* The journal is a database (Durable) or, where none is attached, a map   *)
(* in memory whose finished entries are forgotten after a while.           *)
(***************************************************************************)
EXTENDS Naturals, FiniteSets

CONSTANTS
    Commands,      \* command identifiers
    Bodies,        \* contents a request for a command may have (its digest)
    Calls,         \* requests that can be in progress at the same time
    Idempotent,    \* queries and the commands declared idempotent
    Retries,       \* CommandOptions.retry_count of a command
    Responses,     \* the statuses a connector returns for its device
    Durable,       \* whether a command journal is attached
    None,          \* no record, no command, no answer of the device
    MaxRequests,   \* bound: requests received
    MaxCrashes     \* bound: restarts of the process

ASSUME CommandAssumption ==
    /\ Idempotent \subseteq Commands
    /\ Retries \in [Commands -> Nat]
    /\ Durable \in BOOLEAN
    /\ Responses \subseteq {"SUCCESS", "FAILURE", "TIMEOUT", "REJECTED", "RESULT_UNKNOWN"}
    /\ MaxRequests \in Nat /\ MaxCrashes \in Nat
    /\ None \notin Commands \cup Bodies

Definite == {"SUCCESS", "FAILURE", "TIMEOUT", "REJECTED"}
Status == Definite \cup {"RESULT_UNKNOWN"}

Entry == [body : Bodies, phase : {"running", "complete"}, res : Status]

ASSUME NoEntryAssumption == None \notin Entry /\ None \notin Status

VARIABLES
    records,    \* the command journal
    calls,      \* the local state of each call
    closed,     \* Close was called
    sent,       \* how often a command was handed to the device
    device,     \* the last answer of the device to a command
    answers,    \* the replies given to callers
    requests,   \* requests received so far
    crashes     \* restarts so far

vars == <<records, calls, closed, sent, device, answers, requests, crashes>>

IdleCall == [pc |-> "idle", cmd |-> None, async |-> FALSE, attempt |-> 0,
             ctx |-> "live", res |-> "RESULT_UNKNOWN"]

Call(k, c) == calls' = [calls EXCEPT ![k] = c]
At(k, label) == calls[k].pc = label
Outcome(k, res) == [calls[k] EXCEPT !.pc = "complete", !.res = res]

\* commandRetryCount
RetryCount(c) == IF c \in Idempotent THEN Retries[c] ELSE 0

\* Fault: one attempt more than the caller asked for.
OneMoreAttempt(k) == calls[k].attempt > RetryCount(calls[k].cmd)

LastAttempt(k) == calls[k].attempt >= RetryCount(calls[k].cmd)

\* Fault: a cancelled call reports no status.
ExhaustedWithoutStatus(k) ==
    IF calls[k].ctx = "cancelled" THEN "CMD_STATUS_UNSPECIFIED" ELSE "TIMEOUT"

\* What is reported when the attempts end without an answer of the device.
Exhausted(k) == IF calls[k].ctx = "deadline" THEN "TIMEOUT" ELSE "FAILURE"

(***************************************************************************)
(* Reservation                                                             *)
(***************************************************************************)
\* Fault: entries of commands under way are forgotten as well.
ForgettableWhenOld(c) == ~Durable /\ records[c] # None

\* prune: a finished entry of the map in memory whose time is over.
Forgettable(c) == ~Durable /\ records[c] # None /\ records[c].phase = "complete"

\* Fault: any record with the same content starts over.
UnsettledEntry(entry) == IF entry = None THEN TRUE ELSE entry.res = "RESULT_UNKNOWN"

NewCommand(entry) == entry = None

\* Handle and HandleAsync up to the reservation, in one transaction: a new
\* command is journalled as running before any device is touched.  The same
\* request again is answered with the stored response (ErrDuplicate when it is
\* asynchronous), another content for the same command is ErrConflict.
Reserve(k, c, body, async) ==
    /\ At(k, "idle")
    /\ ~closed
    /\ requests < MaxRequests
    /\ requests' = requests + 1
    /\ \E old \in SUBSET {x \in Commands : Forgettable(x)} :
          LET kept == [x \in Commands |-> IF x \in old THEN None ELSE records[x]]
          IN  \/ /\ NewCommand(kept[c])
                 /\ records' = [kept EXCEPT ![c] = [body |-> body, phase |-> "running",
                                                    res |-> "RESULT_UNKNOWN"]]
                 /\ Call(k, [IdleCall EXCEPT !.pc = "route", !.cmd = c, !.async = async])
                 /\ UNCHANGED answers
              \/ /\ ~NewCommand(kept[c])
                 /\ records' = kept
                 /\ answers' = IF kept[c].body = body /\ ~async
                               THEN answers \cup {[cmd |-> c, res |-> kept[c].res]}
                               ELSE answers
                 /\ UNCHANGED calls
    /\ UNCHANGED <<closed, sent, device, crashes>>

(***************************************************************************)
(* Execution                                                               *)
(***************************************************************************)
\* No connector serves the device or the start deadline is over; otherwise the
\* attempts begin.
Route(k) ==
    /\ At(k, "route")
    /\ \/ Call(k, Outcome(k, "REJECTED"))
       \/ Call(k, [calls[k] EXCEPT !.pc = "attempt"])
    /\ UNCHANGED <<records, closed, sent, device, answers, requests, crashes>>

\* The head of the retry loop, after the pause of a retry: the context and,
\* before the first attempt, the start deadline are looked at once more.
Attempt(k) ==
    /\ At(k, "attempt")
    /\ \/ /\ calls[k].ctx # "live"
          /\ Call(k, Outcome(k, Exhausted(k)))
          /\ UNCHANGED sent
       \/ /\ calls[k].ctx = "live" /\ calls[k].attempt = 0
          /\ Call(k, Outcome(k, "REJECTED"))
          /\ UNCHANGED sent
       \/ /\ calls[k].ctx = "live"
          /\ sent' = [sent EXCEPT ![calls[k].cmd] = @ + 1]
          /\ Call(k, [calls[k] EXCEPT !.pc = "sending"])
    /\ UNCHANGED <<records, closed, device, answers, requests, crashes>>

\* The connector returns the answer of the device, which may itself be a
\* time-out or an unknown result.
DeviceAnswers(k) ==
    /\ At(k, "sending")
    /\ \E res \in Responses :
          /\ device' = [device EXCEPT ![calls[k].cmd] = res]
          /\ Call(k, Outcome(k, res))
    /\ UNCHANGED <<records, closed, sent, answers, requests, crashes>>

\* Fault: a lost answer to a command that must not be repeated is a failure.
LostIsFailure(k) ==
    IF calls[k].ctx # "live" \/ LastAttempt(k)
    THEN Outcome(k, Exhausted(k))
    ELSE [calls[k] EXCEPT !.pc = "attempt", !.attempt = @ + 1]

\* A transport error: only an idempotent command is tried again.
AfterError(k) ==
    IF calls[k].cmd \notin Idempotent THEN Outcome(k, "RESULT_UNKNOWN")
    ELSE IF calls[k].ctx # "live" \/ LastAttempt(k)
    THEN Outcome(k, Exhausted(k))
    ELSE [calls[k] EXCEPT !.pc = "attempt", !.attempt = @ + 1]

DeviceFails(k) ==
    /\ At(k, "sending")
    /\ Call(k, AfterError(k))
    /\ UNCHANGED <<records, closed, sent, device, answers, requests, crashes>>

\* The time-out of the command; the caller of a synchronous call may also
\* give up.
Expire(k) ==
    /\ calls[k].pc \in {"route", "attempt", "sending"}
    /\ calls[k].ctx = "live"
    /\ \E ctx \in {"deadline", "cancelled"} :
          /\ ctx = "cancelled" => ~calls[k].async
          /\ Call(k, [calls[k] EXCEPT !.ctx = ctx])
    /\ UNCHANGED <<records, closed, sent, device, answers, requests, crashes>>

(***************************************************************************)
(* The end of a call                                                       *)
(***************************************************************************)
\* Fault: an asynchronous call that cannot store its outcome just ends.
DropUnstored(k) == IdleCall

\* Fault: the outcome is published although it is not stored.
AnswerUnstored(k) == IF calls[k].async THEN [calls[k] EXCEPT !.pc = "reply"] ELSE IdleCall

\* The outcome could not be stored: the caller of a synchronous call sees an
\* error, an asynchronous call publishes that its result is unknown.
Unstored(k) ==
    IF calls[k].async THEN [calls[k] EXCEPT !.pc = "reply", !.res = "RESULT_UNKNOWN"]
    ELSE IdleCall

\* complete: the update of a journal may fail, before or after it took effect.
Complete(k) ==
    LET c == calls[k].cmd
        stored == [records EXCEPT ![c].phase = "complete", ![c].res = calls[k].res]
    IN  /\ At(k, "complete")
        /\ \/ /\ Durable => records[c].phase = "running"
              /\ records' = stored
              /\ Call(k, [calls[k] EXCEPT !.pc = "reply"])
           \/ /\ Durable
              /\ \/ records[c].phase = "running" /\ records' = stored
                 \/ UNCHANGED records
              /\ Call(k, Unstored(k))
        /\ UNCHANGED <<closed, sent, device, answers, requests, crashes>>

\* The response is returned, or handed to the publish callback.
Reply(k) ==
    /\ At(k, "reply")
    /\ answers' = answers \cup {[cmd |-> calls[k].cmd, res |-> calls[k].res]}
    /\ Call(k, IdleCall)
    /\ UNCHANGED <<records, closed, sent, device, requests, crashes>>

\* Close refuses new calls and cancels the asynchronous ones.
Close ==
    /\ ~closed
    /\ closed' = TRUE
    /\ calls' = [k \in Calls |->
          IF calls[k].async /\ calls[k].ctx = "live" THEN [calls[k] EXCEPT !.ctx = "cancelled"]
          ELSE calls[k]]
    /\ UNCHANGED <<records, sent, device, answers, requests, crashes>>

\* The process ends, after Close or at any moment, and starts again.
Restart ==
    /\ crashes < MaxCrashes
    /\ crashes' = crashes + 1
    /\ closed' = FALSE
    /\ calls' = [k \in Calls |-> IdleCall]
    /\ records' = IF Durable THEN records ELSE [c \in Commands |-> None]
    /\ UNCHANGED <<sent, device, answers, requests>>

\* CommandResult: what a query of the platform reads, without any effect.
CommandResult(c) == IF records[c] = None THEN None ELSE records[c].res

Init ==
    /\ records = [c \in Commands |-> None]
    /\ calls = [k \in Calls |-> IdleCall]
    /\ closed = FALSE
    /\ sent = [c \in Commands |-> 0]
    /\ device = [c \in Commands |-> None]
    /\ answers = {}
    /\ requests = 0
    /\ crashes = 0

Receive(k) ==
    \E c \in Commands, body \in Bodies, async \in BOOLEAN : Reserve(k, c, body, async)

Step(k) ==
    \/ Route(k) \/ Attempt(k) \/ DeviceAnswers(k) \/ DeviceFails(k)
    \/ Complete(k) \/ Reply(k)

Next ==
    \/ \E k \in Calls : Receive(k) \/ Step(k) \/ Expire(k)
    \/ Close
    \/ Restart

\* A call that was taken on goes on: the scheduler runs it, and a connector
\* returns from SendCommand, at the latest when the context of the call ends.
Fairness == \A k \in Calls : WF_vars(Step(k))

Spec == Init /\ [][Next]_vars /\ Fairness

-----------------------------------------------------------------------------
\* The type invariant of the command service.
TypeOK ==
    /\ records \in [Commands -> Entry \cup {None}]
    /\ calls \in [Calls ->
          [pc : {"idle", "route", "attempt", "sending", "complete", "reply"},
           cmd : Commands \cup {None}, async : BOOLEAN, attempt : Nat,
           ctx : {"live", "deadline", "cancelled"}, res : Status]]
    /\ closed \in BOOLEAN
    /\ sent \in [Commands -> Nat]
    /\ device \in [Commands -> Status \cup {None}]
    /\ answers \subseteq [cmd : Commands, res : Status]
    /\ requests \in Nat
    /\ crashes \in Nat

Executing(k) == calls[k].pc \in {"route", "attempt", "sending", "complete"}

\* One command is never carried out by two calls at the same time, with or
\* without a journal (reserve and prune under the lock of the service).
OneExecution ==
    \A j, k \in Calls :
        Executing(j) /\ Executing(k) /\ calls[j].cmd = calls[k].cmd => j = k

\* With a journal a device is commanded no more often than the caller allowed,
\* whatever is repeated, interrupted or restarted; a command that is not
\* idempotent at most once.
SendBudget == Durable => \A c \in Commands : sent[c] <= RetryCount(c) + 1

\* A definite outcome of a command that must not be repeated is either the
\* device's own answer, or the command never reached the device.
NoFalseVerdict ==
    Durable => \A c \in Commands \ Idempotent :
        /\ records[c] # None /\ records[c].phase = "complete"
        /\ records[c].res \in Definite /\ sent[c] > 0
        => device[c] = records[c].res

\* Whoever is told a definite outcome is told the one in the journal, so two
\* callers, or a caller and a later query, never learn different outcomes.
AnswersFromJournal ==
    Durable => \A a \in answers : a.res \in Definite =>
        /\ records[a.cmd] # None
        /\ records[a.cmd].phase = "complete" /\ records[a.cmd].res = a.res

\* Once the journal holds a definite outcome (the platform may have read it to
\* reconcile the command), it keeps it and the device gets no other command.
SettledIsFinal ==
    [][Durable => \A c \in Commands :
         CommandResult(c) \in Definite =>
            CommandResult(c)' = CommandResult(c) /\ sent'[c] = sent[c]]_vars

\* An accepted asynchronous command is answered, also when its outcome cannot
\* be stored or the service is closed, unless the process restarts.
AcceptedIsAnswered ==
    \A c \in Commands :
        (crashes = 0 /\ \E k \in Calls : ~At(k, "idle") /\ calls[k].async /\ calls[k].cmd = c)
        ~> (crashes > 0 \/ \E a \in answers : a.cmd = c)
=============================================================================
