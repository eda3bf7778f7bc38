--------------------------- MODULE ModbusConnector ---------------------------
(***************************************************************************)
(* The connector of Modbus devices (connector/modbus): the goroutine that  *)
(* polls the devices and the calls of SendCommand share one client, whose  *)
(* unit is selected before each exchange, under the mutex opMu.  Any       *)
(* request may fail; the client is then closed and opened again by the     *)
(* next user.  The manager stops the connector.                            *)
(***************************************************************************)
EXTENDS Naturals, Sequences

CONSTANTS
    Units,          \* the devices, each one a unit of the bus
    Unset,          \* the unit a new client has (1)
    Points,         \* registers of a device, 1..Points
    Calls,          \* calls of SendCommand, positive numbers
    CallUnit,       \* CallUnit[c]: the device of call c
    CallKind,       \* "update": every register, "control": the first, "query"
    Unmapped,       \* updates of which the second parameter has no mapping
    MaxPolls,       \* bound: poll cycles
    MaxFaults,      \* bound: failed requests
    None

VARIABLES
    reg,        \* the registers of each unit
    client,     \* the unit the client has selected, or None when it is closed
    opMu,       \* None, or who holds the mutex
    poll,       \* the goroutine that polls
    shown,      \* of each device, its state and the last telemetry sent upstream
    call,       \* of each call, where SendCommand is, and its answer
    stopped,    \* "no", "closing" once the context is cancelled, "yes"
    whole,      \* ghost: of each unit, the registers it had while the mutex was free
    faults

vars == <<reg, client, opMu, poll, shown, call, stopped, whole, faults>>

ModbusConstants ==
    /\ Calls \subseteq Nat \ {0} /\ Points \in Nat \ {0} /\ Unset \in Units
    /\ CallUnit \in [Calls -> Units] /\ CallKind \in [Calls -> {"update", "control", "query"}]

(* The goroutine that polls, as a holder of the mutex.                      *)
Poller == 0

(* A reading that failed is BAD, and so are those after it.                 *)
Bad == 0
Values == {Bad, 1} \cup {c + 1 : c \in Calls}
Registers == [1..Points -> Values]
NoReadings == [p \in 1..Points |-> Bad]
Asked(c) == IF CallKind[c] = "control" THEN 1 ELSE Points

TypeOK ==
    /\ reg \in [Units -> Registers] /\ client \in Units \cup {None}
    /\ opMu \in Calls \cup {None, Poller}
    /\ poll \in [pc : {"idle", "next", "read"}, unit : Units, left : SUBSET Units,
                 at : 0..Points + 1, got : Registers, cycles : 0..MaxPolls, failed : BOOLEAN]
    /\ shown \in [Units -> [state : {"OFFLINE", "ONLINE", "ERROR"}, values : Registers]]
    /\ call \in [Calls -> [pc : {"idle", "run", "done"}, at : 0..Points + 1, got : Registers,
                           answer : {None, "SUCCESS", "REJECTED", "error"}]]
    /\ stopped \in {"no", "closing", "yes"} /\ faults \in 0..MaxFaults
    /\ \A u \in Units : reg[u] \in whole[u] \/ opMu # None

Init ==
    /\ reg = [u \in Units |-> [p \in 1..Points |-> 1]]
    /\ client = None /\ opMu = None
    /\ poll = [pc |-> "idle", unit |-> Unset, left |-> {}, at |-> 0, got |-> NoReadings,
               cycles |-> 0, failed |-> FALSE]
    /\ shown = [u \in Units |-> [state |-> "OFFLINE", values |-> NoReadings]]
    /\ call = [c \in Calls |-> [pc |-> "idle", at |-> 0, got |-> NoReadings, answer |-> None]]
    /\ stopped = "no" /\ whole = [u \in Units |-> {reg[u]}] /\ faults = 0

Fault == faults < MaxFaults /\ faults' = faults + 1

(* ensureClient and setUnit, under the mutex: the unit selected afterwards. *)
Ensured == IF client = None THEN Unset ELSE client
SetUnit(u) == u
Unlock == opMu' = None /\ whole' = [u \in Units |-> whole[u] \cup {reg'[u]}]
-----------------------------------------------------------------------------
(* poll: a cycle begins by opening the client ...                           *)
BeginPoll ==
    /\ poll.pc = "idle" /\ poll.cycles < MaxPolls /\ stopped = "no" /\ opMu = None
    /\ client' = Ensured
    /\ poll' = [poll EXCEPT !.pc = "next", !.left = Units, !.cycles = @ + 1]
    /\ UNCHANGED <<reg, opMu, shown, call, stopped, whole, faults>>

(* ... and when that fails every device is OFFLINE and its readings BAD.    *)
PollOffline ==
    /\ poll.pc = "idle" /\ poll.cycles < MaxPolls /\ stopped = "no" /\ opMu = None
    /\ client = None /\ Fault
    /\ poll' = [poll EXCEPT !.cycles = @ + 1]
    /\ shown' = [u \in Units |-> [state |-> "OFFLINE", values |-> NoReadings]]
    /\ UNCHANGED <<reg, client, opMu, call, stopped, whole>>

(* Each device in turn, unless the context has ended.                       *)
NextDevice(u) ==
    /\ poll.pc = "next" /\ u \in poll.left /\ stopped = "no"
    /\ poll' = [poll EXCEPT !.pc = "read", !.unit = u, !.at = 0, !.got = NoReadings,
                            !.failed = FALSE]
    /\ UNCHANGED <<reg, client, opMu, shown, call, stopped, whole, faults>>

LeavePoll ==
    /\ poll.pc = "next" /\ stopped # "no"
    /\ poll' = [poll EXCEPT !.pc = "idle", !.left = {}]
    /\ UNCHANGED <<reg, client, opMu, shown, call, stopped, whole, faults>>

(* pollDevice takes the mutex, though the connector may have been stopped   *)
(* by now, and selects the unit.                                            *)
SelectUnit ==
    /\ poll.pc = "read" /\ poll.at = 0 /\ opMu = None
    /\ opMu' = Poller
    /\ \/ client' = SetUnit(poll.unit) /\ poll' = [poll EXCEPT !.at = 1] /\ UNCHANGED faults
       \/ Fault /\ client' = None
          /\ poll' = [poll EXCEPT !.at = Points + 1, !.failed = TRUE]
    /\ UNCHANGED <<reg, shown, call, stopped, whole>>

(* readDatapoint; after a failure the rest is BAD and the client is closed. *)
ReadPoint ==
    /\ poll.pc = "read" /\ poll.at \in 1..Points
    /\ \/ /\ poll' = [poll EXCEPT !.got[poll.at] = reg[client][poll.at], !.at = @ + 1]
          /\ UNCHANGED <<client, faults>>
       \/ /\ Fault /\ client' = None
          /\ poll' = [poll EXCEPT !.at = Points + 1, !.failed = TRUE]
    /\ UNCHANGED <<reg, opMu, shown, call, stopped, whole>>

(* The mutex is released and the state and the readings are sent upstream,  *)
(* unless the context ends meanwhile.                                       *)
ShowDevice ==
    /\ poll.pc = "read" /\ poll.at = Points + 1
    /\ UNCHANGED reg /\ Unlock
    /\ shown' \in {s \in {shown} : stopped # "no"} \cup {[shown EXCEPT ![poll.unit] =
           [state |-> IF poll.failed THEN "ERROR" ELSE "ONLINE", values |-> poll.got]]}
    /\ LET left == poll.left \ {poll.unit}
       IN  poll' = [poll EXCEPT !.left = left, !.pc = IF left = {} THEN "idle" ELSE "next"]
    /\ UNCHANGED <<client, call, stopped, faults>>
-----------------------------------------------------------------------------
(* SendCommand keeps the mutex from the first request to its answer.        *)
BeginCall(c) ==
    /\ call[c].pc = "idle" /\ opMu = None
    /\ opMu' = c
    /\ \/ client' = SetUnit(CallUnit[c]) /\ call' = [call EXCEPT ![c].pc = "run", ![c].at = 1]
          /\ UNCHANGED faults
       \/ Fault /\ UNCHANGED client
          /\ call' = [call EXCEPT ![c].pc = "run", ![c].at = Points + 1, ![c].answer = "error"]
    /\ UNCHANGED <<reg, poll, shown, stopped, whole>>

(* handleParamUpdate refuses a parameter without mapping when its turn      *)
(* comes; those before it are written.                                      *)
Refuse(c) ==
    /\ call[c].pc = "run" /\ call[c].at = 2 /\ c \in Unmapped
    /\ call' = [call EXCEPT ![c].at = Points + 1, ![c].answer = "REJECTED"]
    /\ UNCHANGED <<reg, client, opMu, poll, shown, stopped, whole, faults>>

Request(c) ==
    /\ call[c].pc = "run" /\ call[c].at \in 1..Asked(c) /\ ~(call[c].at = 2 /\ c \in Unmapped)
    /\ IF CallKind[c] = "query"
       THEN /\ call' = [call EXCEPT ![c].got[call[c].at] = reg[client][call[c].at],
                                    ![c].at = @ + 1]
            /\ UNCHANGED reg
       ELSE /\ reg' = [reg EXCEPT ![client][call[c].at] = c + 1]
            /\ call' = [call EXCEPT ![c].at = @ + 1]
    /\ UNCHANGED <<client, opMu, poll, shown, stopped, whole, faults>>

(* A request that fails may have reached the device.                        *)
RequestFails(c) ==
    /\ call[c].pc = "run" /\ call[c].at \in 1..Asked(c) /\ ~(call[c].at = 2 /\ c \in Unmapped)
    /\ Fault
    /\ reg' \in {reg} \cup {r \in {[reg EXCEPT ![client][call[c].at] = c + 1]} :
                              CallKind[c] # "query"}
    /\ client' = None
    /\ call' = [call EXCEPT ![c].at = Points + 1, ![c].answer = "error"]
    /\ UNCHANGED <<opMu, poll, shown, stopped, whole>>

Answering(c) ==
    /\ call[c].pc = "run" /\ opMu = c
    /\ call[c].at = Points + 1 \/ (call[c].at > Asked(c) /\ call[c].answer = None)
AnswerOf(c) == IF call[c].answer = None THEN "SUCCESS" ELSE call[c].answer
Answer(c) ==
    /\ Answering(c)
    /\ call' = [call EXCEPT ![c].pc = "done", ![c].answer = AnswerOf(c)]
    /\ UNCHANGED reg /\ Unlock
    /\ UNCHANGED <<client, poll, shown, stopped, faults>>

(* The manager cancels the context; Stop closes the client.                 *)
Cancel ==
    /\ stopped = "no" /\ stopped' = "closing"
    /\ UNCHANGED <<reg, client, opMu, poll, shown, call, whole, faults>>
Stop ==
    /\ stopped = "closing" /\ opMu = None
    /\ stopped' = "yes" /\ client' = None
    /\ UNCHANGED <<reg, opMu, poll, shown, call, whole, faults>>

PollStep ==
    \/ BeginPoll \/ PollOffline \/ LeavePoll \/ SelectUnit \/ ReadPoint \/ ShowDevice
    \/ \E u \in Units : NextDevice(u)
CallStep(c) == BeginCall(c) \/ Refuse(c) \/ Request(c) \/ RequestFails(c) \/ Answer(c)
Next == PollStep \/ (\E c \in Calls : CallStep(c)) \/ Cancel \/ Stop
Spec == Init /\ [][Next]_vars
-----------------------------------------------------------------------------
(* Readings that are all good are registers that the device had at one time *)
(* outside the commands: they are of its unit and show a command as a whole.*)
Complete(got) == \A p \in 1..Points : got[p] # Bad
ShowsWhole ==
    /\ \A u \in Units : Complete(shown[u].values) => shown[u].values \in whole[u]
    /\ \A c \in Calls : call[c].pc = "done" /\ call[c].answer = "SUCCESS"
                        /\ CallKind[c] = "query" => call[c].got \in whole[CallUnit[c]]

(* A call that is about to answer SUCCESS has written all it was asked to.  *)
SuccessIsWritten ==
    \A c \in Calls : Answering(c) /\ AnswerOf(c) = "SUCCESS" /\ CallKind[c] # "query"
        => \A p \in 1..Asked(c) : reg[CallUnit[c]][p] = c + 1
=============================================================================
