--------------------------- MODULE OpcuaConnector ---------------------------
(***************************************************************************)
(* The connector of an OPC UA server (connector/opcua) under the manager   *)
(* that runs it (connector/manager.go): the goroutine of Start connects a  *)
(* session, subscribes to the nodes in a goroutine of its own, or polls    *)
(* them, and returns an error when the session is lost; the manager then   *)
(* starts it again.                                                        *)
(***************************************************************************)
EXTENDS Naturals

CONSTANTS
    Nodes,
    Polling,        \* mode "poll", instead of a subscription
    MaxChanges,     \* bound: changes of a node in the server
    MaxFaults       \* bound: losses of the connection, refused subscriptions

VARIABLES
    value,      \* of each node, its value in the server
    link,       \* whether the server can be reached
    session,    \* sessions of this connector that are open in the server
    run,        \* where the goroutine of the connector is
    sub,        \* the goroutine of Subscribe
    due,        \* nodes that have a notification for the subscription
    left,       \* nodes that the poll has still to read
    shown,      \* of each node, the last value sent upstream, or Bad
    stop,       \* "no", "asked" by the manager, "stopped"
    faults

vars == <<value, link, session, run, sub, due, left, shown, stop, faults>>

Bad == 0
TypeOK ==
    /\ value \in [Nodes -> 1..MaxChanges + 1] /\ link \in BOOLEAN /\ session \in 0..MaxFaults + 1
    /\ run \in {"start", "running", "delay", "ended"}
    /\ sub \in {"none", "starting", "on", "failed"}
    /\ due \subseteq Nodes /\ left \subseteq Nodes
    /\ shown \in [Nodes -> Bad..MaxChanges + 1]
    /\ stop \in {"no", "asked", "stopped"} /\ faults \in 0..MaxFaults

Init ==
    /\ value = [n \in Nodes |-> 1] /\ link = TRUE /\ session = 0
    /\ run = "start" /\ sub = "none" /\ due = {} /\ left = {}
    /\ shown = [n \in Nodes |-> Bad] /\ stop = "no" /\ faults = 0

Fault == faults < MaxFaults /\ faults' = faults + 1
-----------------------------------------------------------------------------
(* The server: values change, and the connection is lost and comes back.    *)
Change(n) ==
    /\ value[n] <= MaxChanges
    /\ value' = [value EXCEPT ![n] = @ + 1]
    /\ due' = due \cup {x \in {n} : sub = "on"}
    /\ UNCHANGED <<link, session, run, sub, left, shown, stop, faults>>

LinkDown ==
    /\ link /\ Fault /\ link' = FALSE
    /\ UNCHANGED <<value, session, run, sub, due, left, shown, stop>>
LinkUp ==
    /\ ~link /\ link' = TRUE
    /\ UNCHANGED <<value, session, run, sub, due, left, shown, stop, faults>>

(* Start: the session is connected, or Start returns after every point was  *)
(* reported BAD.                                                            *)
Connect ==
    /\ run = "start" /\ stop = "no"
    /\ IF link
       THEN /\ session' = session + 1 /\ run' = "running"
            /\ sub' = IF Polling THEN "none" ELSE "starting"
            /\ UNCHANGED shown
       ELSE /\ run' = "delay" /\ shown' = [n \in Nodes |-> Bad]
            /\ UNCHANGED <<session, sub>>
    /\ UNCHANGED <<value, link, due, left, stop, faults>>

(* Subscribe: all nodes are monitored, each with a first notification, or   *)
(* it fails.                                                                *)
Monitor ==
    /\ sub = "starting" /\ link
    /\ sub' = "on" /\ due' = Nodes
    /\ UNCHANGED <<value, link, session, run, left, shown, stop, faults>>
MonitorFails ==
    /\ sub = "starting"
    /\ (~link /\ UNCHANGED faults) \/ (link /\ Fault)
    /\ sub' = "failed"
    /\ UNCHANGED <<value, link, session, run, due, left, shown, stop>>

(* A notification is sent upstream from the goroutine of Subscribe.         *)
Notify(n) ==
    /\ sub = "on" /\ link /\ n \in due
    /\ shown' = [shown EXCEPT ![n] = value[n]] /\ due' = due \ {n}
    /\ UNCHANGED <<value, link, session, run, sub, left, stop, faults>>

(* Every 250 ms the state of the connection is looked at.                   *)
Watch ==
    /\ sub = "on" /\ ~link
    /\ sub' = "failed"
    /\ UNCHANGED <<value, link, session, run, due, left, shown, stop, faults>>

(* What becomes of a session that is closed: nobody looks at the error of   *)
(* client.Close, and without connection the server keeps the session until  *)
(* it times out there (which is left out).                                  *)
Closed == IF link THEN session - 1 ELSE session

(* The end of the subscription ends Start: every point is reported BAD and  *)
(* the session is closed.                                                   *)
Fail ==
    /\ run = "running" /\ sub = "failed" /\ stop = "no"
    /\ shown' = [n \in Nodes |-> Bad]
    /\ run' = "delay" /\ sub' = "none" /\ due' = {} /\ session' = Closed
    /\ UNCHANGED <<value, link, left, stop, faults>>

(* In mode "poll" a tick reads every node; one that cannot be read is BAD.  *)
Tick ==
    /\ run = "running" /\ Polling /\ left = {} /\ stop = "no"
    /\ left' = Nodes
    /\ UNCHANGED <<value, link, session, run, sub, due, shown, stop, faults>>
Read(n) ==
    /\ n \in left
    /\ shown' = [shown EXCEPT ![n] = IF link THEN value[n] ELSE Bad]
    /\ left' = left \ {n}
    /\ UNCHANGED <<value, link, session, run, sub, due, stop, faults>>

(* startConnectorLocked: Start is called again after a delay.               *)
Restart ==
    /\ run = "delay" /\ stop = "no" /\ run' = "start"
    /\ UNCHANGED <<value, link, session, sub, due, left, shown, stop, faults>>

(* The manager stops the connector: its context ends, the subscription is   *)
(* waited for, the session is closed, and Stop returns; or, when a call to  *)
(* a server that cannot be reached keeps Start, with an error after 5 s.    *)
AskStop ==
    /\ stop = "no" /\ stop' = "asked"
    /\ UNCHANGED <<value, link, session, run, sub, due, left, shown, faults>>
End ==
    /\ stop # "no" /\ run # "ended"
    /\ run' = "ended" /\ sub' = "none" /\ due' = {} /\ left' = {}
    /\ session' = IF run = "running" THEN Closed ELSE session
    /\ UNCHANGED <<value, link, shown, stop, faults>>
Stopped ==
    /\ stop = "asked" /\ (run = "ended" \/ ~link) /\ stop' = "stopped"
    /\ UNCHANGED <<value, link, session, run, sub, due, left, shown, faults>>

SubscribeStep == Monitor \/ MonitorFails \/ Watch \/ \E n \in Nodes : Notify(n)
RunStep == Connect \/ Fail \/ Tick \/ Restart \/ End \/ Stopped \/ \E n \in Nodes : Read(n)
Next ==
    \/ \E n \in Nodes : Change(n)
    \/ LinkDown \/ LinkUp \/ SubscribeStep \/ RunStep \/ AskStop
-----------------------------------------------------------------------------
(* While no session is there no value is shown as good: what a lost session *)
(* left behind is reported BAD, and nothing is sent after that.             *)
NoneGoodWithoutSession == run \in {"delay", "start"} => \A n \in Nodes : shown[n] = Bad

(* A running connector has one session open, and every other one that is    *)
(* left open in the server was closed while the connection was lost.        *)
SessionsClosed == session - (IF run = "running" THEN 1 ELSE 0) \in 0..faults

(* What is shown of a node follows its value in the server, while the       *)
(* connector is not stopped.                                                *)
Behind(n) == stop = "no" /\ shown[n] # value[n]
=============================================================================
