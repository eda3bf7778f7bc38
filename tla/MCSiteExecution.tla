--------------------------- MODULE MCSiteExecution ---------------------------
(***************************************************************************)
(* Two edges, one normal step on each and one degraded step on the first.  *)
(***************************************************************************)
EXTENDS SiteExecution

CONSTANTS a, b,      \* edges
          s1, s2, d1, \* device steps
          ra, rb,    \* runners
          ha, hb     \* handlers

MCEdges == {a, b}
MCSteps == {s1, s2, d1}
MCStepEdge == [s \in MCSteps |-> IF s = s2 THEN b ELSE a]
MCNormalPlan == <<s1, s2>>
MCDegradedPlan == <<d1>>
MCRunners == {ra, rb}
MCHandlers == {ha, hb}

(* One edge at most meets what is out of the ordinary: a cancellation or an *)
(* outage of coordination happens as long as the other edge has no part in  *)
(* the execution and nothing has crashed; MCSystem has the general case,    *)
(* under one claim and without crashes.                                     *)
Calm ==
    /\ \A t \in Threads : thr[t].op # "cancel" /\ thr[t].pc # "outage" /\ thr[t].mode = "normal"
    /\ \A e \in Edges : doc[e] # None => doc[e].status # "rejected" /\ ~doc[e].cancelled
MCBound == Calm \/ (doc[b] = None /\ crashes = 0 /\ lease.rev <= 1)

MCHome == [t \in {ra, rb, ha, hb} |-> IF t \in {ra, ha} THEN a ELSE b]
=============================================================================
