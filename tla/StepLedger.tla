----------------------------- MODULE StepLedger -----------------------------
(***************************************************************************)
(* What the coordinated execution promises about the physical steps of a   *)
(* plan, without edges, leases or messages: the owner of a device keeps    *)
(* one entry per step, reserves it before the only command it ever sends,  *)
(* and settles it once; a step of the normal plan is commanded only after  *)
(* the step before it succeeded.                                           *)
(***************************************************************************)
EXTENDS Naturals, Sequences

CONSTANTS Steps, NormalPlan, None

VARIABLES outcome, sent

vars == <<outcome, sent>>

Unresolved == {"reserved", "RESULT_UNKNOWN"}

Init ==
    /\ outcome = [s \in Steps |-> None]
    /\ sent = [s \in Steps |-> 0]

Reserve(s) ==
    /\ outcome[s] = None
    /\ outcome' = [outcome EXCEPT ![s] = "reserved"]
    /\ UNCHANGED sent

Command(s) ==
    /\ outcome[s] \in Unresolved
    /\ sent[s] = 0
    /\ \A i \in 2 .. Len(NormalPlan) :
          NormalPlan[i] = s => outcome[NormalPlan[i - 1]] = "SUCCESS"
    /\ sent' = [sent EXCEPT ![s] = 1]
    /\ UNCHANGED outcome

Settle(s) ==
    /\ outcome[s] \in Unresolved
    /\ \E res \in {"SUCCESS", "FAILURE", "RESULT_UNKNOWN"} :
          /\ res = "SUCCESS" => sent[s] = 1
          /\ outcome' = [outcome EXCEPT ![s] = res]
    /\ UNCHANGED sent

Next == \E s \in Steps : Reserve(s) \/ Command(s) \/ Settle(s)

Spec == Init /\ [][Next]_vars
=============================================================================
