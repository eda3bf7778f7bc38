------------------------ MODULE SiteExecution_proofs ------------------------
(***************************************************************************)
(* Proofs about the coordinated execution, for any number of edges, steps, *)
(* threads, claims and crashes: its type invariant, that no device step is *)
(* ever commanded twice, and, in the second part, that it implements       *)
(* StepLedger.                                                             *)
(*                                                                         *)
(* TypeOK is not inductive: a thread relies on the document of its edge,   *)
(* on the step it is working on and on a result to record.  ThreadsOK says *)
(* which of these exist where.  AtMostOnce needs one more part, Exclusive: *)
(* between the reservation of a step and its command there is one thread,  *)
(* the step has not been commanded yet and its reservation is durable.     *)
(***************************************************************************)
EXTENDS SiteExecution, TLAPS

\* The labels a checkpoint returns to.
Labels == {"exit", "claim", "start", "step", "before", "finish"}

\* Thread t, in local state l, has reserved its step and not yet sent it.
Holding(l) ==
    \/ l.pc \in {"before", "send"}
    \/ l.pc \in {"ckpt", "index"} /\ l.next = "before"

\* What local state l of a thread t relies on.
LocalOK(t, l) ==
    /\ l \in Thread
    /\ l.next \in Labels
    /\ l.pc \notin {"idle", "exit"} => l.req \in Execution
    /\ Holding(l) \/ l.pc \in {"import", "reserve", "await", "record"} => l.step \in Steps
    /\ l.pc = "record" => l.res \in Outcomes
    /\ t \in Handlers =>
          (l.pc = "exit" \/ (l.pc \in {"ckpt", "index"} /\ l.next # "before")
             => l.res \in Outcomes)
    /\ l.pc = "send" => StepEdge[l.step] = Home[t]

ThreadsOK ==
    \A t \in Threads :
        /\ LocalOK(t, thr[t])
        /\ thr[t].pc \notin {"idle", "exit", "import"} => doc[Home[t]] # None

\* Thread t is about to command the device of step s.
Commands(t, s) == Holding(thr[t]) /\ thr[t].step = s /\ Home[t] = StepEdge[s]

Exclusive ==
    /\ \A s \in Steps : act[StepEdge[s]][s] = None => sent[s] = 0
    /\ \A t \in Threads, s \in Steps :
          Commands(t, s) => sent[s] = 0 /\ act[StepEdge[s]][s] # None
    /\ \A t, u \in Threads, s \in Steps : Commands(t, s) /\ Commands(u, s) => t = u

IInv == TypeOK /\ ThreadsOK /\ Exclusive /\ AtMostOnce

-----------------------------------------------------------------------------
(***************************************************************************)
(* Local states                                                            *)
(***************************************************************************)
\* An idle thread relies on nothing.
LEMMA IdleOK ==
    ASSUME NEW t \in Threads
    PROVE  LocalOK(t, Idle) /\ ~Holding(Idle)
BY DEF LocalOK, Holding, Idle, Thread, Labels, PCs

\* A call that is over is idle or at its exit, with a result if it is a
\* handler's.
LEMMA ReturnOK ==
    ASSUME NEW t \in Threads, NEW l \in Thread, NEW res \in Outcomes \cup {None},
           t \in Handlers => res \in Outcomes
    PROVE  /\ LocalOK(t, Return(t, l, res))
           /\ ~Holding(Return(t, l, res))
           /\ Return(t, l, res).pc \in {"idle", "exit"}
<1>1. CASE t \in Runners
  BY ZenonT(40), <1>1, SiteAssumption DEF LocalOK, Holding, Return, Idle, Thread, Labels, PCs
<1>2. CASE t \notin Runners
  <2> DEFINE k == [pc |-> "exit", op |-> None, req |-> None, step |-> l.step,
                   res |-> res, mode |-> "normal", rev |-> l.rev, next |-> "exit",
                   peer |-> l.peer]
  <2>1. Return(t, l, res) = k
    BY <1>2 DEF Return, Idle
  <2>2. k \in Thread
    BY DEF Thread, PCs
  <2> QED BY <2>1, <2>2 DEF LocalOK, Holding, Labels
<1> QED BY <1>1, <1>2

\* The same for a call that ends with an error.
LEMMA FailedOK ==
    ASSUME NEW t \in Threads, NEW l \in Thread
    PROVE  /\ LocalOK(t, Failed(t, l))
           /\ ~Holding(Failed(t, l))
           /\ Failed(t, l).pc \in {"idle", "exit"}
BY ReturnOK DEF Failed, Outcomes

\* Going on to a label after a commit or a checkpoint.
LEMMA GotoOK ==
    ASSUME NEW t \in Threads, NEW l \in Thread, NEW label \in Labels,
           l.req \in Execution,
           label = "before" => l.step \in Steps,
           t \in Handlers => label = "before" \/ l.res \in Outcomes
    PROVE  LET k == Goto(t, l, label) IN
           /\ LocalOK(t, k)
           /\ Holding(k) => label = "before" /\ k.step = l.step
           /\ k.pc # "import"
<1>1. CASE label = "exit"
  <2>1. l.res \in Outcomes \cup {None}
    BY DEF Thread
  <2> QED BY <1>1, <2>1, ReturnOK DEF Goto
<1>2. CASE label # "exit"
  BY <1>2 DEF Goto, LocalOK, Holding, Labels, Thread, PCs
<1> QED BY <1>1, <1>2

\* After a local commit the thread writes a checkpoint, fails or goes on.
LEMMA ProceedOK ==
    ASSUME NEW t \in Threads, NEW l \in Thread, NEW label \in Labels,
           l.req \in Execution,
           label = "before" => l.step \in Steps,
           t \in Handlers => label = "before" \/ l.res \in Outcomes,
           Proceed(t, l, label)
    PROVE  \E k \in Thread :
              /\ Local(t, k)
              /\ LocalOK(t, k)
              /\ Holding(k) => label = "before" /\ k.step = l.step
              /\ k.pc # "import"
<1> DEFINE c == [l EXCEPT !.pc = "ckpt", !.next = label]
<1>1. /\ LocalOK(t, c)
      /\ Holding(c) => label = "before" /\ c.step = l.step
      /\ c.pc # "import"
  BY ZenonT(40) DEF LocalOK, Holding, Labels, Thread, PCs
<1>2. CASE Local(t, c)
  <2> HIDE DEF c
  <2> QED BY <1>1, <1>2 DEF LocalOK
<1>3. CASE Local(t, Failed(t, l))
  BY <1>3, FailedOK DEF LocalOK
<1>4. CASE Local(t, Goto(t, l, label))
  BY <1>4, GotoOK DEF LocalOK
<1> QED BY <1>2, <1>3, <1>4 DEF Proceed

(***************************************************************************)
(* What every step of a thread keeps                                       *)
(***************************************************************************)
\* One thread moves to a sound local state and no document disappears.
LEMMA MoveThreads ==
    ASSUME thr \in [Threads -> Thread], ThreadsOK,
           NEW t \in Threads, NEW k, Local(t, k), LocalOK(t, k),
           k.pc \notin {"idle", "exit", "import"} => doc'[Home[t]] # None,
           \A e \in Edges : doc[e] # None => doc'[e] # None
    PROVE  ThreadsOK' /\ thr' \in [Threads -> Thread]
<1>1. \A u \in Threads : thr'[u] = IF u = t THEN k ELSE thr[u]
  BY DEF Local
<1>2. \A u \in Threads : Home[u] \in Edges
  BY SiteAssumption
<1>3. thr' \in [Threads -> Thread]
  BY DEF Local, LocalOK
<1>4. ASSUME NEW u \in Threads
      PROVE  /\ LocalOK(u, thr'[u])
             /\ thr'[u].pc \notin {"idle", "exit", "import"} => doc'[Home[u]] # None
  BY <1>1, <1>2, <1>4 DEF ThreadsOK
<1> QED BY <1>3, <1>4 DEF ThreadsOK, LocalOK

\* One thread moves without taking hold of a step, no reservation is lost and
\* nothing is commanded.
LEMMA MoveExclusive ==
    ASSUME thr \in [Threads -> Thread], Exclusive, AtMostOnce,
           NEW t \in Threads, NEW k, Local(t, k),
           Holding(k) => Holding(thr[t]) /\ k.step = thr[t].step,
           UNCHANGED sent,
           \A s \in Steps : act[StepEdge[s]][s] # None => act'[StepEdge[s]][s] # None
    PROVE  Exclusive' /\ AtMostOnce'
<1>1. \A u \in Threads : thr'[u] = IF u = t THEN k ELSE thr[u]
  BY DEF Local
<1>2. \A u \in Threads, s \in Steps : Commands(u, s)' => Commands(u, s)
  BY <1>1 DEF Commands
<1> QED BY <1>2 DEF Exclusive, AtMostOnce

\* The part of the type invariant that is not about the threads.
StateOK ==
    /\ lease \in [rev : Nat, owner : Edges \cup {None}, fence : Nat, live : BOOLEAN]
    /\ journal \in Execution \cup {None}
    /\ active \in BOOLEAN
    /\ doc \in [Edges -> Execution \cup {None}]
    /\ act \in [Edges -> [Steps -> Outcomes \cup {"reserved", None}]]
    /\ sent \in [Steps -> Nat]
    /\ net \subseteq [step : Steps, fence : Nat, coord : Edges \cup {None}, peer : Threads]
    /\ crashes \in Nat

\* A step in which one thread moves to k, as above, keeps the invariant when
\* it keeps the rest of the types.
LEMMA MoveOK ==
    ASSUME IInv, NEW t \in Threads, NEW k, Local(t, k), LocalOK(t, k),
           k.pc \notin {"idle", "exit", "import"} => doc'[Home[t]] # None,
           Holding(k) => Holding(thr[t]) /\ k.step = thr[t].step,
           \A e \in Edges : doc[e] # None => doc'[e] # None,
           \A s \in Steps : act[StepEdge[s]][s] # None => act'[StepEdge[s]][s] # None,
           UNCHANGED sent,
           StateOK'
    PROVE  IInv'
<1>1. thr \in [Threads -> Thread]
  BY DEF IInv, TypeOK
<1>2. ThreadsOK' /\ thr' \in [Threads -> Thread]
  BY <1>1, MoveThreads DEF IInv
<1>3. Exclusive' /\ AtMostOnce'
  BY <1>1, MoveExclusive DEF IInv
<1>4. TypeOK'
  BY <1>2 DEF StateOK, TypeOK
<1> QED BY <1>2, <1>3, <1>4 DEF IInv

\* The same when nothing but the local state of the thread changes.
LEMMA MoveLocally ==
    ASSUME IInv, NEW t \in Threads, NEW k, Local(t, k), LocalOK(t, k),
           k.pc \notin {"idle", "exit", "import"} => doc[Home[t]] # None,
           Holding(k) => Holding(thr[t]) /\ k.step = thr[t].step,
           UNCHANGED <<lease, journal, active, doc, act, sent, net, crashes>>
    PROVE  IInv'
<1>1. StateOK'
  BY DEF IInv, TypeOK, StateOK
<1> QED BY <1>1, MoveOK

\* What the invariant says about a thread before its step.
LEMMA Before ==
    ASSUME IInv, NEW t \in Threads
    PROVE  /\ StateOK
           /\ Home[t] \in Edges
           /\ thr[t] \in Thread
           /\ LocalOK(t, thr[t])
           /\ doc[Home[t]] \in Execution \cup {None}
           /\ thr[t].pc \notin {"idle", "exit", "import"} => doc[Home[t]] # None
BY SiteAssumption DEF IInv, TypeOK, StateOK, ThreadsOK

\* Save replaces one document by another one and may checkpoint it.
LEMMA SaveOK ==
    ASSUME IInv, NEW t \in Runners, NEW event, NEW status \in Statuses,
           NEW l \in Thread, NEW label \in {"exit", "step"}, l.req \in Execution,
           Save(t, event, status, l, label),
           UNCHANGED <<lease, journal, active, act, sent, net, crashes>>
    PROVE  IInv'
<1> DEFINE d == [l.req EXCEPT !.status = status, !.ver = @ + 1]
           m == [l EXCEPT !.req = d]
<1>1. t \in Threads /\ t \notin Handlers
  BY SiteAssumption DEF Threads
<1>2. d \in Execution
  <2>1. l.req.ver + 1 \in Nat
    BY DEF Execution
  <2> QED BY <2>1 DEF Execution
<1>3. m \in Thread /\ m.req = d
  BY <1>2 DEF Thread
<1>4. doc' = [doc EXCEPT ![Home[t]] = d] /\ Proceed(t, m, label)
  BY DEF Save
<1> HIDE DEF d, m
<1>5. PICK k \in Thread : Local(t, k) /\ LocalOK(t, k) /\ ~Holding(k)
  BY <1>1, <1>2, <1>3, <1>4, ProceedOK DEF Labels
<1>6. \A e \in Edges : doc'[e] = IF e = Home[t] THEN d ELSE doc[e]
  BY <1>1, <1>4, Before DEF StateOK
<1>7. d # None
  BY <1>2, NoneAssumption
<1>8. StateOK'
  BY <1>1, <1>2, <1>4, Before DEF StateOK
<1> QED BY <1>1, <1>5, <1>6, <1>7, <1>8, Before, MoveOK
-----------------------------------------------------------------------------
(***************************************************************************)
(* The steps of the specification                                          *)
(***************************************************************************)
\* The invariant holds before anything happened.
LEMMA InitIInv == Init => IInv
<1> SUFFICES ASSUME Init PROVE IInv
  OBVIOUS
<1>1. \A t \in Threads : thr[t] = Idle
  BY DEF Init
<1>2. \A t \in Threads : thr[t].pc = "idle" /\ LocalOK(t, thr[t]) /\ ~Holding(thr[t])
  BY <1>1, IdleOK DEF Idle
<1>3. TypeOK
  <2>1. thr \in [Threads -> Thread]
    BY <1>2 DEF LocalOK, Init
  <2> QED BY <2>1 DEF Init, TypeOK
<1>4. ThreadsOK
  BY <1>2 DEF ThreadsOK
<1>5. Exclusive /\ AtMostOnce
  BY <1>2, SiteAssumption DEF Exclusive, Commands, AtMostOnce, Init
<1> QED BY <1>3, <1>4, <1>5 DEF IInv

\* What Run does next with a document is a sound local state.
LEMMA ContinueOK ==
    ASSUME NEW t \in Threads, NEW d \in Execution
    PROVE  LET k == Continue(d) IN
           /\ LocalOK(t, k) /\ ~Holding(k)
           /\ k.req = d /\ k.pc \in {"start", "claim"} /\ k.next = "exit"
BY DEF Continue, Idle, LocalOK, Holding, Thread, Labels, PCs

\* A runner's step keeps the invariant.
LEMMA RunnerKeeps ==
    ASSUME IInv, NEW r \in Runners, RunnerStep(r)
    PROVE  IInv'
<1> r \in Threads /\ r \notin Handlers
  BY SiteAssumption DEF Threads
<1> DEFINE l == thr[r]
           e == Home[r]
<1> /\ StateOK /\ e \in Edges /\ l \in Thread /\ LocalOK(r, l)
    /\ doc[e] \in Execution \cup {None}
    /\ l.pc \notin {"idle", "exit", "import"} => doc[e] # None
  BY Before
<1>1. CASE Begin(r)
  <2> DEFINE d == IF doc[e] = None THEN Accepted ELSE doc[e]
             adopted == [journal EXCEPT !.ver = d.ver + 1]
  <2>1. d \in Execution
    BY DEF Accepted, Execution, Statuses
  <2>2. Adoptable(d) => adopted \in Execution
    <3>1. d.ver + 1 \in Nat
      BY <2>1 DEF Execution
    <3> QED BY <3>1 DEF Adoptable, StateOK, Execution
  <2> DEFINE Adopts(k, x) ==
                 /\ Local(r, k) /\ LocalOK(r, k) /\ ~Holding(k)
                 /\ k.pc # "import"
                 /\ x \in Execution /\ doc' = [doc EXCEPT ![e] = x]
  <2>3. ASSUME NEW k, NEW x, Adopts(k, x)
        PROVE  IInv'
    <3>1. \A f \in Edges : doc'[f] = IF f = e THEN x ELSE doc[f]
      BY <2>3 DEF StateOK
    <3>2. x # None
      BY <2>3, NoneAssumption
    <3>3. StateOK'
      BY <1>1, <2>3 DEF StateOK, Begin
    <3> QED BY <1>1, <2>3, <3>1, <3>2, <3>3, MoveOK DEF Begin
  <2>4. CASE doc' = [doc EXCEPT ![e] = d] /\ Local(r, Continue(d))
    BY <2>1, <2>3, <2>4, ContinueOK
  <2>5. CASE /\ d.status \in Running /\ UNCHANGED doc
             /\ Local(r, [Continue(d) EXCEPT !.pc =
                             IF d.status = "running" THEN "outage" ELSE "start"])
    <3> DEFINE p == IF d.status = "running" THEN "outage" ELSE "start"
               k == [Continue(d) EXCEPT !.pc = p]
    <3>1. LocalOK(r, k) /\ ~Holding(k) /\ Local(r, k)
      <4>1. Continue(d) \in Thread /\ Continue(d).next = "exit" /\ Continue(d).req = d
        BY <2>1, ContinueOK DEF LocalOK
      <4>2. k \in Thread /\ k.next = "exit" /\ k.req = d /\ k.pc = p
        BY <4>1 DEF Thread, PCs
      <4> QED BY <2>1, <2>5, <4>2 DEF LocalOK, Holding, Labels
    <3>2. doc[e] # None
      BY <2>5 DEF Accepted, Running
    <3> QED BY <1>1, <2>5, <3>1, <3>2, MoveLocally DEF Begin
  <2>6. CASE /\ Adoptable(d) /\ doc' = [doc EXCEPT ![e] = adopted]
             /\ IF adopted.status \in Terminal
                THEN Proceed(r, Continue(adopted), "exit")
                ELSE Proceed(r, Continue(adopted), Continue(adopted).pc)
    <3>1. PICK label \in {"exit", "start", "claim"} : Proceed(r, Continue(adopted), label)
      BY <2>2, <2>6, ContinueOK
    <3>2. Continue(adopted) \in Thread /\ Continue(adopted).req \in Execution
      BY <2>2, <2>6, ContinueOK DEF LocalOK
    <3>3. PICK k \in Thread : Local(r, k) /\ LocalOK(r, k) /\ ~Holding(k) /\ k.pc # "import"
      BY <3>1, <3>2, ProceedOK DEF Labels
    <3> QED BY <2>2, <2>3, <2>6, <3>3
  <2>7. CASE doc' = [doc EXCEPT ![e] = d] /\ UNCHANGED thr
    <3>1. Local(r, l) /\ ~Holding(l)
      BY <1>1, <2>7 DEF Local, IInv, TypeOK, Begin, At, Holding
    <3> QED BY <1>1, <2>1, <2>3, <2>7, <3>1 DEF Begin, At
  <2> QED BY <1>1, <2>4, <2>5, <2>6, <2>7 DEF Begin
<1>2. CASE Claim(r)
  <2>1. PICK k : /\ Local(r, k)
                 /\ \/ k = [l EXCEPT !.pc = "commit", !.rev = lease.rev + 1]
                    \/ k = [l EXCEPT !.pc = "outage"]
    BY <1>2 DEF Claim
  <2>2. lease.rev + 1 \in Nat /\ l.pc = "claim"
    BY <1>2 DEF StateOK, Claim, At
  <2>3. LocalOK(r, k) /\ ~Holding(k) /\ k.pc \in {"commit", "outage"}
    BY ZenonT(40), <2>1, <2>2 DEF LocalOK, Holding, Thread, PCs
  <2>4. StateOK'
    BY <1>2, <2>2 DEF StateOK, Claim
  <2> QED BY <1>2, <2>1, <2>2, <2>3, <2>4, MoveOK DEF Claim
<1>3. CASE LeaseHeld(r)
  BY <1>3, IdleOK, MoveLocally DEF LeaseHeld, Idle
<1>4. CASE Commit(r)
  <2> DEFINE p == IF l.op = "cancel" THEN "cancel" ELSE "start"
             q == [l.req EXCEPT !.fence = l.rev, !.coord = e]
  <2>1. l.pc = "commit" /\ l.req \in Execution /\ l.rev \in Nat
    BY <1>4 DEF Commit, At, LocalOK, Thread
  <2>2. q \in Execution
    BY <2>1 DEF Execution
  <2>3. PICK k : /\ Local(r, k)
                 /\ \/ k = [l EXCEPT !.pc = p, !.req = q]
                    \/ k = [l EXCEPT !.pc = "outage", !.rev = 0]
    BY <1>4, <2>1 DEF Commit, Thread, Execution
  <2> HIDE DEF q
  <2>4. LocalOK(r, k) /\ ~Holding(k) /\ k.pc \in {"cancel", "start", "outage"}
    <3>1. CASE k = [l EXCEPT !.pc = p, !.req = q]
      BY ZenonT(40), <2>1, <2>2, <3>1 DEF LocalOK, Holding, Thread, PCs
    <3>2. CASE k = [l EXCEPT !.pc = "outage", !.rev = 0]
      BY <2>1, <3>2 DEF LocalOK, Holding, Thread, PCs
    <3> QED BY <2>3, <3>1, <3>2
  <2>5. StateOK'
    BY <1>4, <2>1 DEF StateOK, Commit
  <2> QED BY <1>4, <2>1, <2>3, <2>4, <2>5, MoveOK DEF Commit
<1>5. CASE CoordinationFails(r)
  <2> DEFINE k == [l EXCEPT !.pc = "outage", !.rev = 0]
  <2>1. l.pc \in {"claim", "commit"} /\ Local(r, k)
    BY <1>5 DEF CoordinationFails, At
  <2>2. LocalOK(r, k) /\ ~Holding(k)
    BY ZenonT(40), <2>1 DEF LocalOK, Holding, Thread, PCs
  <2> QED BY <1>5, <2>1, <2>2, MoveLocally DEF CoordinationFails
<1>6. CASE Degrade(r)
  <2> DEFINE q == [l.req EXCEPT !.fence = 0, !.coord = None]
  <2>1. l.pc = "outage" /\ l.req \in Execution
    BY <1>6 DEF Degrade, At, LocalOK
  <2>2. q \in Execution
    BY <2>1 DEF Execution
  <2>3. PICK k : /\ Local(r, k)
                 /\ \/ k = [l EXCEPT !.pc = "start", !.mode = "degraded", !.req = q]
                    \/ k = Idle
    BY <1>6, <2>1 DEF Degrade, Thread, Execution
  <2> HIDE DEF q
  <2>4. LocalOK(r, k) /\ ~Holding(k) /\ k.pc \in {"idle", "start"}
    <3>1. CASE k = Idle
      BY <3>1, IdleOK DEF Idle
    <3>2. CASE k = [l EXCEPT !.pc = "start", !.mode = "degraded", !.req = q]
      BY <2>1, <2>2, <3>2 DEF LocalOK, Holding, Thread, PCs
    <3> QED BY <2>3, <3>1, <3>2
  <2> QED BY <1>6, <2>1, <2>3, <2>4, MoveLocally DEF Degrade
<1>7. CASE Reject(r)
  <2>1. l.req \in Execution
    BY <1>7 DEF Reject, At, LocalOK
  <2>2. Save(r, "reject", IF UnknownActions(act[e]) THEN "result_unknown" ELSE "rejected",
             l, "exit")
    BY <1>7 DEF Reject
  <2> QED BY <1>7, <2>1, <2>2, SaveOK DEF Reject, Statuses, Terminal
<1>8. CASE Start(r)
  <2>1. l.req \in Execution
    BY <1>8 DEF Start, At, LocalOK
  <2>2. Save(r, "start", IF l.mode = "degraded" THEN "degraded_running" ELSE "running",
             l, "step")
    BY <1>8 DEF Start
  <2> QED BY <1>8, <2>1, <2>2, SaveOK DEF Start, Statuses, Running
<1>9. CASE PickStep(r)
  <2>1. l.pc = "step" /\ l.next \in Labels /\ doc[e] \in Execution
    BY <1>9 DEF PickStep, At, LocalOK
  <2>2. CASE Local(r, Return(r, l, None))
    BY <1>9, <2>2, ReturnOK, MoveLocally DEF PickStep
  <2>3. CASE Local(r, [l EXCEPT !.pc = "finish", !.req = doc[e], !.step = None, !.res = "SUCCESS"])
    <3> DEFINE k == [l EXCEPT !.pc = "finish", !.req = doc[e], !.step = None, !.res = "SUCCESS"]
    <3>1. k \in Thread /\ k.pc = "finish" /\ k.next = l.next /\ k.req = doc[e]
      BY <2>1 DEF Thread, PCs, Outcomes, Confirmed
    <3>2. LocalOK(r, k) /\ ~Holding(k)
      BY <2>1, <3>1 DEF LocalOK, Holding
    <3> QED BY <1>9, <2>1, <2>3, <3>1, <3>2, MoveLocally DEF PickStep
  <2>4. CASE \E s \in Steps : Local(r, [l EXCEPT !.pc = "reserve", !.req = doc[e],
                                                !.step = s, !.res = None])
    <3>1. PICK s \in Steps : Local(r, [l EXCEPT !.pc = "reserve", !.req = doc[e],
                                               !.step = s, !.res = None])
      BY <2>4
    <3> DEFINE k == [l EXCEPT !.pc = "reserve", !.req = doc[e], !.step = s, !.res = None]
    <3>2. /\ k \in Thread /\ k.pc = "reserve" /\ k.next = l.next /\ k.req = doc[e]
          /\ k.step = s
      BY <2>1 DEF Thread, PCs
    <3>3. LocalOK(r, k) /\ ~Holding(k)
      BY <2>1, <3>2 DEF LocalOK, Holding
    <3> QED BY <1>9, <2>1, <3>1, <3>2, <3>3, MoveLocally DEF PickStep
  <2>5. \A i \in DOMAIN Plan(l.mode) : Plan(l.mode)[i] \in Steps
    BY SiteAssumption DEF Plan
  <2> QED BY <1>9, <2>2, <2>3, <2>4, <2>5 DEF PickStep
<1>10. CASE Timeout(r)
  <2> DEFINE k == [l EXCEPT !.pc = "record", !.res = "RESULT_UNKNOWN"]
  <2>1. l.pc = "await" /\ Local(r, k)
    BY <1>10 DEF Timeout, At
  <2>2. LocalOK(r, k) /\ ~Holding(k)
    BY <2>1 DEF LocalOK, Holding, Thread, PCs, Outcomes
  <2> QED BY <1>10, <2>1, <2>2, MoveLocally DEF Timeout
<1>11. CASE Finish(r)
  <2>1. l.req \in Execution
    BY <1>11 DEF Finish, At, LocalOK
  <2> DEFINE status == CASE l.res = "RESULT_UNKNOWN" -> "result_unknown"
                         [] l.res = "SUCCESS" -> IF l.mode = "degraded"
                                                 THEN "degraded_completed" ELSE "completed"
                         [] OTHER -> "failed"
  <2>2. Save(r, "finish", status, l, "exit")
    BY <1>11 DEF Finish
  <2>3. status \in Statuses
    BY DEF Statuses, Terminal
  <2> HIDE DEF status
  <2> QED BY <1>11, <2>1, <2>2, <2>3, SaveOK DEF Finish
<1>12. CASE Release(r)
  <2>1. Local(r, Idle)
    BY <1>12 DEF Release
  <2>2. StateOK'
    BY <1>12 DEF StateOK, Release
  <2> QED BY <1>12, <2>1, <2>2, IdleOK, MoveOK DEF Release, Idle
<1>13. CASE BeginCancel(r)
  <2> DEFINE d == doc[e]
  <2>1. PICK p \in {"cancel", "claim"} :
           Local(r, [[Idle EXCEPT !.op = "cancel", !.req = d] EXCEPT !.pc = p])
    BY <1>13 DEF BeginCancel
  <2> DEFINE k == [[Idle EXCEPT !.op = "cancel", !.req = d] EXCEPT !.pc = p]
  <2>2. d \in Execution /\ d # None
    BY <1>13 DEF BeginCancel
  <2>3. LocalOK(r, k) /\ ~Holding(k) /\ k.pc = p
    BY ZenonT(40), <2>2 DEF LocalOK, Holding, Idle, Thread, Labels, PCs
  <2> QED BY <1>13, <2>1, <2>2, <2>3, MoveLocally DEF BeginCancel
<1>14. CASE Cancel(r)
  <2> DEFINE q == [l.req EXCEPT !.cancelled = TRUE]
             m == [l EXCEPT !.req = q]
  <2>1. l.req \in Execution
    BY <1>14 DEF Cancel, At, LocalOK
  <2>2. q \in Execution
    BY <2>1 DEF Execution
  <2>3. m \in Thread /\ m.req \in Execution
    BY <2>2 DEF Thread
  <2>4. \E status \in {"cancelled_result_unknown", "cancelled"} :
           Save(r, "cancel", status, m, "exit")
    BY <1>14, <2>1 DEF Cancel, Thread, Execution
  <2> QED BY <1>14, <2>3, <2>4, SaveOK DEF Cancel, Statuses, Terminal
<1> QED BY <1>1, <1>2, <1>3, <1>4, <1>5, <1>6, <1>7, <1>8, <1>9, <1>10, <1>11,
           <1>12, <1>13, <1>14 DEF RunnerStep
\* A step of a handler alone keeps the invariant.
LEMMA HandlerKeeps ==
    ASSUME IInv, NEW h \in Handlers, HandlerStep(h)
    PROVE  IInv'
<1> h \in Threads
  BY DEF Threads
<1> DEFINE l == thr[h]
           e == Home[h]
<1> /\ StateOK /\ e \in Edges /\ l \in Thread /\ LocalOK(h, l)
    /\ doc[e] \in Execution \cup {None}
    /\ l.pc \notin {"idle", "exit", "import"} => doc[e] # None
  BY Before
<1>1. CASE Receive(h)
  <2>1. PICK m \in net :
           /\ net' = net \ {m}
           /\ \/ /\ journal # None
                 /\ Local(h, Taken(m, "import", journal, None))
              \/ \E res \in {"FAILURE", "RESULT_UNKNOWN"} :
                    Local(h, Taken(m, "exit", None, res))
    BY <1>1 DEF Receive, Authorized
  <2>2. m.fence \in Nat /\ m.step \in Steps /\ m.peer \in Threads
    BY DEF StateOK
  <2>3. StateOK'
    BY <1>1, <2>1 DEF StateOK, Receive
  <2>4. \E k : Local(h, k) /\ LocalOK(h, k) /\ ~Holding(k) /\ k.pc \in {"import", "exit"}
    <3>1. CASE journal # None /\ Local(h, Taken(m, "import", journal, None))
      <4> DEFINE k == Taken(m, "import", journal, None)
      <4>1. k \in Thread /\ k.pc = "import" /\ k.next = "exit" /\ k.req \in Execution
            /\ k.step \in Steps
        BY <2>2, <3>1 DEF StateOK, Taken, Thread, PCs
      <4>2. LocalOK(h, k) /\ ~Holding(k)
        BY <4>1 DEF LocalOK, Holding, Labels
      <4> QED BY <3>1, <4>1, <4>2
    <3>2. ASSUME NEW res \in {"FAILURE", "RESULT_UNKNOWN"}, Local(h, Taken(m, "exit", None, res))
          PROVE  \E k : Local(h, k) /\ LocalOK(h, k) /\ ~Holding(k)
                        /\ k.pc \in {"import", "exit"}
      <4> DEFINE k == Taken(m, "exit", None, res)
      <4>1. k \in Thread /\ k.pc = "exit" /\ k.next = "exit" /\ k.res \in Outcomes
        BY <2>2 DEF Taken, Thread, PCs, Outcomes, Confirmed
      <4>2. LocalOK(h, k) /\ ~Holding(k)
        BY <4>1 DEF LocalOK, Holding, Labels
      <4> QED BY <3>2, <4>1, <4>2
    <3> QED BY <2>1, <3>1, <3>2
  <2> QED BY <1>1, <2>3, <2>4, MoveOK DEF Receive
<1>2. CASE Import(h)
  <2> DEFINE v == IF doc[e] = None THEN 1 ELSE doc[e].ver + 1
             d == [l.req EXCEPT !.ver = v]
             m == [l EXCEPT !.req = d]
  <2>1. l.pc = "import" /\ l.req \in Execution
    BY <1>2 DEF Import, At, LocalOK
  <2>2. v \in Nat
    BY DEF Execution
  <2>3. d \in Execution
    BY <2>1, <2>2 DEF Execution
  <2>4. doc' = [doc EXCEPT ![e] = d]
    BY <1>2 DEF Import
  <2>5. \/ Local(h, [l EXCEPT !.pc = "reserve", !.req = d])
        \/ Local(h, Failed(h, m))
    BY <1>2 DEF Import
  <2>6. l.step \in Steps
    BY <1>2, <2>1 DEF LocalOK
  <2> HIDE DEF v, d
  <2>7. m \in Thread
    BY <2>3 DEF Thread
  <2>8. \E k : Local(h, k) /\ LocalOK(h, k) /\ ~Holding(k)
    <3>1. CASE Local(h, Failed(h, m))
      BY <2>7, <3>1, FailedOK
    <3>2. CASE Local(h, [l EXCEPT !.pc = "reserve", !.req = d])
      <4> DEFINE k == [l EXCEPT !.pc = "reserve", !.req = d]
      <4>1. k \in Thread /\ k.pc = "reserve" /\ k.next = l.next /\ k.req = d /\ k.step = l.step
        BY <2>3 DEF Thread, PCs
      <4>2. LocalOK(h, k) /\ ~Holding(k)
        BY <2>3, <2>6, <4>1 DEF LocalOK, Holding
      <4> QED BY <3>2, <4>2
    <3> QED BY <2>5, <3>1, <3>2
  <2>9. d # None
    BY <2>3, NoneAssumption
  <2>10. StateOK'
    BY <1>2, <2>3, <2>4 DEF StateOK, Import
  <2>11. \A f \in Edges : doc'[f] = IF f = e THEN d ELSE doc[f]
    BY <2>4 DEF StateOK
  <2> QED BY <1>2, <2>8, <2>9, <2>10, <2>11, MoveOK DEF Import
<1>3. CASE Respond(h)
  <2> DEFINE r == l.peer
             waits == At(r, "await") /\ thr[r].step = l.step /\ thr[r].req.fence = l.rev
             k == [thr[r] EXCEPT !.pc = "record", !.res = l.res]
  <2>1. thr' = [t \in Threads |-> IF t = h THEN Idle
                                  ELSE IF t = r /\ waits THEN k ELSE thr[t]]
    BY <1>3 DEF Respond
  <2>2. l.pc = "exit" /\ l.res \in Outcomes
    BY <1>3 DEF Respond, At, LocalOK
  <2>3. ASSUME r \in Threads, waits
        PROVE  LocalOK(r, k) /\ ~Holding(k) /\ k.pc = "record" /\ doc[Home[r]] # None
    <3>1. /\ thr[r] \in Thread /\ LocalOK(r, thr[r]) /\ thr[r].pc = "await"
          /\ doc[Home[r]] # None
      BY <2>3, Before DEF At
    <3>2. /\ k \in Thread /\ k.pc = "record" /\ k.next = thr[r].next
          /\ k.req = thr[r].req /\ k.step = thr[r].step /\ k.res = l.res
      BY ZenonT(40), <2>2, <3>1 DEF Thread, PCs
    <3> HIDE DEF k
    <3>3. LocalOK(r, k) /\ ~Holding(k)
      BY <2>2, <3>1, <3>2 DEF LocalOK, Holding
    <3> QED BY <3>1, <3>2, <3>3
  <2> HIDE DEF waits, k
  <2>4. ASSUME NEW t \in Threads
        PROVE  /\ LocalOK(t, thr'[t])
               /\ thr'[t].pc \notin {"idle", "exit", "import"} => doc[Home[t]] # None
               /\ Holding(thr'[t]) => thr'[t] = thr[t]
    <3>1. CASE t = h
      BY <2>1, <3>1, IdleOK DEF Idle
    <3>2. CASE t # h /\ t = r /\ waits
      BY <2>1, <2>3, <3>2
    <3>3. CASE t # h /\ ~(t = r /\ waits)
      BY <2>1, <3>3, Before
    <3> QED BY <3>1, <3>2, <3>3
  <2>5. thr' \in [Threads -> Thread]
    BY <2>1, <2>4 DEF LocalOK
  <2>6. TypeOK'
    BY <1>3, <2>5 DEF StateOK, TypeOK, Respond
  <2>7. ThreadsOK'
    BY <1>3, <2>4 DEF ThreadsOK, Respond, LocalOK
  <2>8. \A t \in Threads, s \in Steps : Commands(t, s)' => Commands(t, s)
    BY <2>4 DEF Commands
  <2>9. Exclusive' /\ AtMostOnce'
    BY <1>3, <2>8 DEF IInv, Exclusive, AtMostOnce, Respond
  <2> QED BY <2>6, <2>7, <2>9 DEF IInv
<1> QED BY <1>1, <1>2, <1>3 DEF HandlerStep

\* A step that runners and handlers share keeps the invariant.
LEMMA ThreadKeeps ==
    ASSUME IInv, NEW t \in Threads, ThreadStep(t)
    PROVE  IInv'
<1> DEFINE l == thr[t]
           e == Home[t]
           s == l.step
<1> /\ StateOK /\ e \in Edges /\ l \in Thread /\ LocalOK(t, l)
    /\ doc[e] \in Execution \cup {None}
    /\ l.pc \notin {"idle", "exit", "import"} => doc[e] # None
  BY Before
<1>1. CASE WriteJournal(t)
  <2> DEFINE k == [l EXCEPT !.pc = "index"]
  <2>1. l.pc = "ckpt" /\ Local(t, k) /\ l.req \in Execution
    BY <1>1 DEF WriteJournal, At, LocalOK
  <2>2. LocalOK(t, k) /\ (Holding(k) => Holding(l) /\ k.step = l.step)
    BY <2>1 DEF LocalOK, Holding, Thread, PCs
  <2>3. StateOK'
    BY <1>1, <2>1 DEF StateOK, WriteJournal
  <2> QED BY <1>1, <2>1, <2>2, <2>3, MoveOK DEF WriteJournal
<1>2. CASE WriteActive(t)
  <2> DEFINE k == Goto(t, l, l.next)
  <2>1. l.pc = "index" /\ Local(t, k) /\ l.req \in Execution /\ l.next \in Labels
    BY <1>2 DEF WriteActive, At, LocalOK
  <2>2. /\ l.next = "before" => l.step \in Steps /\ Holding(l)
        /\ t \in Handlers => l.next = "before" \/ l.res \in Outcomes
    BY <2>1 DEF LocalOK, Holding
  <2>3. LocalOK(t, k) /\ (Holding(k) => Holding(l) /\ k.step = l.step) /\ k.pc # "import"
    BY <2>1, <2>2, GotoOK
  <2>4. StateOK'
    BY <1>2, <2>1 DEF StateOK, WriteActive
  <2> QED BY <1>2, <2>1, <2>3, <2>4, MoveOK DEF WriteActive
<1>3. CASE Reserve(t)
  <2>1. l.pc = "reserve" /\ s \in Steps /\ l.req \in Execution /\ doc[e] # None
    BY <1>3 DEF Reserve, At, LocalOK
  <2>2. CASE Reservable(e, s)
    <3> DEFINE d == [l.req EXCEPT !.cmd = s, !.ver = @ + 1]
               m == [l EXCEPT !.req = d]
    <3>1. /\ act' = [act EXCEPT ![e][s] = "reserved"]
          /\ doc' = [doc EXCEPT ![e] = d]
          /\ Proceed(t, m, "before")
      BY <1>3, <2>2 DEF Reserve
    <3>2. d \in Execution
      <4>1. l.req.ver + 1 \in Nat
        BY <2>1 DEF Execution
      <4> QED BY <2>1, <4>1 DEF Execution
    <3> HIDE DEF d
    <3>3. m \in Thread /\ m.req = d /\ m.step = s
      BY <3>2 DEF Thread
    <3> HIDE DEF m
    <3>4. PICK k \in Thread : /\ Local(t, k) /\ LocalOK(t, k)
                              /\ Holding(k) => k.step = s
      BY <2>1, <3>1, <3>2, <3>3, ProceedOK DEF Labels
    <3>5. \A f \in Edges : doc'[f] = IF f = e THEN d ELSE doc[f]
      BY <3>1 DEF StateOK
    <3>6. d # None
      BY <3>2, NoneAssumption
    <3>7. \A f \in Edges, x \in Steps :
             act'[f][x] = IF f = e /\ x = s THEN "reserved" ELSE act[f][x]
      BY <2>1, <3>1 DEF StateOK
    <3>8. thr \in [Threads -> Thread] /\ \A u \in Threads : thr'[u] = IF u = t THEN k ELSE thr[u]
      BY <3>4 DEF Local, IInv, TypeOK
    <3>9. ThreadsOK' /\ thr' \in [Threads -> Thread]
      BY <3>4, <3>5, <3>6, <3>8, MoveThreads DEF IInv
    <3>10. TypeOK'
      BY <1>3, <2>1, <3>1, <3>2, <3>9 DEF StateOK, TypeOK, Reserve
    <3>11. UNCHANGED sent /\ act[e][s] = None /\ "reserved" # None
      BY <1>3, <2>2, SiteAssumption DEF Reserve, Reservable
    <3>12. \A x \in Steps : StepEdge[x] \in Edges
      BY SiteAssumption
    <3>13. ASSUME NEW u \in Threads, NEW x \in Steps, Commands(u, x)'
           PROVE  IF u = t THEN x = s /\ e = StepEdge[s] ELSE Commands(u, x) /\ ~(x = s /\ e = StepEdge[s])
      BY <3>4, <3>8, <3>11, <3>13 DEF Commands, IInv, Exclusive
    <3>14. Exclusive'
      <4>1. ASSUME NEW x \in Steps, act'[StepEdge[x]][x] = None
            PROVE  sent'[x] = 0
        BY <3>7, <3>11, <3>12, <4>1 DEF IInv, Exclusive
      <4>2. ASSUME NEW u \in Threads, NEW x \in Steps, Commands(u, x)'
            PROVE  sent'[x] = 0 /\ act'[StepEdge[x]][x] # None
        BY <3>7, <3>11, <3>12, <3>13, <4>2 DEF IInv, Exclusive
      <4>3. ASSUME NEW u \in Threads, NEW w \in Threads, NEW x \in Steps,
                   Commands(u, x)', Commands(w, x)'
            PROVE  u = w
        BY <3>13, <4>3 DEF IInv, Exclusive
      <4> QED BY <4>1, <4>2, <4>3 DEF Exclusive
    <3>15. AtMostOnce'
      BY <3>11 DEF IInv, AtMostOnce
    <3> QED BY <3>9, <3>10, <3>14, <3>15 DEF IInv
  <2>3. CASE ~Reservable(e, s)
    <3> DEFINE x == IF act[e][s] = "reserved" THEN "RESULT_UNKNOWN" ELSE act[e][s]
               k == [l EXCEPT !.pc = "record", !.res = x]
    <3>1. Local(t, k) /\ UNCHANGED <<act, doc>>
      BY <1>3, <2>3 DEF Reserve
    <3>2. x \in Outcomes
      BY <2>1, <2>3 DEF StateOK, Reservable, Outcomes
    <3> HIDE DEF x
    <3>3. LocalOK(t, k) /\ ~Holding(k)
      BY <2>1, <3>2 DEF LocalOK, Holding, Thread, PCs
    <3> QED BY <1>3, <2>1, <3>1, <3>3, MoveLocally DEF Reserve
  <2> QED BY <2>2, <2>3
<1>4. CASE Refuse(t)
  <2>1. PICK res \in {"FAILURE", "RESULT_UNKNOWN"} :
           Local(t, [l EXCEPT !.pc = "record", !.res = res])
    BY <1>4 DEF Refuse
  <2> DEFINE k == [l EXCEPT !.pc = "record", !.res = res]
  <2>2. l.pc = "before" /\ res \in Outcomes
    BY <1>4 DEF Refuse, At, Outcomes, Confirmed
  <2>3. LocalOK(t, k) /\ ~Holding(k)
    BY <2>2 DEF LocalOK, Holding, Thread, PCs
  <2> QED BY <1>4, <2>1, <2>2, <2>3, MoveLocally DEF Refuse
<1>5. CASE Dispatch(t)
  <2>1. l.pc = "before" /\ s \in Steps /\ l.req \in Execution
    BY <1>5 DEF Dispatch, At, LocalOK, Holding
  <2>2. PICK p \in {"send", "await"} : /\ Local(t, [l EXCEPT !.pc = p])
                                       /\ p = "send" => StepEdge[s] = e
    BY <1>5 DEF Dispatch
  <2> DEFINE k == [l EXCEPT !.pc = p]
  <2>3. LocalOK(t, k) /\ (Holding(k) => Holding(l) /\ k.step = s) /\ k.pc = p
    BY <2>1, <2>2 DEF LocalOK, Holding, Thread, PCs
  <2>4. StateOK'
    <3>1. l.req.fence \in Nat /\ l.req.coord \in Edges \cup {None}
      BY <2>1 DEF Execution
    <3> QED BY <1>5, <2>1, <3>1 DEF StateOK, Dispatch
  <2> QED BY <1>5, <2>1, <2>2, <2>3, <2>4, MoveOK DEF Dispatch
<1>6. CASE Command(t)
  <2>1. PICK res \in Outcomes : Local(t, [l EXCEPT !.pc = "record", !.res = res])
    BY <1>6 DEF Command
  <2> DEFINE k == [l EXCEPT !.pc = "record", !.res = res]
  <2>2. l.pc = "send" /\ s \in Steps /\ StepEdge[s] = e /\ Commands(t, s)
    BY <1>6 DEF Command, At, LocalOK, Holding, Commands
  <2>3. LocalOK(t, k) /\ ~Holding(k)
    BY <2>2 DEF LocalOK, Holding, Thread, PCs
  <2>4. sent[s] = 0 /\ act[e][s] # None
    BY <2>2 DEF IInv, Exclusive
  <2>5. \A x \in Steps : sent'[x] = IF x = s THEN 1 ELSE sent[x]
    BY <1>6, <2>2, <2>4 DEF StateOK, Command
  <2>6. thr \in [Threads -> Thread] /\ \A u \in Threads : thr'[u] = IF u = t THEN k ELSE thr[u]
    BY <2>1 DEF Local, IInv, TypeOK
  <2>7. ThreadsOK' /\ thr' \in [Threads -> Thread]
    BY <1>6, <2>1, <2>2, <2>3, <2>6, MoveThreads DEF IInv, Command
  <2>8. TypeOK'
    <3>1. sent' \in [Steps -> Nat]
      <4>1. sent' = [sent EXCEPT ![s] = sent[s] + 1] /\ sent[s] + 1 \in Nat
        BY <1>6, <2>2 DEF StateOK, Command
      <4> QED BY <4>1 DEF StateOK
    <3> QED BY <1>6, <2>7, <3>1 DEF StateOK, TypeOK, Command
  <2>9. \A u \in Threads, x \in Steps : Commands(u, x)' => Commands(u, x) /\ x # s
    BY <2>2, <2>3, <2>6 DEF Commands, IInv, Exclusive
  <2>10. Exclusive'
    <3>1. UNCHANGED act
      BY <1>6 DEF Command
    <3> QED BY <2>2, <2>4, <2>5, <2>9, <3>1 DEF IInv, Exclusive
  <2>11. AtMostOnce'
    BY <2>5 DEF IInv, AtMostOnce
  <2> QED BY <2>7, <2>8, <2>10, <2>11 DEF IInv
<1>7. CASE Record(t)
  <2>1. /\ l.pc = "record" /\ s \in Steps /\ l.res \in Outcomes
        /\ doc[e] \in Execution
    BY <1>7 DEF Record, At, LocalOK
  <2> DEFINE a == [act[e] EXCEPT ![s] = Outcome(@, l.res)]
             status == IF doc[e].status = "cancelled_result_unknown" /\ ~UnknownActions(a)
                       THEN "cancelled" ELSE doc[e].status
             d == [doc[e] EXCEPT !.ver = @ + 1, !.status = status, !.steps[s] = a[s],
                                 !.cmd = IF @ = s THEN None ELSE @]
             m == [l EXCEPT !.req = d]
             label == IF t \in Handlers \/ status \notin Running THEN "exit"
                      ELSE IF l.res = "SUCCESS" /\ ~LastStep(t) THEN "step" ELSE "finish"
  <2>2. /\ act' = [act EXCEPT ![e] = a]
        /\ doc' = [doc EXCEPT ![e] = d]
        /\ Proceed(t, m, label)
        /\ UNCHANGED <<lease, journal, active, sent, net, crashes>>
    BY <1>7 DEF Record
  <2>3. a[s] = Outcome(act[e][s], l.res) /\ a \in [Steps -> Outcomes \cup {"reserved", None}]
    BY <2>1 DEF StateOK, Outcome
  <2>4. a[s] \in Outcomes \cup {None} /\ (act[e][s] # None => a[s] # None)
    BY <2>1, <2>3, SiteAssumption DEF StateOK, Outcome, Unresolved, Outcomes, Confirmed
  <2>5. status \in Statuses
    BY <2>1 DEF Execution, Statuses, Terminal
  <2> HIDE DEF a, status
  <2>6. d \in Execution
    <3>1. doc[e].ver + 1 \in Nat /\ doc[e].steps \in [Steps -> Outcomes \cup {None}]
      BY <2>1 DEF Execution
    <3>2. [doc[e].steps EXCEPT ![s] = a[s]] \in [Steps -> Outcomes \cup {None}]
      BY <2>4, <3>1
    <3>3. (IF doc[e].cmd = s THEN None ELSE doc[e].cmd) \in Steps \cup {None}
      BY <2>1 DEF Execution
    <3> QED BY <2>1, <2>5, <3>1, <3>2, <3>3 DEF Execution
  <2> HIDE DEF d
  <2>7. m \in Thread /\ m.req = d /\ m.res = l.res
    BY <2>6 DEF Thread
  <2>8. label \in Labels /\ label # "before"
    BY DEF Labels
  <2> HIDE DEF m, label
  <2>9. PICK k \in Thread : Local(t, k) /\ LocalOK(t, k) /\ ~Holding(k) /\ k.pc # "import"
    BY <2>1, <2>2, <2>6, <2>7, <2>8, ProceedOK
  <2>10. \A f \in Edges : doc'[f] = IF f = e THEN d ELSE doc[f]
    BY <2>2 DEF StateOK
  <2>11. d # None
    BY <2>6, NoneAssumption
  <2>12. \A x \in Steps : act[StepEdge[x]][x] # None => act'[StepEdge[x]][x] # None
    <3>1. \A x \in Steps : act[e][x] # None => a[x] # None
      BY <2>1, <2>4 DEF a, StateOK
    <3>2. \A f \in Edges : act'[f] = IF f = e THEN a ELSE act[f]
      BY <2>2 DEF StateOK
    <3>3. \A x \in Steps : StepEdge[x] \in Edges
      BY SiteAssumption
    <3> QED BY <3>1, <3>2, <3>3
  <2>13. StateOK'
    <3>1. doc' \in [Edges -> Execution \cup {None}]
      BY <2>2, <2>6 DEF StateOK
    <3>2. act' \in [Edges -> [Steps -> Outcomes \cup {"reserved", None}]]
      BY <2>2, <2>3 DEF StateOK
    <3> QED BY <2>2, <3>1, <3>2 DEF StateOK
  <2> QED BY <2>2, <2>9, <2>10, <2>11, <2>12, <2>13, MoveOK
<1>8. CASE Abort(t)
  BY <1>8, FailedOK, MoveLocally DEF Abort
<1> QED BY <1>1, <1>2, <1>3, <1>4, <1>5, <1>6, <1>7, <1>8 DEF ThreadStep

\* The steps of the environment keep the invariant.
LEMMA EnvironmentKeeps ==
    ASSUME IInv, ExpireLease \/ \E e \in Edges : Crash(e)
    PROVE  IInv'
<1>1. CASE ExpireLease
  <2>1. TypeOK'
    BY <1>1 DEF IInv, TypeOK, ExpireLease
  <2>2. ThreadsOK' /\ Exclusive' /\ AtMostOnce'
    BY <1>1 DEF IInv, ThreadsOK, LocalOK, Exclusive, Commands, AtMostOnce, ExpireLease
  <2> QED BY <2>1, <2>2 DEF IInv
<1>2. ASSUME NEW e \in Edges, Crash(e) PROVE IInv'
  <2>1. thr' = [t \in Threads |-> IF Home[t] = e THEN Idle ELSE thr[t]]
    BY <1>2 DEF Crash
  <2>2. ASSUME NEW t \in Threads
        PROVE  /\ LocalOK(t, thr'[t])
               /\ thr'[t].pc \notin {"idle", "exit", "import"} => doc[Home[t]] # None
               /\ Holding(thr'[t]) => thr'[t] = thr[t]
    <3>1. CASE Home[t] = e
      BY <2>1, <3>1, IdleOK DEF Idle
    <3>2. CASE Home[t] # e
      BY <2>1, <3>2, Before
    <3> QED BY <3>1, <3>2
  <2>3. thr' \in [Threads -> Thread]
    BY <2>1, <2>2 DEF LocalOK
  <2>4. TypeOK'
    BY <1>2, <2>3 DEF IInv, TypeOK, Crash
  <2>5. ThreadsOK'
    BY <1>2, <2>2 DEF ThreadsOK, Crash, LocalOK
  <2>6. \A t \in Threads, s \in Steps : Commands(t, s)' => Commands(t, s)
    BY <2>2 DEF Commands
  <2>7. Exclusive' /\ AtMostOnce'
    BY <1>2, <2>6 DEF IInv, Exclusive, AtMostOnce, Crash
  <2> QED BY <2>4, <2>5, <2>7 DEF IInv
<1> QED BY <1>1, <1>2

\* The invariant is inductive.
THEOREM Invariance == Spec => []IInv
<1>1. ASSUME IInv, [Next]_vars PROVE IInv'
  <2>1. CASE UNCHANGED vars
    BY <1>1, <2>1 DEF IInv, TypeOK, ThreadsOK, LocalOK, Exclusive, Commands, AtMostOnce, vars
  <2>2. CASE Next
    BY <1>1, <2>2, RunnerKeeps, HandlerKeeps, ThreadKeeps, EnvironmentKeeps DEF Next
  <2> QED BY <1>1, <2>1, <2>2
<1> QED BY <1>1, InitIInv, PTL DEF Spec

\* Every variable keeps its type, for every value of the constants.
THEOREM TypeCorrect == Spec => []TypeOK
<1>1. IInv => TypeOK
  BY DEF IInv
<1> QED BY <1>1, Invariance, PTL

\* No device step is ever commanded twice: ReserveControlAction, the checks of
\* beforeStep and the single sender behind each reservation suffice, whatever
\* leases, journals, crashes and late requests do.
THEOREM CommandedAtMostOnce == Spec => []AtMostOnce
<1>1. IInv => AtMostOnce
  BY DEF IInv
<1> QED BY <1>1, Invariance, PTL

\* The signed journal only moves forward: CheckpointProgress, which Checkpoint
\* and Recover apply under the store's compare-and-set, is enough for it.
THEOREM JournalMovesForward == Spec => JournalProgress
<1> DEFINE Forward ==
      journal # None =>
         /\ journal'.fence >= journal.fence
         /\ \A s \in Steps : journal.steps[s] \in Confirmed =>
                                journal'.steps[s] = journal.steps[s]
         /\ journal.status \in Terminal => journal'.status \in Terminal
<1>1. ASSUME IInv, NEW t \in Threads, WriteJournal(t), journal # None
      PROVE  Forward
  <2>1. CheckpointProgress(journal, journal')
    BY <1>1 DEF WriteJournal
  <2>2. journal \in Execution /\ journal' \in Execution
    BY <1>1, Before DEF StateOK, LocalOK, WriteJournal, At
  <2>3. journal.fence \in Nat /\ journal'.fence \in Nat
    BY <2>2 DEF Execution
  <2>4. ReceiptTransition(journal, journal') /\ journal.fence <= journal'.fence
    BY <2>1 DEF CheckpointProgress
  <2>5. \A s \in Steps : journal.steps[s] \in Confirmed =>
                             journal'.steps[s] = journal.steps[s]
    BY <2>4 DEF ReceiptTransition
  <2>6. journal.status \in Terminal => journal'.status \in Terminal
    BY <2>4 DEF ReceiptTransition, Terminal, Running
  <2> QED BY <2>3, <2>4, <2>5, <2>6
<1>2. ASSUME IInv, [Next]_vars PROVE [Forward]_journal
  <2>1. CASE UNCHANGED vars
    BY <2>1 DEF vars
  <2>2. CASE Next
    <3>1. CASE \E t \in Threads : WriteJournal(t)
      BY <1>1, <1>2, <3>1
    <3>2. CASE ~ \E t \in Threads : WriteJournal(t)
      <4>1. \A r \in Runners : RunnerStep(r) => UNCHANGED journal
        BY ZenonT(40) DEF RunnerStep, Begin, Claim, LeaseHeld, Commit, CoordinationFails, Degrade,
               Reject, Start, PickStep, Timeout, Finish, Release, BeginCancel, Cancel
      <4>2. \A h \in Handlers : HandlerStep(h) => UNCHANGED journal
        BY DEF HandlerStep, Receive, Import, Respond
      <4>3. \A t \in Threads : ThreadStep(t) => UNCHANGED journal
        BY <3>2 DEF ThreadStep, WriteActive, Reserve, Refuse, Dispatch, Command, Record, Abort
      <4>4. ExpireLease \/ (\E e \in Edges : Crash(e)) => UNCHANGED journal
        BY DEF ExpireLease, Crash
      <4> QED BY <2>2, <4>1, <4>2, <4>3, <4>4 DEF Next
    <3> QED BY <3>1, <3>2
  <2> QED BY <1>2, <2>1, <2>2
<1>3. Spec => [][Forward]_journal
  BY <1>2, Invariance, PTL DEF Spec
<1> QED BY <1>3 DEF JournalProgress

-----------------------------------------------------------------------------
(***************************************************************************)
(* The coordinated execution implements StepLedger, and an execution that  *)
(* is reported as completed has carried out every step of its plan, for    *)
(* any number of edges, steps, threads, claims and crashes.                *)
(*                                                                         *)
(* Both rest on what a document, a request or a thread may say about the   *)
(* devices of another edge.  Truth: what says that a step succeeded is     *)
(* right about its owner's journal, and a step is taken up only when the   *)
(* steps before it in the plan succeeded.  Settled: nobody records a       *)
(* confirmed result of a step that somebody is still about to command.     *)
(*                                                                         *)
(* The predicates take the action journals a and the commands x as         *)
(* parameters, so that the lemmas serve the state before and after a step. *)
(***************************************************************************)
\* The owner of the device has recorded that step s succeeded.
Succeeded(a, s) == a[StepEdge[s]][s] = "SUCCESS"

\* The steps before s in the normal plan succeeded.
Ready(a, s) ==
    \A i \in DOMAIN NormalPlan, j \in DOMAIN NormalPlan :
        NormalPlan[i] = s /\ j < i => Succeeded(a, NormalPlan[j])

AllDone(a) == \A i \in DOMAIN NormalPlan : Succeeded(a, NormalPlan[i])

\* A document is right about what succeeded.
DocTrue(a, d) ==
    /\ \A s \in Steps : d.steps[s] = "SUCCESS" => Succeeded(a, s)
    /\ d.status = "completed" => AllDone(a)

\* The thread works on its step.
Working(l) == Holding(l) \/ l.pc \in {"import", "reserve", "await", "record"}

\* A handler has its answer.
Answered(l) == l.pc = "exit" \/ (l.pc \in {"ckpt", "index"} /\ l.next # "before")

\* The thread is about to finish the execution.
Finishing(l) == l.pc = "finish" \/ (l.pc \in {"ckpt", "index"} /\ l.next = "finish")

\* What local state l of a thread t says is right.
LocalTrue(a, x, t, l) ==
    /\ l.req # None => DocTrue(a, l.req)
    /\ Working(l) => Ready(a, l.step)
    /\ Holding(l) \/ l.pc \in {"await", "record"} => a[Home[t]][l.step] # None
    /\ l.pc = "await" => t \in Runners /\ StepEdge[l.step] # Home[t]
    /\ t \in Handlers /\ Working(l) => StepEdge[l.step] = Home[t]
    /\ l.pc = "record" /\ l.res = "SUCCESS" =>
          IF StepEdge[l.step] = Home[t] THEN x[l.step] = 1 ELSE Succeeded(a, l.step)
    /\ t \in Handlers /\ Answered(l) /\ l.res = "SUCCESS" =>
          l.step \in Steps /\ Succeeded(a, l.step)
    /\ Finishing(l) /\ l.res = "SUCCESS" /\ l.mode = "normal" => AllDone(a)

Truth ==
    /\ \A e \in Edges, s \in Steps : act[e][s] = "SUCCESS" => Succeeded(act, s)
    /\ \A s \in Steps : Succeeded(act, s) => sent[s] = 1
    /\ \A e \in Edges : doc[e] # None => DocTrue(act, doc[e])
    /\ journal # None => DocTrue(act, journal)
    /\ \A m \in net : Ready(act, m.step)
    /\ \A t \in Threads : LocalTrue(act, sent, t, thr[t])

\* Thread t is about to record a confirmed result in the journal that counts.
Confirms(t, s) ==
    /\ thr[t].pc = "record" /\ thr[t].step = s /\ Home[t] = StepEdge[s]
    /\ thr[t].res \in Confirmed

Settled ==
    \A t \in Threads, s \in Steps : Commands(t, s) =>
        /\ act[StepEdge[s]][s] \in Unresolved
        /\ \A u \in Threads : ~Confirms(u, s)

LInv == Truth /\ Settled

-----------------------------------------------------------------------------
(***************************************************************************)
(* Nothing that was right becomes wrong                                    *)
(***************************************************************************)
\* From journals a and commands x to b and y nothing is taken back.
Grown(a, x, b, y) ==
    /\ \A e \in Edges, s \in Steps : a[e][s] # None => b[e][s] # None
    /\ \A s \in Steps : Succeeded(a, s) => Succeeded(b, s)
    /\ \A s \in Steps : x[s] = 1 => y[s] = 1

\* The plan is made of steps.
LEMMA PlanSteps == \A i \in DOMAIN NormalPlan : NormalPlan[i] \in Steps
BY SiteAssumption

LEMMA GrownReady ==
    ASSUME NEW a, NEW x, NEW b, NEW y, Grown(a, x, b, y)
    PROVE  /\ \A s : Ready(a, s) => Ready(b, s)
           /\ AllDone(a) => AllDone(b)
           /\ \A d : DocTrue(a, d) => DocTrue(b, d)
BY PlanSteps DEF Grown, Ready, AllDone, DocTrue

LEMMA GrownTrue ==
    ASSUME NEW a, NEW x, NEW b, NEW y, Grown(a, x, b, y),
           NEW t \in Threads, NEW l, LocalOK(t, l), LocalTrue(a, x, t, l)
    PROVE  LocalTrue(b, y, t, l)
<1>1. Home[t] \in Edges
  BY SiteAssumption
<1>2. Working(l) => l.step \in Steps
  BY DEF Working, LocalOK
<1>3. l.pc \in {"await", "record"} => Working(l)
  BY DEF Working
<1>4. Holding(l) => Working(l)
  BY DEF Working
<1> QED BY <1>1, <1>2, <1>3, <1>4, GrownReady DEF LocalTrue, Grown

LEMMA SameGrown == \A a, x : Grown(a, x, a, x)
BY DEF Grown

\* One thread moves to k; what it says and what is new is right.
LEMMA MoveTrue ==
    ASSUME IInv, Truth, NEW t \in Threads, NEW k, Local(t, k),
           Grown(act, sent, act', sent'),
           LocalTrue(act', sent', t, k),
           \A e \in Edges, s \in Steps : act'[e][s] = "SUCCESS" => Succeeded(act', s),
           \A s \in Steps : Succeeded(act', s) => sent'[s] = 1,
           \A e \in Edges : \/ doc'[e] \in {None, doc[e]}
                            \/ DocTrue(act', doc'[e]),
           journal' \in {None, journal} \/ DocTrue(act', journal'),
           \A m \in net' : m \in net \/ Ready(act', m.step)
    PROVE  Truth'
<1>1. \A u \in Threads : thr'[u] = IF u = t THEN k ELSE thr[u]
  BY DEF Local, IInv, TypeOK
<1>2. ASSUME NEW u \in Threads PROVE LocalTrue(act', sent', u, thr'[u])
  <2>1. LocalOK(u, thr[u]) /\ LocalTrue(act, sent, u, thr[u])
    BY DEF IInv, ThreadsOK, Truth
  <2>2. LocalTrue(act', sent', u, thr[u])
    BY <2>1, GrownTrue
  <2> QED BY <1>1, <2>2
<1>3. \A e \in Edges : doc'[e] # None => DocTrue(act', doc'[e])
  BY GrownReady DEF Truth
<1>4. journal' # None => DocTrue(act', journal')
  BY GrownReady DEF Truth
<1>5. \A m \in net' : Ready(act', m.step)
  BY GrownReady DEF Truth
<1> QED BY <1>2, <1>3, <1>4, <1>5 DEF Truth

\* One thread moves without taking hold of a step.
LEMMA MoveSettled ==
    ASSUME IInv, Settled, NEW t \in Threads, NEW k, Local(t, k),
           \A s \in Steps : act[StepEdge[s]][s] \in Unresolved =>
               \/ act'[StepEdge[s]][s] \in Unresolved
               \/ \A u \in Threads : ~Commands(u, s),
           Holding(k) => Holding(thr[t]) /\ k.step = thr[t].step,
           k.pc = "record" /\ k.res \in Confirmed /\ StepEdge[k.step] = Home[t] =>
               \A u \in Threads \ {t} : ~Commands(u, k.step)
    PROVE  Settled'
<1>1. \A u \in Threads : thr'[u] = IF u = t THEN k ELSE thr[u]
  BY DEF Local, IInv, TypeOK
<1>2. \A u \in Threads, s \in Steps : Commands(u, s)' => Commands(u, s)
  BY <1>1 DEF Commands
<1>3. Holding(k) => k.pc # "record"
  BY DEF Holding
<1>4. ASSUME NEW u \in Threads, NEW v \in Threads, NEW s \in Steps, Commands(u, s)'
      PROVE  ~Confirms(v, s)'
  <2>1. CASE v # t
    BY <1>1, <1>2, <1>4, <2>1 DEF Settled, Confirms
  <2>2. CASE v = t /\ u # t
    BY <1>1, <1>2, <1>4, <2>2 DEF Confirms
  <2>3. CASE v = t /\ u = t
    BY <1>1, <1>3, <1>4, <2>3 DEF Confirms, Commands
  <2> QED BY <2>1, <2>2, <2>3
<1>5. \A u \in Threads, s \in Steps : Commands(u, s)' => act'[StepEdge[s]][s] \in Unresolved
  BY <1>2 DEF Settled
<1> QED BY <1>4, <1>5 DEF Settled

\* One thread moves without a hold or a result, and no journal of actions
\* changes.
LEMMA MoveQuietly ==
    ASSUME IInv, LInv, NEW t \in Threads, NEW k, Local(t, k),
           UNCHANGED <<act, sent>>,
           LocalTrue(act, sent, t, k),
           Holding(k) => Holding(thr[t]) /\ k.step = thr[t].step,
           k.pc # "record",
           \A e \in Edges : doc'[e] \in {None, doc[e]} \/ DocTrue(act, doc'[e]),
           journal' \in {None, journal} \/ DocTrue(act, journal'),
           \A m \in net' : m \in net \/ Ready(act, m.step)
    PROVE  LInv'
<1>1. Truth'
  BY SameGrown, MoveTrue DEF LInv, Truth
<1>2. Settled'
  BY MoveSettled DEF LInv, Settled
<1> QED BY <1>1, <1>2 DEF LInv

-----------------------------------------------------------------------------
(***************************************************************************)
(* Local states                                                            *)
(***************************************************************************)
\* A thread that is idle, or between its steps, says nothing but what its
\* document says.
LEMMA RestTrue ==
    ASSUME NEW a, NEW x, NEW t \in Threads, NEW l,
           l.req = None \/ DocTrue(a, l.req),
           ~Working(l),
           t \in Handlers => ~Answered(l) \/ l.res # "SUCCESS",
           ~Finishing(l) \/ l.res # "SUCCESS"
    PROVE  LocalTrue(a, x, t, l)
BY DEF LocalTrue, Working

LEMMA IdleTrue == \A a, x : \A t \in Threads : LocalTrue(a, x, t, Idle)
<1>1. Idle.req = None /\ Idle.res = None /\ ~Finishing(Idle) /\ ~Working(Idle) /\ ~Answered(Idle)
  BY DEF Idle, Finishing, Working, Holding, Answered
<1>2. None # "SUCCESS"
  BY SiteAssumption
<1> QED BY <1>1, <1>2, RestTrue

\* A call is over with a result that is right.
LEMMA ReturnTrue ==
    ASSUME NEW a, NEW x, NEW t \in Threads, NEW l \in Thread, NEW res,
           t \in Handlers /\ res = "SUCCESS" => l.step \in Steps /\ Succeeded(a, l.step)
    PROVE  LocalTrue(a, x, t, Return(t, l, res))
<1>1. CASE t \in Runners
  <2> DEFINE k == Return(t, l, res)
  <2>1. /\ k.pc \in {"idle", "exit"} /\ k.next = "exit" /\ k.req = None /\ t \notin Handlers
        /\ k.res = None
    BY <1>1, SiteAssumption DEF Return, Idle, Thread
  <2>2. ~Working(k) /\ ~Finishing(k)
    BY <2>1 DEF Working, Holding, Finishing
  <2> SUFFICES LocalTrue(a, x, t, k)
    OBVIOUS
  <2> HIDE DEF k
  <2> QED BY <2>1, <2>2, RestTrue
<1>2. CASE t \notin Runners
  <2> DEFINE k == [pc |-> "exit", op |-> None, req |-> None, step |-> l.step,
                   res |-> res, mode |-> "normal", rev |-> l.rev, next |-> "exit",
                   peer |-> l.peer]
  <2>1. Return(t, l, res) = k
    BY <1>2 DEF Return, Idle
  <2>2. k.pc = "exit" /\ k.next = "exit" /\ k.req = None /\ k.step = l.step /\ k.res = res
    OBVIOUS
  <2>3. ~Working(k) /\ ~Finishing(k)
    BY <2>2 DEF Working, Holding, Finishing
  <2> HIDE DEF k
  <2> QED BY <2>1, <2>2, <2>3 DEF LocalTrue, Working
<1> QED BY <1>1, <1>2

LEMMA FailedTrue ==
    ASSUME NEW a, NEW x, NEW t \in Threads, NEW l \in Thread
    PROVE  LocalTrue(a, x, t, Failed(t, l))
BY ReturnTrue DEF Failed

\* What a thread goes on with at a label, once its document is saved, is right.
Onward(a, t, l, label) ==
    /\ DocTrue(a, l.req)
    /\ label = "before" =>
          /\ Ready(a, l.step) /\ a[Home[t]][l.step] # None
          /\ t \in Handlers => StepEdge[l.step] = Home[t]
    /\ t \in Handlers /\ label # "before" /\ l.res = "SUCCESS" =>
          l.step \in Steps /\ Succeeded(a, l.step)
    /\ label = "finish" /\ l.res = "SUCCESS" /\ l.mode = "normal" => AllDone(a)

LEMMA GotoTrue ==
    ASSUME NEW a, NEW x, NEW t \in Threads, NEW l \in Thread, NEW label \in Labels,
           Onward(a, t, l, label)
    PROVE  LET k == Goto(t, l, label) IN
           /\ LocalTrue(a, x, t, k) /\ k.pc # "record"
           /\ Holding(k) => label = "before" /\ k.step = l.step
<1>1. CASE label = "exit"
  <2>1. Goto(t, l, label) = Return(t, l, l.res)
    BY <1>1 DEF Goto
  <2>2. Return(t, l, l.res).pc \in {"idle", "exit"}
    BY SiteAssumption DEF Return, Idle, Thread
  <2> QED BY <1>1, <2>1, <2>2, ReturnTrue DEF Onward, Holding
<1>2. CASE label # "exit"
  <2> DEFINE k == [l EXCEPT !.pc = label, !.next = "exit"]
  <2>1. /\ Goto(t, l, label) = k
        /\ k.pc = label /\ k.next = "exit" /\ k.req = l.req /\ k.step = l.step
        /\ k.res = l.res /\ k.mode = l.mode
    BY <1>2 DEF Goto, Thread
  <2> HIDE DEF k
  <2>2. /\ Working(k) \/ Holding(k) => label = "before"
        /\ Finishing(k) => label = "finish"
        /\ Answered(k) => FALSE
        /\ k.pc \notin {"await", "record"}
    BY <1>2, <2>1 DEF Working, Holding, Finishing, Answered, Labels
  <2> QED BY <2>1, <2>2 DEF Onward, LocalTrue
<1> QED BY <1>1, <1>2

\* The checkpoint before the label, an error, or the label itself.
LEMMA ProceedTrue ==
    ASSUME NEW a, NEW x, NEW t \in Threads, NEW l \in Thread, NEW label \in Labels,
           Onward(a, t, l, label), Proceed(t, l, label)
    PROVE  \E k : /\ Local(t, k) /\ LocalTrue(a, x, t, k) /\ k.pc # "record"
                  /\ Holding(k) => label = "before" /\ k.step = l.step
<1> DEFINE c == [l EXCEPT !.pc = "ckpt", !.next = label]
<1>1. /\ LocalTrue(a, x, t, c) /\ c.pc # "record"
      /\ Holding(c) => label = "before" /\ c.step = l.step
  <2>1. /\ c.pc = "ckpt" /\ c.next = label /\ c.req = l.req /\ c.step = l.step
        /\ c.res = l.res /\ c.mode = l.mode
    BY DEF Thread
  <2> HIDE DEF c
  <2>2. /\ Working(c) \/ Holding(c) => label = "before"
        /\ Finishing(c) => label = "finish"
        /\ Answered(c) => label # "before"
    BY <2>1 DEF Working, Holding, Finishing, Answered
  <2> QED BY <2>1, <2>2 DEF Onward, LocalTrue
<1>2. Failed(t, l).pc # "record" /\ ~Holding(Failed(t, l))
  BY FailedOK
<1> HIDE DEF c
<1>3. Local(t, c) \/ Local(t, Failed(t, l)) \/ Local(t, Goto(t, l, label))
  BY DEF c, Proceed
<1> QED BY <1>1, <1>2, <1>3, FailedTrue, GotoTrue

\* Before its step a thread is sound and right.
LEMMA BeforeTrue ==
    ASSUME IInv, LInv, NEW t \in Threads
    PROVE  /\ StateOK
           /\ Home[t] \in Edges
           /\ thr[t] \in Thread
           /\ LocalOK(t, thr[t])
           /\ LocalTrue(act, sent, t, thr[t])
           /\ doc[Home[t]] # None => DocTrue(act, doc[Home[t]])
BY Before DEF LInv, Truth

\* Save replaces one document by another one that is right.
LEMMA SaveTrue ==
    ASSUME IInv, LInv, NEW t \in Runners, NEW event, NEW status \in Statuses,
           NEW l \in Thread, NEW label \in {"exit", "step"}, l.req \in Execution,
           \A s \in Steps : l.req.steps[s] = "SUCCESS" => Succeeded(act, s),
           status = "completed" => AllDone(act),
           Save(t, event, status, l, label),
           UNCHANGED <<journal, act, sent, net>>
    PROVE  LInv'
<1> DEFINE d == [l.req EXCEPT !.status = status, !.ver = @ + 1]
           m == [l EXCEPT !.req = d]
<1>1. t \in Threads /\ t \notin Handlers /\ Home[t] \in Edges
  BY SiteAssumption DEF Threads
<1>2. DocTrue(act, d) /\ d \in Execution
  <2>1. d.steps = l.req.steps /\ d.status = status
    BY DEF Execution
  <2>2. l.req.ver + 1 \in Nat
    BY DEF Execution
  <2>3. d \in Execution
    BY <2>2 DEF Execution
  <2> QED BY <2>1, <2>3 DEF DocTrue
<1>3. m \in Thread /\ m.req = d
  BY <1>2 DEF Thread
<1>4. doc' = [doc EXCEPT ![Home[t]] = d] /\ Proceed(t, m, label)
  BY DEF Save
<1> HIDE DEF d, m
<1>5. Onward(act, t, m, label) /\ label \in Labels /\ label # "before"
  BY <1>1, <1>2, <1>3 DEF Onward, Labels
<1>6. PICK k : Local(t, k) /\ LocalTrue(act, sent, t, k) /\ k.pc # "record" /\ ~Holding(k)
  BY <1>1, <1>3, <1>4, <1>5, ProceedTrue
<1>7. \A e \in Edges : doc'[e] = doc[e] \/ doc'[e] = d
  BY <1>4, <1>1, Before DEF StateOK
<1> QED BY <1>1, <1>2, <1>6, <1>7, MoveQuietly

\* A document that is right but for its status, version, fence or coordinator.
LEMMA SameSteps ==
    ASSUME NEW a, NEW d, DocTrue(a, d), NEW c, c.steps = d.steps,
           c.status = d.status \/ c.status # "completed"
    PROVE  DocTrue(a, c)
BY DEF DocTrue
-----------------------------------------------------------------------------
(***************************************************************************)
(* The steps of the specification                                          *)
(***************************************************************************)
LEMMA InitTrue == Init => LInv
<1> SUFFICES ASSUME Init PROVE LInv
  OBVIOUS
<1>1. \A t \in Threads : thr[t] = Idle
  BY DEF Init
<1>2. \A t \in Threads : LocalTrue(act, sent, t, thr[t])
  BY <1>1, IdleTrue
<1>3. \A e \in Edges, s \in Steps : act[e][s] = None /\ None # "SUCCESS"
  BY SiteAssumption DEF Init
<1>4. Truth
  <2>1. journal = None /\ net = {} /\ \A e \in Edges : doc[e] = None
    BY DEF Init
  <2>2. ASSUME NEW e \in Edges, NEW s \in Steps
        PROVE  act[e][s] # "SUCCESS"
    BY <1>3
  <2>3. \A s \in Steps : ~Succeeded(act, s)
    BY <2>2, SiteAssumption DEF Succeeded
  <2> QED BY <1>2, <2>1, <2>2, <2>3 DEF Truth
<1>5. \A t \in Threads, s \in Steps : ~Commands(t, s)
  BY <1>1 DEF Commands, Holding, Idle
<1> QED BY <1>4, <1>5 DEF LInv, Settled

\* A runner that goes on with a document that is right.
LEMMA ContinueTrue ==
    ASSUME NEW t \in Runners, NEW d \in Execution, DocTrue(act, d)
    PROVE  /\ LocalTrue(act, sent, t, Continue(d))
           /\ \A label \in Labels \ {"before"} : Onward(act, t, Continue(d), label)
<1> DEFINE k == Continue(d)
<1>1. t \in Threads /\ t \notin Handlers
  BY SiteAssumption DEF Threads
<1>2. k.pc \in {"start", "claim"} /\ k.req = d /\ k.res = None /\ k.next = "exit"
  BY DEF Continue, Idle
<1>3. ~Working(k) /\ ~Finishing(k) /\ None # "SUCCESS"
  BY <1>2, SiteAssumption DEF Working, Holding, Finishing
<1> HIDE DEF k
<1>4. LocalTrue(act, sent, t, k)
  BY <1>1, <1>2, <1>3, RestTrue
<1>5. \A label \in Labels \ {"before"} : Onward(act, t, k, label)
  BY <1>1, <1>2, <1>3 DEF Onward
<1> QED BY <1>4, <1>5 DEF k

LEMMA BeginTrue ==
    ASSUME IInv, LInv, NEW r \in Runners, Begin(r)
    PROVE  LInv'
<1> DEFINE e == Home[r]
           d == IF doc[e] = None THEN Accepted ELSE doc[e]
           adopted == [journal EXCEPT !.ver = d.ver + 1]
<1>1. /\ r \in Threads /\ e \in Edges /\ StateOK
      /\ doc[e] \in Execution \cup {None}
  BY Before DEF Threads
<1>2. d \in Execution /\ DocTrue(act, d)
  <2>1. Accepted \in Execution
    BY DEF Accepted, Execution, Statuses
  <2>2. DocTrue(act, Accepted)
    BY SiteAssumption DEF Accepted, DocTrue
  <2> QED BY <1>1, <2>1, <2>2 DEF LInv, Truth
<1>3. Adoptable(d) => adopted \in Execution /\ DocTrue(act, adopted)
  <2> SUFFICES ASSUME Adoptable(d) PROVE adopted \in Execution /\ DocTrue(act, adopted)
    OBVIOUS
  <2>1. journal \in Execution /\ DocTrue(act, journal)
    BY <1>1 DEF Adoptable, StateOK, LInv, Truth
  <2>2. d.ver + 1 \in Nat
    BY <1>2 DEF Execution
  <2>3. adopted \in Execution /\ adopted.steps = journal.steps /\ adopted.status = journal.status
    BY <2>1, <2>2 DEF Execution
  <2> QED BY <2>1, <2>3, SameSteps
<1>4. ASSUME NEW k, Local(r, k), LocalTrue(act, sent, r, k), ~Holding(k), k.pc # "record",
             NEW x, DocTrue(act, x), doc' \in {doc, [doc EXCEPT ![e] = x]}
      PROVE  LInv'
  <2>1. \A f \in Edges : doc'[f] = doc[f] \/ doc'[f] = x
    BY <1>1, <1>4 DEF StateOK
  <2>2. UNCHANGED <<act, sent, net, journal>>
    BY DEF Begin
  <2> QED BY <1>1, <1>4, <2>1, <2>2, MoveQuietly
<1>5. CASE doc' = [doc EXCEPT ![e] = d] /\ Local(r, Continue(d))
  <2>1. LocalTrue(act, sent, r, Continue(d))
    BY <1>2, ContinueTrue
  <2>2. Continue(d).pc # "record" /\ ~Holding(Continue(d))
    BY <1>1, <1>2, ContinueOK
  <2> QED BY <1>2, <1>4, <1>5, <2>1, <2>2
<1>6. CASE /\ d.status \in Running /\ UNCHANGED doc
           /\ Local(r, [Continue(d) EXCEPT !.pc =
                           IF d.status = "running" THEN "outage" ELSE "start"])
  <2> DEFINE k == [Continue(d) EXCEPT !.pc = IF d.status = "running" THEN "outage" ELSE "start"]
  <2>1. k.pc \in {"outage", "start"} /\ k.next = "exit" /\ k.req = d /\ k.res = None
    BY DEF Continue, Idle
  <2>2. Local(r, k)
    BY <1>6
  <2> HIDE DEF k
  <2>3. ~Working(k) /\ ~Holding(k) /\ ~Finishing(k) /\ r \notin Handlers
    BY <2>1, SiteAssumption DEF Working, Holding, Finishing
  <2>4. LocalTrue(act, sent, r, k)
    BY <1>1, <1>2, <2>1, <2>3, RestTrue
  <2> QED BY <1>2, <1>4, <1>6, <2>1, <2>2, <2>3, <2>4
<1>7. CASE /\ Adoptable(d) /\ doc' = [doc EXCEPT ![e] = adopted]
           /\ IF adopted.status \in Terminal
              THEN Proceed(r, Continue(adopted), "exit")
              ELSE Proceed(r, Continue(adopted), Continue(adopted).pc)
  <2>1. PICK label \in {"exit", "start", "claim"} : Proceed(r, Continue(adopted), label)
    BY <1>1, <1>3, <1>7, ContinueOK
  <2>2. Continue(adopted) \in Thread /\ label \in Labels \ {"before"}
    BY <1>1, <1>3, <1>7, ContinueOK DEF LocalOK, Labels
  <2>3. PICK k : Local(r, k) /\ LocalTrue(act, sent, r, k) /\ k.pc # "record" /\ ~Holding(k)
    BY <1>1, <1>3, <1>7, <2>1, <2>2, ContinueTrue, ProceedTrue
  <2> QED BY <1>3, <1>4, <1>7, <2>3
<1>8. CASE doc' = [doc EXCEPT ![e] = d] /\ UNCHANGED thr
  <2>1. Local(r, thr[r]) /\ thr[r].pc = "idle" /\ LocalTrue(act, sent, r, thr[r])
    BY <1>1, <1>8, BeforeTrue DEF Local, IInv, TypeOK, Begin, At
  <2>2. ~Holding(thr[r])
    BY <2>1 DEF Holding
  <2> QED BY <1>2, <1>4, <1>8, <2>1, <2>2
<1> QED BY <1>5, <1>6, <1>7, <1>8 DEF Begin

\* The first step of a plan that is not done yet is ready.
LEMMA FirstReady ==
    ASSUME IInv, LInv, NEW e \in Edges, NEW mode \in {"normal", "degraded"},
           NEW d \in Execution, DocTrue(act, d),
           NEW i \in DOMAIN Plan(mode), \A j \in 1 .. (i - 1) : ~Todo(d, mode, e, j)
    PROVE  Ready(act, Plan(mode)[i])
<1>1. CASE mode = "normal"
  <2>1. Plan(mode) = NormalPlan
    BY <1>1 DEF Plan
  <2>2. \A j \in DOMAIN NormalPlan : j \in Nat /\ j >= 1 /\ NormalPlan[j] \in Steps
    BY SiteAssumption
  <2>3. \A j \in 1 .. (i - 1) : d.steps[NormalPlan[j]] = "SUCCESS"
    BY <1>1, <2>1 DEF Todo
  <2> SUFFICES ASSUME NEW h \in DOMAIN NormalPlan, NEW j \in DOMAIN NormalPlan,
                      NormalPlan[h] = NormalPlan[i], j < h
               PROVE  Succeeded(act, NormalPlan[j])
    BY <2>1 DEF Ready
  <2>4. h = i
    BY <2>1, PlanAssumption
  <2>5. j \in 1 .. (i - 1)
    BY <2>1, <2>2, <2>4
  <2> QED BY <2>2, <2>3, <2>5 DEF DocTrue
<1>2. CASE mode = "degraded"
  BY <1>2, PlanAssumption DEF Plan, Ready
<1> QED BY <1>1, <1>2

LEMMA PickStepTrue ==
    ASSUME IInv, LInv, NEW r \in Runners, PickStep(r)
    PROVE  LInv'
<1> DEFINE l == thr[r]
           e == Home[r]
           d == doc[e]
<1>1. /\ r \in Threads /\ r \notin Handlers /\ e \in Edges /\ l \in Thread
      /\ l.pc = "step" /\ d \in Execution /\ DocTrue(act, d)
      /\ UNCHANGED <<journal, doc, act, sent, net>>
  BY BeforeTrue, Before, SiteAssumption DEF PickStep, At, Threads
<1>2. l.mode \in {"normal", "degraded"}
  BY <1>1 DEF Thread
<1>3. CASE Local(r, Return(r, l, None))
  <2>1. LocalTrue(act, sent, r, Return(r, l, None))
    BY <1>1, ReturnTrue
  <2>2. Return(r, l, None).pc \in {"idle", "exit"}
    BY <1>1, SiteAssumption DEF Return, Idle
  <2> QED BY <1>1, <1>3, <2>1, <2>2, MoveQuietly DEF Holding
<1>4. CASE /\ \A i \in DOMAIN Plan(l.mode) : ~Todo(d, l.mode, e, i)
           /\ Local(r, [l EXCEPT !.pc = "finish", !.req = d, !.step = None, !.res = "SUCCESS"])
  <2> DEFINE k == [l EXCEPT !.pc = "finish", !.req = d, !.step = None, !.res = "SUCCESS"]
  <2>1. k.pc = "finish" /\ k.req = d /\ k.mode = l.mode /\ Local(r, k)
    BY <1>4 DEF Thread
  <2> HIDE DEF k
  <2>2. k.mode = "normal" => AllDone(act)
    <3>1. k.mode = "normal" => \A i \in DOMAIN NormalPlan : d.steps[NormalPlan[i]] = "SUCCESS"
      BY <1>4, <2>1 DEF Plan, Todo
    <3> QED BY <1>1, <3>1, PlanSteps DEF DocTrue, AllDone
  <2>3. ~Working(k) /\ ~Holding(k) /\ k.pc \notin {"await", "record"}
    BY <2>1 DEF Working, Holding
  <2>4. LocalTrue(act, sent, r, k)
    BY <1>1, <2>1, <2>2, <2>3 DEF LocalTrue
  <2> QED BY <1>1, <2>1, <2>3, <2>4, MoveQuietly
<1>5. ASSUME NEW i \in DOMAIN Plan(l.mode), \A j \in 1 .. (i - 1) : ~Todo(d, l.mode, e, j),
             Local(r, [l EXCEPT !.pc = "reserve", !.req = d, !.step = Plan(l.mode)[i], !.res = None])
      PROVE  LInv'
  <2> DEFINE k == [l EXCEPT !.pc = "reserve", !.req = d, !.step = Plan(l.mode)[i], !.res = None]
  <2>1. k.pc = "reserve" /\ k.req = d /\ k.step = Plan(l.mode)[i] /\ Local(r, k)
    BY <1>5 DEF Thread
  <2> HIDE DEF k
  <2>2. Ready(act, k.step)
    BY <1>1, <1>2, <1>5, <2>1, FirstReady
  <2>3. ~Holding(k) /\ ~Finishing(k) /\ k.pc \notin {"await", "record"}
    BY <2>1 DEF Holding, Finishing
  <2>4. LocalTrue(act, sent, r, k)
    BY <1>1, <2>1, <2>2, <2>3 DEF LocalTrue
  <2> QED BY <1>1, <2>1, <2>3, <2>4, MoveQuietly
<1> QED BY <1>3, <1>4, <1>5 DEF PickStep

LEMMA RunnerTrue ==
    ASSUME IInv, LInv, NEW r \in Runners, RunnerStep(r)
    PROVE  LInv'
<1> r \in Threads /\ r \notin Handlers
  BY SiteAssumption DEF Threads
<1> DEFINE l == thr[r]
           e == Home[r]
<1> /\ StateOK /\ e \in Edges /\ l \in Thread /\ LocalOK(r, l)
    /\ LocalTrue(act, sent, r, l)
    /\ doc[e] # None => DocTrue(act, doc[e])
  BY BeforeTrue
\* What a step of a runner that is not a save has to show.
<1>1. ASSUME NEW k, Local(r, k), k.req = None \/ DocTrue(act, k.req),
             k.pc \notin {"import", "reserve", "before", "send", "await", "record",
                          "ckpt", "index", "finish"},
             UNCHANGED <<journal, doc, act, sent, net>>
      PROVE  LInv'
  <2>1. ~Working(k) /\ ~Holding(k) /\ ~Finishing(k) /\ k.pc # "record"
    BY <1>1 DEF Working, Holding, Finishing
  <2>2. LocalTrue(act, sent, r, k)
    BY <1>1, <2>1, RestTrue
  <2> QED BY <1>1, <2>1, <2>2, MoveQuietly
<1>2. CASE Begin(r)
  BY <1>2, BeginTrue
<1>3. CASE Claim(r)
  <2>1. l.pc = "claim" /\ l.req \in Execution /\ DocTrue(act, l.req)
    BY <1>3, NoneAssumption DEF Claim, At, LocalOK, LocalTrue
  <2>2. PICK k : /\ Local(r, k)
                 /\ \/ k = [l EXCEPT !.pc = "commit", !.rev = lease.rev + 1]
                    \/ k = [l EXCEPT !.pc = "outage"]
    BY <1>3 DEF Claim
  <2>3. k.req = l.req /\ k.pc \in {"commit", "outage"}
    BY <2>2 DEF Thread
  <2> QED BY <1>1, <1>3, <2>1, <2>2, <2>3 DEF Claim
<1>4. CASE LeaseHeld(r)
  BY <1>1, <1>4 DEF LeaseHeld, Idle
<1>5. CASE Commit(r)
  <2> DEFINE p == IF l.op = "cancel" THEN "cancel" ELSE "start"
             q == [l.req EXCEPT !.fence = l.rev, !.coord = e]
  <2>1. l.pc = "commit" /\ l.req \in Execution /\ DocTrue(act, l.req)
    BY <1>5, NoneAssumption DEF Commit, At, LocalOK, LocalTrue
  <2>2. DocTrue(act, q)
    <3>1. q.steps = l.req.steps /\ q.status = l.req.status
      BY <2>1 DEF Execution
    <3> QED BY <2>1, <3>1, SameSteps
  <2>3. PICK k : /\ Local(r, k)
                 /\ \/ k = [l EXCEPT !.pc = p, !.req = q]
                    \/ k = [l EXCEPT !.pc = "outage", !.rev = 0]
    BY ZenonT(40), <1>5, <2>1 DEF Commit, Thread, Execution
  <2> HIDE DEF q
  <2>4. k.req \in {q, l.req} /\ k.pc \in {"cancel", "start", "outage"}
    BY <2>3 DEF Thread
  <2> QED BY <1>1, <1>5, <2>1, <2>2, <2>3, <2>4 DEF Commit
<1>6. CASE CoordinationFails(r)
  <2> DEFINE k == [l EXCEPT !.pc = "outage", !.rev = 0]
  <2>1. l.pc \in {"claim", "commit"} /\ Local(r, k)
    BY <1>6 DEF CoordinationFails, At
  <2>2. DocTrue(act, l.req)
    BY <2>1, NoneAssumption DEF LocalOK, LocalTrue
  <2>3. k.req = l.req /\ k.pc = "outage"
    BY DEF Thread
  <2> QED BY <1>1, <1>6, <2>1, <2>2, <2>3 DEF CoordinationFails
<1>7. CASE Degrade(r)
  <2> DEFINE q == [l.req EXCEPT !.fence = 0, !.coord = None]
  <2>1. l.pc = "outage" /\ l.req \in Execution /\ DocTrue(act, l.req)
    BY <1>7, NoneAssumption DEF Degrade, At, LocalOK, LocalTrue
  <2>2. DocTrue(act, q)
    <3>1. q.steps = l.req.steps /\ q.status = l.req.status
      BY <2>1 DEF Execution
    <3> QED BY <2>1, <3>1, SameSteps
  <2>3. PICK k : /\ Local(r, k)
                 /\ \/ k = [l EXCEPT !.pc = "start", !.mode = "degraded", !.req = q]
                    \/ k = Idle
    BY <1>7, <2>1 DEF Degrade, Thread, Execution
  <2> HIDE DEF q
  <2>4. k.req \in {q, None} /\ k.pc \in {"start", "idle"}
    <3>1. CASE k = [l EXCEPT !.pc = "start", !.mode = "degraded", !.req = q]
      BY <3>1 DEF Thread
    <3>2. CASE k = Idle
      BY <3>2 DEF Idle
    <3> QED BY <2>3, <3>1, <3>2
  <2> QED BY <1>1, <1>7, <2>2, <2>3, <2>4 DEF Degrade
<1>8. CASE Reject(r)
  <2>1. l.pc \notin {"idle", "exit"} /\ l.req \in Execution /\ DocTrue(act, l.req)
    BY <1>8, NoneAssumption DEF Reject, At, LocalOK, LocalTrue
  <2>2. PICK status \in {"result_unknown", "rejected"} : Save(r, "reject", status, l, "exit")
    BY <1>8 DEF Reject
  <2>3. status \in Statuses /\ status # "completed"
    BY DEF Statuses, Terminal
  <2> QED BY <1>8, <2>1, <2>2, <2>3, SaveTrue DEF Reject, DocTrue
<1>9. CASE Start(r)
  <2>1. l.pc = "start" /\ l.req \in Execution /\ DocTrue(act, l.req)
    BY <1>9, NoneAssumption DEF Start, At, LocalOK, LocalTrue
  <2>2. PICK status \in {"degraded_running", "running"} : Save(r, "start", status, l, "step")
    BY <1>9 DEF Start
  <2>3. status \in Statuses /\ status # "completed"
    BY DEF Statuses, Running
  <2> QED BY <1>9, <2>1, <2>2, <2>3, SaveTrue DEF Start, DocTrue
<1>10. CASE Finish(r)
  <2>1. l.pc = "finish" /\ l.req \in Execution /\ DocTrue(act, l.req)
    BY <1>10, NoneAssumption DEF Finish, At, LocalOK, LocalTrue
  <2>2. PICK status \in {"result_unknown", "degraded_completed", "completed", "failed"} :
           /\ Save(r, "finish", status, l, "exit")
           /\ status = "completed" => l.res = "SUCCESS" /\ l.mode # "degraded"
    BY <1>10 DEF Finish
  <2>3. status \in Statuses
    BY DEF Statuses, Terminal
  <2>4. status = "completed" => AllDone(act)
    <3>1. l.mode \in {"normal", "degraded"} /\ Finishing(l)
      BY <2>1 DEF Thread, Finishing
    <3> QED BY <2>2, <3>1 DEF LocalTrue
  <2> QED BY <1>10, <2>1, <2>2, <2>3, <2>4, SaveTrue DEF Finish, DocTrue
<1>11. CASE Cancel(r)
  <2> DEFINE m == [l EXCEPT !.req.cancelled = TRUE]
  <2>1. l.pc = "cancel" /\ l.req \in Execution /\ DocTrue(act, l.req)
    BY <1>11, NoneAssumption DEF Cancel, At, LocalOK, LocalTrue
  <2>2. m \in Thread /\ m.req \in Execution /\ m.req.steps = l.req.steps
    <3>1. [l.req EXCEPT !.cancelled = TRUE] \in Execution
      BY <2>1 DEF Execution
    <3>2. m.req = [l.req EXCEPT !.cancelled = TRUE] /\ m \in Thread
      BY <3>1 DEF Thread
    <3> QED BY <2>1, <3>1, <3>2 DEF Execution
  <2>3. PICK status \in {"cancelled", "cancelled_result_unknown"} :
           Save(r, "cancel", status, m, "exit")
    BY <1>11 DEF Cancel
  <2> HIDE DEF m
  <2>4. status \in Statuses /\ status # "completed"
    BY DEF Statuses, Terminal
  <2> QED BY <1>11, <2>1, <2>2, <2>3, <2>4, SaveTrue DEF Cancel, DocTrue
<1>12. CASE Release(r)
  BY <1>1, <1>12 DEF Release, Idle
<1>13. CASE BeginCancel(r)
  <2>1. PICK p \in {"cancel", "claim"} : Local(r, [Idle EXCEPT !.op = "cancel", !.req = doc[e], !.pc = p])
    BY <1>13 DEF BeginCancel
  <2> DEFINE k == [Idle EXCEPT !.op = "cancel", !.req = doc[e], !.pc = p]
  <2>2. k.req = doc[e] /\ k.pc = p
    BY DEF Idle
  <2> QED BY <1>1, <1>13, <2>1, <2>2 DEF BeginCancel
<1>14. CASE PickStep(r)
  BY <1>14, PickStepTrue
<1>15. CASE Timeout(r)
  <2> DEFINE k == [l EXCEPT !.pc = "record", !.res = "RESULT_UNKNOWN"]
  <2>1. l.pc = "await" /\ Local(r, k)
    BY <1>15 DEF Timeout, At
  <2>2. k.pc = "record" /\ k.res = "RESULT_UNKNOWN" /\ k.req = l.req /\ k.step = l.step
    BY DEF Thread
  <2> HIDE DEF k
  <2>3. ~Holding(k) /\ ~Finishing(k) /\ Working(k) /\ Working(l) /\ k.res \notin Confirmed
    BY <2>1, <2>2 DEF Holding, Finishing, Working, Confirmed
  <2>4. LocalTrue(act, sent, r, k)
    BY <2>1, <2>2, <2>3 DEF LocalTrue, Confirmed
  <2>5. UNCHANGED <<journal, doc, act, sent, net>>
    BY <1>15 DEF Timeout
  <2>6. Truth'
    BY <2>1, <2>4, <2>5, SameGrown, MoveTrue DEF LInv, Truth
  <2>7. Settled'
    BY <2>1, <2>2, <2>3, <2>5, MoveSettled DEF LInv
  <2> QED BY <2>6, <2>7 DEF LInv
<1> QED BY <1>2, <1>3, <1>4, <1>5, <1>6, <1>7, <1>8, <1>9, <1>10, <1>11, <1>12, <1>13,
           <1>14, <1>15 DEF RunnerStep

LEMMA HandlerTrue ==
    ASSUME IInv, LInv, NEW h \in Handlers, HandlerStep(h)
    PROVE  LInv'
<1> h \in Threads
  BY DEF Threads
<1> DEFINE l == thr[h]
           e == Home[h]
<1> /\ StateOK /\ e \in Edges /\ l \in Thread /\ LocalOK(h, l)
    /\ LocalTrue(act, sent, h, l)
    /\ doc[e] # None => DocTrue(act, doc[e])
  BY BeforeTrue
<1>1. CASE Receive(h)
  <2>1. PICK m \in net :
           /\ StepEdge[m.step] = e
           /\ net' = net \ {m}
           /\ \/ Authorized(m) /\ Local(h, Taken(m, "import", journal, None))
              \/ \E res \in {"FAILURE", "RESULT_UNKNOWN"} : Local(h, Taken(m, "exit", None, res))
    BY <1>1 DEF Receive
  <2>2. UNCHANGED <<journal, doc, act, sent>>
    BY <1>1 DEF Receive
  <2>3. ASSUME Authorized(m), Local(h, Taken(m, "import", journal, None)) PROVE LInv'
    <3> DEFINE k == Taken(m, "import", journal, None)
    <3>1. k.pc = "import" /\ k.req = journal /\ k.step = m.step /\ Local(h, k)
      BY <2>3 DEF Taken
    <3> HIDE DEF k
    <3>2. DocTrue(act, journal) /\ Ready(act, m.step)
      BY <2>1, <2>3 DEF LInv, Truth, Authorized
    <3>3. ~Holding(k) /\ ~Finishing(k) /\ ~Answered(k) /\ k.pc \notin {"await", "record"}
      BY <3>1 DEF Holding, Finishing, Answered
    <3>4. LocalTrue(act, sent, h, k)
      BY <2>1, <3>1, <3>2, <3>3 DEF LocalTrue
    <3> QED BY <2>1, <2>2, <3>1, <3>3, <3>4, MoveQuietly
  <2>4. ASSUME NEW res \in {"FAILURE", "RESULT_UNKNOWN"}, Local(h, Taken(m, "exit", None, res))
        PROVE  LInv'
    <3> DEFINE k == Taken(m, "exit", None, res)
    <3>1. k.pc = "exit" /\ k.req = None /\ k.res # "SUCCESS" /\ k.next = "exit" /\ Local(h, k)
      BY <2>4 DEF Taken
    <3> HIDE DEF k
    <3>2. ~Holding(k) /\ ~Finishing(k) /\ ~Working(k)
      BY <3>1 DEF Holding, Finishing, Working
    <3>3. LocalTrue(act, sent, h, k)
      BY <3>1, <3>2, RestTrue
    <3> QED BY <2>1, <2>2, <3>1, <3>2, <3>3, MoveQuietly
  <2> QED BY <2>1, <2>3, <2>4
<1>2. CASE Import(h)
  <2> DEFINE d == [l.req EXCEPT !.ver = IF doc[e] = None THEN 1 ELSE doc[e].ver + 1]
  <2>1. l.pc = "import" /\ l.req \in Execution /\ DocTrue(act, l.req)
    BY <1>2, NoneAssumption DEF Import, At, LocalOK, LocalTrue
  <2>2. DocTrue(act, d)
    <3>1. d.steps = l.req.steps /\ d.status = l.req.status
      BY <2>1 DEF Execution
    <3> QED BY <2>1, <3>1, SameSteps
  <2>3. d \in Execution
    <3>1. (IF doc[e] = None THEN 1 ELSE doc[e].ver + 1) \in Nat
      BY DEF StateOK, Execution
    <3> QED BY <2>1, <3>1 DEF Execution
  <2>4. /\ doc' = [doc EXCEPT ![e] = d]
        /\ UNCHANGED <<journal, act, sent, net>>
        /\ \/ Local(h, [l EXCEPT !.pc = "reserve", !.req = d])
           \/ Local(h, Failed(h, [l EXCEPT !.req = d]))
    BY <1>2 DEF Import
  <2> HIDE DEF d
  <2>5. \A f \in Edges : doc'[f] = doc[f] \/ doc'[f] = d
    BY <2>4 DEF StateOK
  <2>6. ASSUME Local(h, [l EXCEPT !.pc = "reserve", !.req = d]) PROVE LInv'
    <3> DEFINE k == [l EXCEPT !.pc = "reserve", !.req = d]
    <3>1. k.pc = "reserve" /\ k.req = d /\ k.step = l.step /\ Local(h, k)
      BY <2>6 DEF Thread
    <3> HIDE DEF k
    <3>2. /\ ~Holding(k) /\ ~Finishing(k) /\ ~Answered(k) /\ k.pc \notin {"await", "record"}
          /\ Working(l)
      BY <2>1, <3>1 DEF Holding, Finishing, Answered, Working
    <3>3. LocalTrue(act, sent, h, k)
      BY <2>2, <3>1, <3>2 DEF LocalTrue
    <3> QED BY <2>2, <2>4, <2>5, <3>1, <3>2, <3>3, MoveQuietly
  <2>7. ASSUME Local(h, Failed(h, [l EXCEPT !.req = d])) PROVE LInv'
    <3>1. [l EXCEPT !.req = d] \in Thread
      BY <2>3 DEF Thread
    <3> DEFINE k == Failed(h, [l EXCEPT !.req = d])
    <3>2. LocalTrue(act, sent, h, k) /\ ~Holding(k) /\ k.pc # "record" /\ Local(h, k)
      BY <2>7, <3>1, FailedTrue, FailedOK
    <3> HIDE DEF k
    <3> QED BY <2>2, <2>4, <2>5, <3>2, MoveQuietly
  <2> QED BY <2>4, <2>6, <2>7
<1>3. CASE Respond(h)
  <2> DEFINE r == l.peer
             waits == At(r, "await") /\ thr[r].step = l.step /\ thr[r].req.fence = l.rev
             k == [thr[r] EXCEPT !.pc = "record", !.res = l.res]
  <2>1. /\ l.pc = "exit" /\ UNCHANGED <<journal, doc, act, sent, net>>
        /\ \A t \in Threads : thr'[t] = IF t = h THEN Idle
                                        ELSE IF t = r /\ waits THEN k ELSE thr[t]
    BY <1>3 DEF Respond, At
  <2>2. ASSUME r \in Threads, waits
        PROVE  LocalTrue(act, sent, r, k) /\ k.pc = "record" /\ StepEdge[k.step] # Home[r]
    <3>1. thr[r].pc = "await" /\ LocalTrue(act, sent, r, thr[r]) /\ thr[r] \in Thread
      BY <2>2, BeforeTrue DEF At
    <3>2. /\ k.pc = "record" /\ k.res = l.res /\ k.req = thr[r].req /\ k.step = thr[r].step
          /\ k.step = l.step
      BY <2>2, <3>1 DEF Thread
    <3> HIDE DEF k
    <3>3. ~Holding(k) /\ ~Finishing(k) /\ ~Answered(k) /\ Working(k) /\ Working(thr[r])
      BY <3>1, <3>2 DEF Holding, Finishing, Answered, Working
    <3>4. l.res = "SUCCESS" => Succeeded(act, l.step)
      BY <2>1 DEF LocalTrue, Answered
    <3> QED BY <3>1, <3>2, <3>3, <3>4 DEF LocalTrue
  <2> HIDE DEF k, waits
  <2>3. \A t \in Threads : LocalTrue(act, sent, t, thr'[t])
    BY <2>1, <2>2, BeforeTrue, IdleTrue
  <2>4. Truth'
    BY <2>1, <2>3 DEF LInv, Truth
  <2>5. ~Holding(Idle) /\ Idle.pc # "record"
    BY DEF Holding, Idle
  <2>6. \A t \in Threads, s \in Steps : Commands(t, s)' => Commands(t, s)
    BY <2>1, <2>2, <2>5 DEF Commands, Holding
  <2>7. \A t \in Threads, s \in Steps : Confirms(t, s)' => Confirms(t, s)
    BY <2>1, <2>2, <2>5 DEF Confirms
  <2>8. Settled'
    BY <2>1, <2>6, <2>7 DEF LInv, Settled
  <2> QED BY <2>4, <2>8 DEF LInv
<1> QED BY <1>1, <1>2, <1>3 DEF HandlerStep

\* A reservation starts from a journal without an entry, so nobody records a
\* result of the step.
LEMMA ReserveTrue ==
    ASSUME IInv, LInv, NEW t \in Threads, Reserve(t), Reservable(Home[t], thr[t].step)
    PROVE  LInv'
<1> DEFINE l == thr[t]
           e == Home[t]
           s == l.step
           d == [l.req EXCEPT !.cmd = s, !.ver = @ + 1]
           m == [l EXCEPT !.req = d]
<1>1. /\ StateOK /\ e \in Edges /\ l \in Thread /\ LocalOK(t, l)
      /\ LocalTrue(act, sent, t, l)
      /\ l.pc = "reserve" /\ s \in Steps /\ l.req \in Execution /\ DocTrue(act, l.req)
  BY BeforeTrue, NoneAssumption DEF Reserve, At, LocalOK, LocalTrue
<1>2. /\ act' = [act EXCEPT ![e][s] = "reserved"]
      /\ doc' = [doc EXCEPT ![e] = d]
      /\ Proceed(t, m, "before")
      /\ UNCHANGED <<journal, sent, net>>
      /\ act[e][s] = None
  BY DEF Reserve, Reservable
<1>3. None \notin {"SUCCESS", "reserved", "FAILURE", "RESULT_UNKNOWN"}
  BY SiteAssumption
<1>4. d \in Execution /\ DocTrue(act, d)
  <2>1. d.steps = l.req.steps /\ d.status = l.req.status
    BY <1>1 DEF Execution
  <2>2. l.req.ver + 1 \in Nat
    BY <1>1 DEF Execution
  <2>3. d \in Execution
    BY <1>1, <2>2 DEF Execution
  <2> QED BY <1>1, <2>1, <2>3, SameSteps
<1> HIDE DEF d
<1>5. m \in Thread /\ m.req = d /\ m.step = s
  BY <1>1, <1>4 DEF Thread
<1> HIDE DEF m
<1>6. \A f \in Edges, x \in Steps :
         act'[f][x] = IF f = e /\ x = s THEN "reserved" ELSE act[f][x]
  BY <1>1, <1>2 DEF StateOK
<1>7. \A x \in Steps : StepEdge[x] \in Edges
  BY SiteAssumption
<1>8. \A x \in Steps : Succeeded(act', x) <=> Succeeded(act, x)
  BY <1>2, <1>3, <1>6, <1>7 DEF Succeeded
<1>9. Grown(act, sent, act', sent')
  BY <1>2, <1>3, <1>6, <1>8 DEF Grown
<1>10. Onward(act', t, m, "before")
  <2>1. DocTrue(act', d) /\ Ready(act', s)
    BY <1>1, <1>4, <1>9, GrownReady DEF LocalTrue, Working
  <2>2. act'[e][s] # None
    BY <1>1, <1>3, <1>6
  <2>3. t \in Handlers => StepEdge[s] = e
    BY <1>1 DEF LocalTrue, Working
  <2> QED BY <1>5, <2>1, <2>2, <2>3 DEF Onward
<1>11. PICK k : /\ Local(t, k) /\ LocalTrue(act', sent', t, k) /\ k.pc # "record"
                /\ Holding(k) => k.step = s
  BY <1>2, <1>5, <1>10, ProceedTrue DEF Labels
<1>12. Truth'
  <2>1. \A f \in Edges, x \in Steps : act'[f][x] = "SUCCESS" => Succeeded(act', x)
    BY <1>6, <1>8 DEF LInv, Truth
  <2>2. \A x \in Steps : Succeeded(act', x) => sent'[x] = 1
    BY <1>2, <1>8 DEF LInv, Truth
  <2>3. \A f \in Edges : doc'[f] = doc[f] \/ doc'[f] = d
    BY <1>1, <1>2 DEF StateOK
  <2>4. DocTrue(act', d)
    BY <1>4, <1>9, GrownReady
  <2> QED BY <1>2, <1>9, <1>11, <2>1, <2>2, <2>3, <2>4, MoveTrue DEF LInv
<1>13. Settled'
  <2>1. \A u \in Threads : thr'[u] = IF u = t THEN k ELSE thr[u]
    BY <1>11 DEF Local, IInv, TypeOK
  <2>2. \A u \in Threads : thr[u].pc = "record" => act[Home[u]][thr[u].step] # None
    BY DEF LInv, Truth, LocalTrue
  <2>3. \A u \in Threads, x \in Steps : Confirms(u, x)' => Confirms(u, x) /\ ~(x = s /\ e = StepEdge[s])
    BY <1>2, <1>11, <2>1, <2>2 DEF Confirms
  <2>4. ASSUME NEW u \in Threads, NEW x \in Steps, Commands(u, x)'
        PROVE  Commands(u, x) \/ (x = s /\ e = StepEdge[s])
    BY <1>11, <2>1, <2>4 DEF Commands
  <2>5. \A x \in Steps : act[StepEdge[x]][x] \in Unresolved => act'[StepEdge[x]][x] \in Unresolved
    BY <1>3, <1>6, <1>7 DEF Unresolved
  <2>6. e = StepEdge[s] => act'[StepEdge[s]][s] \in Unresolved
    BY <1>1, <1>6 DEF Unresolved
  <2>7. ASSUME NEW u \in Threads, NEW x \in Steps, Commands(u, x)'
        PROVE  act'[StepEdge[x]][x] \in Unresolved /\ \A v \in Threads : ~Confirms(v, x)'
    <3>1. CASE Commands(u, x)
      BY <2>3, <2>5, <3>1 DEF LInv, Settled
    <3>2. CASE x = s /\ e = StepEdge[s]
      BY <2>3, <2>6, <3>2
    <3> QED BY <2>4, <2>7, <3>1, <3>2
  <2> QED BY <2>7 DEF Settled
<1> QED BY <1>12, <1>13 DEF LInv

\* The only command of a step: whoever holds it is alone.
LEMMA CommandTrue ==
    ASSUME IInv, LInv, NEW t \in Threads, Command(t)
    PROVE  LInv'
<1> DEFINE l == thr[t]
           s == l.step
<1>1. /\ StateOK /\ l \in Thread /\ LocalOK(t, l) /\ LocalTrue(act, sent, t, l)
      /\ l.pc = "send" /\ s \in Steps /\ StepEdge[s] = Home[t]
  BY BeforeTrue DEF Command, At, LocalOK, Holding
<1>2. Commands(t, s) /\ sent[s] = 0 /\ \A u \in Threads \ {t} : ~Commands(u, s)
  BY <1>1 DEF Commands, Holding, IInv, Exclusive
<1>3. /\ \A x \in Steps : sent'[x] = IF x = s THEN 1 ELSE sent[x]
      /\ UNCHANGED <<journal, doc, act, net>>
  BY <1>1, <1>2 DEF StateOK, Command
<1>4. PICK res \in Outcomes : Local(t, [l EXCEPT !.pc = "record", !.res = res])
  BY DEF Command
<1> DEFINE k == [l EXCEPT !.pc = "record", !.res = res]
<1>5. Local(t, k) /\ k.pc = "record" /\ k.res = res /\ k.req = l.req /\ k.step = s
  BY <1>1, <1>4 DEF Thread
<1> HIDE DEF k
<1>6. Grown(act, sent, act', sent')
  BY <1>3 DEF Grown
<1>7. LocalTrue(act', sent', t, k)
  <2>1. /\ ~Holding(k) /\ ~Finishing(k) /\ ~Answered(k) /\ Working(k)
        /\ Working(l) /\ Holding(l)
    BY <1>1, <1>5 DEF Holding, Finishing, Answered, Working
  <2>2. sent'[s] = 1
    BY <1>1, <1>3
  <2> QED BY <1>1, <1>3, <1>5, <2>1, <2>2 DEF LocalTrue
<1>8. Truth'
  <2>1. /\ \A e \in Edges, x \in Steps : act'[e][x] = "SUCCESS" => Succeeded(act', x)
        /\ \A x \in Steps : Succeeded(act', x) => sent'[x] = 1
    BY <1>3 DEF LInv, Truth
  <2> QED BY <1>3, <1>5, <1>6, <1>7, <2>1, MoveTrue DEF LInv
<1>9. Settled'
  <2>1. ~Holding(k)
    BY <1>5 DEF Holding
  <2> QED BY <1>2, <1>3, <1>5, <2>1, MoveSettled DEF LInv
<1> QED BY <1>8, <1>9 DEF LInv

\* The result of a step enters the journal of its edge and the document.
LEMMA RecordTrue ==
    ASSUME IInv, LInv, NEW t \in Threads, Record(t)
    PROVE  LInv'
<1> DEFINE l == thr[t]
           e == Home[t]
           s == l.step
           row == [act[e] EXCEPT ![s] = Outcome(@, l.res)]
           status == IF doc[e].status = "cancelled_result_unknown" /\ ~UnknownActions(row)
                     THEN "cancelled" ELSE doc[e].status
           d == [doc[e] EXCEPT !.ver = @ + 1, !.status = status, !.steps[s] = row[s],
                               !.cmd = IF @ = s THEN None ELSE @]
           m == [l EXCEPT !.req = d]
           onto == IF t \in Handlers \/ status \notin Running THEN "exit"
                    ELSE IF l.res = "SUCCESS" /\ ~LastStep(t) THEN "step" ELSE "finish"
<1>1. /\ StateOK /\ e \in Edges /\ l \in Thread /\ LocalOK(t, l)
      /\ LocalTrue(act, sent, t, l)
      /\ l.pc = "record" /\ s \in Steps /\ l.res \in Outcomes
      /\ doc[e] \in Execution /\ DocTrue(act, doc[e])
      /\ act[e][s] # None /\ Ready(act, s)
  BY BeforeTrue, Before DEF Record, At, LocalOK, LocalTrue, Working
<1>2. /\ act' = [act EXCEPT ![e] = row]
      /\ doc' = [doc EXCEPT ![e] = d]
      /\ Proceed(t, m, onto)
      /\ UNCHANGED <<journal, sent, net>>
      /\ ~Contradicts(act[e][s], l.res)
  BY DEF Record
<1>3. row[s] = l.res /\ \A x \in Steps : x # s => row[x] = act[e][x]
  <2>1. act[e][s] \in Outcomes \cup {"reserved"} /\ act[e] \in [Steps -> Outcomes \cup {"reserved", None}]
    BY <1>1 DEF StateOK
  <2>2. Outcome(act[e][s], l.res) = l.res
    BY <1>2, <2>1 DEF Outcome, Contradicts, Unresolved, Outcomes
  <2> QED BY <1>1, <2>1, <2>2
<1>4. d.steps[s] = l.res /\ (\A x \in Steps : x # s => d.steps[x] = doc[e].steps[x])
      /\ d.status \in {"cancelled", doc[e].status}
  BY <1>1, <1>3 DEF Execution
<1>5. d \in Execution
  <2>1. doc[e].ver + 1 \in Nat /\ doc[e].steps \in [Steps -> Outcomes \cup {None}]
    BY <1>1 DEF Execution
  <2>2. [doc[e].steps EXCEPT ![s] = row[s]] \in [Steps -> Outcomes \cup {None}]
    BY <1>1, <1>3, <2>1
  <2>3. (IF doc[e].cmd = s THEN None ELSE doc[e].cmd) \in Steps \cup {None}
    BY <1>1 DEF Execution
  <2>4. status \in Statuses
    BY <1>1 DEF Execution, Statuses, Terminal
  <2> QED BY <1>1, <2>1, <2>2, <2>3, <2>4 DEF Execution
<1> HIDE DEF row, status, d
<1>6. m \in Thread /\ m.req = d /\ m.step = s /\ m.res = l.res /\ m.mode = l.mode
  BY <1>1, <1>5 DEF Thread
<1>7. /\ onto \in Labels /\ onto # "before"
      /\ onto = "finish" /\ l.res = "SUCCESS" => LastStep(t)
  BY DEF Labels
<1> HIDE DEF m, onto
<1>8. /\ \A x \in Steps : StepEdge[x] \in Edges
      /\ \A f \in Edges, x \in Steps :
            act'[f][x] = IF f = e /\ x = s THEN l.res ELSE act[f][x]
      /\ None # "SUCCESS"
  BY <1>1, <1>2, <1>3, SiteAssumption DEF StateOK
<1>9. Grown(act, sent, act', sent')
  <2>1. \A f \in Edges, x \in Steps : act[f][x] # None => act'[f][x] # None
    <3>1. None \notin Outcomes
      BY SiteAssumption DEF Outcomes, Confirmed
    <3> QED BY <1>1, <1>8, <3>1
  <2>2. \A x \in Steps : Succeeded(act, x) => Succeeded(act', x)
    <3>1. act[e][s] = "SUCCESS" => l.res = "SUCCESS"
      BY <1>2 DEF Contradicts, Confirmed
    <3> QED BY <1>8, <3>1 DEF Succeeded
  <2> QED BY <1>2, <2>1, <2>2 DEF Grown
<1>10. l.res = "SUCCESS" => Succeeded(act', s)
  <2>1. CASE StepEdge[s] = e
    BY <1>1, <1>8, <2>1 DEF Succeeded
  <2>2. CASE StepEdge[s] # e
    BY <1>1, <1>9, <2>2 DEF LocalTrue, Grown
  <2> QED BY <2>1, <2>2
<1>11. DocTrue(act', d)
  <2>1. DocTrue(act', doc[e])
    BY <1>1, <1>9, GrownReady
  <2> QED BY <1>4, <1>10, <2>1 DEF DocTrue
<1>12. Onward(act', t, m, onto)
  <2>1. LastStep(t) /\ l.mode = "normal" /\ l.res = "SUCCESS" => AllDone(act')
    <3> SUFFICES ASSUME LastStep(t), l.mode = "normal", l.res = "SUCCESS"
                 PROVE  AllDone(act')
      OBVIOUS
    <3>1. NormalPlan \in Seq(Steps) /\ NormalPlan # <<>>
      BY SiteAssumption DEF LastStep, Plan
    <3>2. s = NormalPlan[Len(NormalPlan)]
      BY DEF LastStep, Plan
    <3>3. Ready(act', s)
      BY <1>1, <1>9, GrownReady
    <3> SUFFICES ASSUME NEW i \in DOMAIN NormalPlan PROVE Succeeded(act', NormalPlan[i])
      BY DEF AllDone
    <3>4. /\ Len(NormalPlan) \in DOMAIN NormalPlan
          /\ i = Len(NormalPlan) \/ i < Len(NormalPlan)
      BY <3>1
    <3> QED BY <1>10, <3>2, <3>3, <3>4 DEF Ready
  <2> QED BY <1>1, <1>6, <1>7, <1>10, <1>11, <2>1 DEF Onward
<1>13. PICK k : Local(t, k) /\ LocalTrue(act', sent', t, k) /\ k.pc # "record" /\ ~Holding(k)
  <2>1. PICK label \in Labels : label = onto
    BY <1>7
  <2>2. Proceed(t, m, label) /\ Onward(act', t, m, label) /\ m \in Thread /\ sent' = sent
    BY <1>2, <1>6, <1>12, <2>1
  <2>3. PICK b, y : b = act' /\ y = sent'
    OBVIOUS
  <2>4. \E k : Local(t, k) /\ LocalTrue(b, y, t, k) /\ k.pc # "record" /\ ~Holding(k)
    <3>1. Onward(b, t, m, label)
      BY <2>2, <2>3
    <3>2. m \in Thread /\ label # "before"
      BY <1>6, <1>7, <2>1
    <3> QED BY <2>2, <3>1, <3>2, ProceedTrue
  <2> QED BY <2>3, <2>4
<1>14. Truth'
  <2>1. \A f \in Edges, x \in Steps : act'[f][x] = "SUCCESS" => Succeeded(act', x)
    <3>1. \A f \in Edges, x \in Steps : act[f][x] = "SUCCESS" => Succeeded(act', x)
      BY <1>9 DEF LInv, Truth, Grown
    <3> QED BY <1>8, <1>10, <3>1
  <2>2. \A x \in Steps : Succeeded(act', x) => sent'[x] = 1
    <3> SUFFICES ASSUME NEW x \in Steps, Succeeded(act', x) PROVE sent[x] = 1
      BY <1>2
    <3>1. CASE Succeeded(act, x)
      BY <3>1 DEF LInv, Truth
    <3>2. CASE ~Succeeded(act, x)
      <4>1. x = s /\ StepEdge[s] = e /\ l.res = "SUCCESS"
        BY <1>8, <3>2 DEF Succeeded
      <4> QED BY <1>1, <4>1 DEF LocalTrue
    <3> QED BY <3>1, <3>2
  <2>3. \A f \in Edges : doc'[f] = doc[f] \/ doc'[f] = d
    BY <1>1, <1>2 DEF StateOK
  <2> QED BY <1>2, <1>9, <1>11, <1>13, <2>1, <2>2, <2>3, MoveTrue DEF LInv
<1>15. Settled'
  <2>1. ASSUME NEW x \in Steps, act[StepEdge[x]][x] \in Unresolved,
               act'[StepEdge[x]][x] \notin Unresolved
        PROVE  \A u \in Threads : ~Commands(u, x)
    <3>1. x = s /\ StepEdge[s] = e /\ l.res \in Confirmed
      BY <1>1, <1>8, <2>1 DEF Outcomes, Unresolved
    <3>2. Confirms(t, s)
      BY <1>1, <3>1 DEF Confirms
    <3> QED BY <1>1, <3>1, <3>2 DEF LInv, Settled
  <2> QED BY <1>13, <2>1, MoveSettled DEF LInv
<1> QED BY <1>14, <1>15 DEF LInv

LEMMA ThreadTrue ==
    ASSUME IInv, LInv, NEW t \in Threads, ThreadStep(t)
    PROVE  LInv'
<1> DEFINE l == thr[t]
           e == Home[t]
           s == l.step
<1> /\ StateOK /\ e \in Edges /\ l \in Thread /\ LocalOK(t, l)
    /\ LocalTrue(act, sent, t, l)
  BY BeforeTrue
<1>1. CASE WriteJournal(t)
  <2> DEFINE k == [l EXCEPT !.pc = "index"]
  <2>1. /\ l.pc = "ckpt" /\ Local(t, k) /\ journal' = l.req /\ DocTrue(act, l.req)
        /\ UNCHANGED <<doc, act, sent, net>>
    BY <1>1, NoneAssumption DEF WriteJournal, At, LocalOK, LocalTrue
  <2>2. /\ k.pc = "index" /\ k.next = l.next /\ k.req = l.req /\ k.step = l.step
        /\ k.res = l.res /\ k.mode = l.mode
    BY DEF Thread
  <2> HIDE DEF k
  <2>3. /\ Holding(k) <=> Holding(l)
        /\ Working(k) <=> Working(l)
        /\ Answered(k) <=> Answered(l)
        /\ Finishing(k) <=> Finishing(l)
    BY <2>1, <2>2 DEF Holding, Working, Answered, Finishing
  <2>4. LocalTrue(act, sent, t, k)
    BY <2>1, <2>2, <2>3 DEF LocalTrue
  <2> QED BY <2>1, <2>2, <2>3, <2>4, MoveQuietly
<1>2. CASE WriteActive(t)
  <2> DEFINE k == Goto(t, l, l.next)
  <2>1. /\ l.pc = "index" /\ Local(t, k) /\ l.next \in Labels /\ DocTrue(act, l.req)
        /\ UNCHANGED <<journal, doc, act, sent, net>>
    BY <1>2, NoneAssumption DEF WriteActive, At, LocalOK, LocalTrue
  <2>2. Onward(act, t, l, l.next)
    <3>1. /\ l.next = "before" => Holding(l) /\ Working(l)
          /\ l.next # "before" => Answered(l)
          /\ l.next = "finish" => Finishing(l)
      BY <2>1 DEF Holding, Working, Answered, Finishing
    <3> QED BY <2>1, <3>1 DEF LocalTrue, Onward
  <2>3. /\ LocalTrue(act, sent, t, k) /\ k.pc # "record"
        /\ Holding(k) => Holding(l) /\ k.step = l.step
    BY <2>1, <2>2, GotoTrue DEF Holding
  <2> HIDE DEF k
  <2> QED BY <2>1, <2>3, MoveQuietly
<1>3. CASE Reserve(t)
  <2>1. CASE Reservable(e, s)
    BY <1>3, <2>1, ReserveTrue
  <2>2. CASE ~Reservable(e, s)
    <3> DEFINE x == IF act[e][s] = "reserved" THEN "RESULT_UNKNOWN" ELSE act[e][s]
               k == [l EXCEPT !.pc = "record", !.res = x]
    <3>1. /\ l.pc = "reserve" /\ s \in Steps /\ act[e][s] # None
          /\ Local(t, k) /\ UNCHANGED <<journal, doc, act, sent, net>>
      BY <1>3, <2>2 DEF Reserve, At, LocalOK, Reservable
    <3>2. k.pc = "record" /\ k.res = x /\ k.req = l.req /\ k.step = s
      BY DEF Thread
    <3> HIDE DEF k
    <3>3. ~Holding(k) /\ ~Finishing(k) /\ ~Answered(k) /\ Working(k) /\ Working(l)
      BY <3>1, <3>2 DEF Holding, Finishing, Answered, Working
    <3>4. x = "SUCCESS" => Succeeded(act, s) /\ sent[s] = 1
      BY <3>1 DEF LInv, Truth
    <3>5. LocalTrue(act, sent, t, k)
      BY <3>1, <3>2, <3>3, <3>4 DEF LocalTrue
    <3>6. Truth'
      BY <3>1, <3>5, SameGrown, MoveTrue DEF LInv, Truth
    <3>7. x \in Confirmed /\ StepEdge[s] = e => \A u \in Threads : ~Commands(u, s)
      BY <3>1 DEF LInv, Settled, Unresolved, Confirmed
    <3>8. Settled'
      BY <3>1, <3>2, <3>3, <3>7, MoveSettled DEF LInv
    <3> QED BY <3>6, <3>8 DEF LInv
  <2> QED BY <2>1, <2>2
<1>4. CASE Refuse(t)
  <2>1. PICK res \in {"FAILURE", "RESULT_UNKNOWN"} :
           Local(t, [l EXCEPT !.pc = "record", !.res = res])
    BY <1>4 DEF Refuse
  <2> DEFINE k == [l EXCEPT !.pc = "record", !.res = res]
  <2>2. l.pc = "before" /\ Local(t, k) /\ UNCHANGED <<journal, doc, act, sent, net>>
    BY <1>4, <2>1 DEF Refuse, At
  <2>3. k.pc = "record" /\ k.res # "SUCCESS" /\ k.req = l.req /\ k.step = s
    BY DEF Thread
  <2> HIDE DEF k
  <2>4. /\ ~Holding(k) /\ ~Finishing(k) /\ ~Answered(k) /\ Working(k)
        /\ Working(l) /\ Holding(l) /\ s \in Steps
    BY <2>2, <2>3 DEF Holding, Finishing, Answered, Working, LocalOK
  <2>5. LocalTrue(act, sent, t, k)
    BY <2>3, <2>4 DEF LocalTrue
  <2>6. Truth'
    BY <2>2, <2>5, SameGrown, MoveTrue DEF LInv, Truth
  <2>7. StepEdge[s] = e => \A u \in Threads \ {t} : ~Commands(u, s)
    BY <2>4 DEF Commands, IInv, Exclusive
  <2>8. Settled'
    BY <2>2, <2>3, <2>4, <2>7, MoveSettled DEF LInv
  <2> QED BY <2>6, <2>8 DEF LInv
<1>5. CASE Dispatch(t)
  <2>1. /\ l.pc = "before" /\ UNCHANGED <<journal, doc, act, sent>>
        /\ Holding(l) /\ Working(l) /\ Ready(act, s)
    BY <1>5 DEF Dispatch, At, Holding, Working, LocalTrue
  <2>2. PICK p \in {"send", "await"} :
           /\ Local(t, [l EXCEPT !.pc = p])
           /\ p = "send" => net' = net
           /\ p = "await" => StepEdge[s] # e
           /\ \A m \in net' : m \in net \/ m.step = s
    BY <1>5 DEF Dispatch
  <2> DEFINE k == [l EXCEPT !.pc = p]
  <2>3. k.pc = p /\ k.req = l.req /\ k.step = s /\ Local(t, k)
    BY <2>2 DEF Thread
  <2> HIDE DEF k
  <2>4. ~Finishing(k) /\ ~Answered(k) /\ Working(k) /\ k.pc # "record"
    BY <2>3 DEF Finishing, Answered, Working, Holding
  <2>5. t \in Handlers => StepEdge[s] = e
    BY <2>1 DEF LocalTrue
  <2>6. LocalTrue(act, sent, t, k)
    BY <2>1, <2>2, <2>3, <2>4, <2>5 DEF LocalTrue, Threads
  <2> QED BY <2>1, <2>2, <2>3, <2>4, <2>6, MoveQuietly
<1>6. CASE Command(t)
  BY <1>6, CommandTrue
<1>7. CASE Record(t)
  BY <1>7, RecordTrue
<1>8. CASE Abort(t)
  <2> DEFINE k == Failed(t, l)
  <2>1. Local(t, k) /\ UNCHANGED <<journal, doc, act, sent, net>>
    BY <1>8 DEF Abort
  <2>2. LocalTrue(act, sent, t, k) /\ ~Holding(k) /\ k.pc # "record"
    BY FailedTrue, FailedOK
  <2> HIDE DEF k
  <2> QED BY <2>1, <2>2, MoveQuietly
<1> QED BY <1>1, <1>2, <1>3, <1>4, <1>5, <1>6, <1>7, <1>8 DEF ThreadStep

\* The steps of the environment change no journal and no document.
LEMMA EnvironmentTrue ==
    ASSUME IInv, LInv, ExpireLease \/ \E e \in Edges : Crash(e)
    PROVE  LInv'
<1>1. CASE ExpireLease
  <2>1. UNCHANGED <<journal, doc, act, sent, thr, net>>
    BY <1>1 DEF ExpireLease
  <2> QED BY <2>1 DEF LInv, Truth, Settled, Commands, Confirms
<1>2. ASSUME NEW e \in Edges, Crash(e) PROVE LInv'
  <2>1. /\ thr' = [t \in Threads |-> IF Home[t] = e THEN Idle ELSE thr[t]]
        /\ UNCHANGED <<journal, doc, act, sent, net>>
    BY <1>2 DEF Crash
  <2>2. ~Holding(Idle) /\ Idle.pc # "record"
    BY DEF Holding, Idle
  <2>3. \A t \in Threads : LocalTrue(act, sent, t, thr'[t])
    BY <2>1, BeforeTrue, IdleTrue
  <2>4. Truth'
    BY <2>1, <2>3 DEF LInv, Truth
  <2>5. \A t \in Threads, s \in Steps :
           (Commands(t, s)' => Commands(t, s)) /\ (Confirms(t, s)' => Confirms(t, s))
    BY <2>1, <2>2 DEF Commands, Confirms
  <2>6. Settled'
    BY <2>1, <2>5 DEF LInv, Settled
  <2> QED BY <2>4, <2>6 DEF LInv
<1> QED BY <1>1, <1>2

\* What documents, requests and threads say about the devices stays right.
THEOREM TruthInvariance == Spec => []LInv
<1>1. ASSUME IInv, LInv, [Next]_vars PROVE LInv'
  <2>1. CASE UNCHANGED vars
    BY <1>1, <2>1 DEF LInv, Truth, Settled, Commands, Confirms, vars
  <2>2. CASE Next
    BY <1>1, <2>2, RunnerTrue, HandlerTrue, ThreadTrue, EnvironmentTrue DEF Next
  <2> QED BY <1>1, <2>1, <2>2
<1> QED BY <1>1, InitTrue, Invariance, PTL DEF Spec

\* An execution that any document or the journal reports as completed has
\* had every step of its plan commanded, and none twice: what Run,
\* ExecuteRemoteStep and the recovery from the journal take for done was sent.
THEOREM CompletedIsDone == Spec => []CompletedMeansDone
<1>1. LInv => CompletedMeansDone
  BY PlanSteps DEF LInv, Truth, DocTrue, AllDone, CompletedMeansDone
<1> QED BY <1>1, TruthInvariance, PTL

-----------------------------------------------------------------------------
(***************************************************************************)
(* The ledger of steps kept by the device owners                           *)
(***************************************************************************)
LEMMA LedgerInit == Init => Ledger!Init
BY SiteAssumption DEF Init, Ledger!Init

\* A step that changes no entry of an owner and sends nothing is a stutter.
LEMMA Stutters ==
    ASSUME \A s \in Steps : act'[StepEdge[s]][s] = act[StepEdge[s]][s],
           UNCHANGED sent
    PROVE  UNCHANGED Ledger!vars
BY DEF Ledger!vars

LEMMA ReserveImplements ==
    ASSUME IInv, LInv, NEW t \in Threads, Reserve(t)
    PROVE  [Ledger!Next]_(Ledger!vars)
<1> DEFINE e == Home[t]
<1> PICK s \in Steps : s = thr[t].step
  BY Before DEF Reserve, At, LocalOK
<1>1. /\ StateOK /\ e \in Edges /\ UNCHANGED sent
      /\ \A x \in Steps : StepEdge[x] \in Edges
  BY Before, SiteAssumption DEF Reserve
<1>2. CASE Reservable(e, s) /\ StepEdge[s] = e
  <2>1. \A x \in Steps : act'[StepEdge[x]][x] = IF x = s THEN "reserved" ELSE act[StepEdge[x]][x]
    BY SMTT(30), <1>1, <1>2 DEF StateOK, Reserve
  <2>2. Ledger!Reserve(s)
    BY <1>1, <1>2, <2>1 DEF Ledger!Reserve, Reservable
  <2>3. Ledger!Next
    BY <2>2 DEF Ledger!Next
  <2> QED BY <2>3
<1>3. CASE ~(Reservable(e, s) /\ StepEdge[s] = e)
  <2>1. \A x \in Steps : act'[StepEdge[x]][x] = act[StepEdge[x]][x]
    BY <1>1, <1>3 DEF StateOK, Reserve
  <2> QED BY <1>1, <2>1, Stutters
<1> QED BY <1>2, <1>3

LEMMA CommandImplements ==
    ASSUME IInv, LInv, NEW t \in Threads, Command(t)
    PROVE  Ledger!Next
<1> DEFINE s == thr[t].step
<1>1. /\ StateOK /\ s \in Steps /\ StepEdge[s] = Home[t] /\ thr[t].pc = "send"
      /\ Ready(act, s)
  BY BeforeTrue DEF Command, At, LocalOK, Holding, LocalTrue, Working
<1>2. Commands(t, s)
  BY <1>1 DEF Commands, Holding
<1>3. sent[s] = 0 /\ act[StepEdge[s]][s] \in Unresolved
  BY <1>1, <1>2 DEF IInv, Exclusive, LInv, Settled
<1>4. sent' = [sent EXCEPT ![s] = 1] /\ UNCHANGED act
  BY <1>1, <1>3 DEF Command, StateOK
<1>5. ASSUME NEW i \in 2 .. Len(NormalPlan), NormalPlan[i] = s
      PROVE  act[StepEdge[NormalPlan[i - 1]]][NormalPlan[i - 1]] = "SUCCESS" /\ NormalPlan[i - 1] \in Steps
  <2>1. i \in DOMAIN NormalPlan /\ i - 1 \in DOMAIN NormalPlan /\ i - 1 < i
    BY SiteAssumption
  <2> QED BY <1>1, <1>5, <2>1, PlanSteps DEF Ready, Succeeded
<1>6. Ledger!Command(s)
  BY <1>1, <1>3, <1>4, <1>5 DEF Ledger!Command, Ledger!Unresolved, Unresolved
<1> QED BY <1>1, <1>6 DEF Ledger!Next

LEMMA RecordImplements ==
    ASSUME IInv, LInv, NEW t \in Threads, Record(t)
    PROVE  [Ledger!Next]_(Ledger!vars)
<1> DEFINE e == Home[t]
           res == thr[t].res
<1> PICK s \in Steps : s = thr[t].step
  BY Before DEF Record, At, LocalOK
<1>1. /\ StateOK /\ e \in Edges /\ res \in Outcomes /\ UNCHANGED sent
      /\ act[e][s] # None
      /\ res = "SUCCESS" /\ StepEdge[s] = e => sent[s] = 1
      /\ \A x \in Steps : StepEdge[x] \in Edges
      /\ act' = [act EXCEPT ![e] = [act[e] EXCEPT ![s] = Outcome(@, res)]]
      /\ ~Contradicts(act[e][s], res)
  BY BeforeTrue, SiteAssumption DEF Record, At, LocalOK, LocalTrue
<1>2. \A x \in Steps : act'[StepEdge[x]][x] =
         IF x = s /\ StepEdge[s] = e THEN Outcome(act[e][s], res) ELSE act[StepEdge[x]][x]
  BY <1>1 DEF StateOK
<1>3. CASE StepEdge[s] = e /\ act[e][s] \in Unresolved
  <2>1. \A x \in Steps : act'[StepEdge[x]][x] = IF x = s THEN res ELSE act[StepEdge[x]][x]
    BY <1>2, <1>3 DEF Outcome
  <2>2. res \in {"SUCCESS", "FAILURE", "RESULT_UNKNOWN"}
    BY <1>1 DEF Outcomes, Confirmed
  <2>3. Ledger!Settle(s)
    <3> PICK r \in {"SUCCESS", "FAILURE", "RESULT_UNKNOWN"} : r = res
      BY <2>2
    <3>1. act[StepEdge[s]][s] \in Ledger!Unresolved /\ (r = "SUCCESS" => sent[s] = 1)
      BY <1>1, <1>3 DEF Ledger!Unresolved, Unresolved
    <3>2. [x \in Steps |-> act[StepEdge[x]][x]]' =
             [[x \in Steps |-> act[StepEdge[x]][x]] EXCEPT ![s] = r]
      BY <2>1
    <3> QED BY <1>1, <3>1, <3>2 DEF Ledger!Settle
  <2>4. Ledger!Next
    BY <2>3 DEF Ledger!Next
  <2> QED BY <2>4
<1>4. CASE ~(StepEdge[s] = e /\ act[e][s] \in Unresolved)
  <2>1. \A x \in Steps : act'[StepEdge[x]][x] = act[StepEdge[x]][x]
    BY <1>2, <1>4 DEF Outcome
  <2> QED BY <1>1, <2>1, Stutters
<1> QED BY <1>3, <1>4

\* The other steps, of runners, handlers and the environment, leave the
\* journals of the devices and the devices alone.
LEMMA OthersStutter ==
    ASSUME IInv, Next,
           \A t \in Threads : ~Reserve(t) /\ ~Command(t) /\ ~Record(t)
    PROVE  UNCHANGED Ledger!vars
<1>1. ASSUME NEW r \in Runners, RunnerStep(r) PROVE UNCHANGED <<act, sent>>
  BY <1>1 DEF RunnerStep, Begin, Claim, LeaseHeld, Commit, CoordinationFails, Degrade, Reject,
              Start, PickStep, Timeout, Finish, Release, BeginCancel, Cancel
<1>2. ASSUME NEW h \in Handlers, HandlerStep(h) PROVE UNCHANGED <<act, sent>>
  BY <1>2 DEF HandlerStep, Receive, Import, Respond
<1>3. ASSUME NEW t \in Threads, ThreadStep(t) PROVE UNCHANGED <<act, sent>>
  BY <1>3 DEF ThreadStep, WriteJournal, WriteActive, Refuse, Dispatch, Abort
<1>4. ExpireLease \/ (\E e \in Edges : Crash(e)) => UNCHANGED <<act, sent>>
  BY DEF ExpireLease, Crash
<1>5. UNCHANGED <<act, sent>>
  BY <1>1, <1>2, <1>3, <1>4 DEF Next
<1> QED BY <1>5, Stutters

\* The execution of a plan by several sites implements the ledger of steps:
\* in the journal of the owner of each device a step is reserved before its
\* only command, commanded only after the step before it succeeded, and
\* settled as successful only when it was commanded, for any number of sites,
\* runners and handlers and whatever leases, requests and crashes do.
THEOREM ImplementsLedger == Spec => LedgerSpec
<1>1. ASSUME IInv, LInv, [Next]_vars PROVE [Ledger!Next]_(Ledger!vars)
  <2>1. CASE UNCHANGED vars
    BY <2>1, Stutters DEF vars
  <2>2. CASE \E t \in Threads : Reserve(t)
    BY <1>1, <2>2, ReserveImplements
  <2>3. CASE \E t \in Threads : Command(t)
    BY <1>1, <2>3, CommandImplements
  <2>4. CASE \E t \in Threads : Record(t)
    BY <1>1, <2>4, RecordImplements
  <2>5. CASE Next /\ \A t \in Threads : ~Reserve(t) /\ ~Command(t) /\ ~Record(t)
    BY <1>1, <2>5, OthersStutter
  <2> QED BY <1>1, <2>1, <2>2, <2>3, <2>4, <2>5
<1> QED BY <1>1, LedgerInit, Invariance, TruthInvariance, PTL DEF Spec, LedgerSpec, Ledger!Spec
=============================================================================
