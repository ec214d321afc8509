-------------------------- MODULE SmWorkersProofs ---------------------------
(***************************************************************************)
(* Proofs about SmWorkers, for every number of SMs, CTAs, warps and steps, *)
(* both CTA schedulers and both warp schedulers.                           *)
(***************************************************************************)
EXTENDS SmWorkers, SequenceTheorems, FiniteSetTheorems, TLAPS

-----------------------------------------------------------------------------
(* The inductive invariant.                                                *)

\* A worker that runs a CTA is in one of these places, and only then; the
\* workers are born when all CTAs are submitted, and joined when all exited.
Running == {"steps", "issue", "peek", "count", "fault", "stop"}

PlaceOK ==
    /\ \A s \in Sms : /\ at[s] \in Running <=> cta[s] # NoCta
                      /\ main = "submit" <=> at[s] = "unborn"
                      /\ main = "joined" => at[s] = "exited"
    /\ main # "submit" => submitted = NumCtas

\* Why a stop is requested, and why a worker leaves.
StopOK ==
    /\ stop => diag # NoDiag \/ steps >= MaxSteps
    /\ \A s \in Sms : /\ at[s] = "stop" => diag # NoDiag \/ steps >= MaxSteps
                      /\ at[s] = "exited" => stop \/ diag # NoDiag \/ q[QueueFor(s)] = <<>>

\* Some fault is kept once there is one.
FaultOK == IF faulted = {} THEN diag = NoDiag ELSE diag \in faulted

\* The workers that have passed the budget's test and not yet counted.
Uncounted == {s \in Sms : at[s] \in {"issue", "count"}}

BudgetOK == steps + Cardinality(Uncounted) <= MaxSteps + SmCount - 1

Queued(c) == \E i \in Queues : \E k \in 1 .. Len(q[i]) : q[i][k] = c

\* What waits in a queue was submitted to it, in ascending order, and after
\* all that left it.
OrderOK ==
    \A i \in Queues :
      /\ Len(q[i]) <= submitted
      /\ \A k \in 1 .. Len(q[i]) : q[i][k] < submitted /\ QueueOf(q[i][k]) = i
      /\ \A a, b \in 1 .. Len(q[i]) : a < b => q[i][a] < q[i][b]
      /\ \A a \in 1 .. Len(q[i]), c \in 0 .. submitted - 1 :
           QueueOf(c) = i /\ ~Queued(c) => c < q[i][a]

\* A submitted CTA is somewhere, and nowhere twice.
ShareOK ==
    /\ \A c \in 0 .. submitted - 1 :
         Queued(c) \/ c \in finished \/ c \in abandoned \/ \E s \in Sms : cta[s] = c
    /\ \A c \in finished \cup abandoned : c < submitted /\ ~Queued(c)
    /\ finished \cap abandoned = {}
    /\ \A s \in Sms, c \in Ctas : cta[s] = c =>
         /\ c < submitted /\ ~Queued(c) /\ c \notin finished \cup abandoned
         /\ \A r \in Sms : cta[r] = c => r = s
    /\ abandoned # {} => stop

\* Round robin: a warp that has waited long is the next but few.  In order:
\* all warps before the current one are done.
PolicyAt(s) ==
    IF WarpPolicy = "round_robin_interleave_step"
    THEN \A w \in LiveWarps(s) : waited[s][w] + Distance(s, w) <= NumWarps - 1
    ELSE /\ 0 .. cursor[s] - 1 \subseteq done[s]
         /\ \A w \in done[s] : 0 .. w \subseteq done[s]

PolicyOK == \A s \in Sms : PolicyAt(s)

IInv == TypeOK /\ PlaceOK /\ StopOK /\ FaultOK /\ BudgetOK /\ OrderOK /\ ShareOK /\ PolicyOK

-----------------------------------------------------------------------------
(* The numbers of a run.                                                   *)

LEMMA RunNumbers ==
    ASSUME cfg \in Configs
    PROVE  /\ SmCount \in Nat \ {0} /\ NumCtas \in Nat \ {0} /\ NumWarps \in Nat \ {0}
           /\ MaxSteps \in Nat /\ Parallel \in BOOLEAN
BY SmWorkersAssumption DEF SmCount, NumCtas, NumWarps, MaxSteps, Parallel

\* Nothing that the configuration decides changes with it unchanged.
LEMMA RunFixed ==
    ASSUME UNCHANGED cfg
    PROVE  /\ SmCount' = SmCount /\ NumCtas' = NumCtas /\ NumWarps' = NumWarps
           /\ MaxSteps' = MaxSteps /\ Parallel' = Parallel
           /\ Sms' = Sms /\ Ctas' = Ctas /\ Warps' = Warps /\ Queues' = Queues
           /\ WarpPolicy' = WarpPolicy /\ CtaPolicy' = CtaPolicy
           /\ \A c : QueueOf(c)' = QueueOf(c) /\ QueueFor(c)' = QueueFor(c)
BY DEF SmCount, NumCtas, NumWarps, MaxSteps, Parallel, Sms, Ctas, Warps, Queues,
       WarpPolicy, CtaPolicy, QueueOf, QueueFor

LEMMA NextFixed ==
    ASSUME [Next]_vars
    PROVE  UNCHANGED <<cfg, kernelOK>>
<1> USE DEF inputs
<1>1. CASE Main
  BY <1>1 DEF Main, Submit, CloseAndLaunch, Join
<1>2. ASSUME NEW s \in Sms, Worker(s)
      PROVE  UNCHANGED <<cfg, kernelOK>>
  BY <1>2 DEF Worker, CheckBudget, AcquireLock, AcquirePop, AfterCta, CheckSteps,
       LeaveIdle, Issue, PeekDiag, CountStep, ReportFault, StopAndReturn
<1>3. CASE Terminated \/ UNCHANGED vars
  BY <1>3 DEF Terminated, vars
<1> QED BY <1>1, <1>2, <1>3 DEF Next

\* The queue of a CTA and that of an SM are queues of the scheduler.
LEMMA QueueTypes ==
    ASSUME cfg \in Configs
    PROVE  /\ \A c \in Nat : QueueOf(c) \in Queues
           /\ \A s \in Sms : QueueFor(s) \in Queues
           /\ \A i \in Queues : \E s \in Sms : QueueFor(s) = i
<1> USE RunNumbers DEF QueueOf, QueueFor, Queues, Sms
<1>1. \A c \in Nat : c % SmCount \in 0 .. SmCount - 1
  OBVIOUS
<1>2. 0 \in Sms
  OBVIOUS
<1> QED BY <1>1, <1>2

-----------------------------------------------------------------------------
(* Types.                                                                  *)

LEMMA InitType == Init => TypeOK
<1> SUFFICES ASSUME Init PROVE TypeOK
  OBVIOUS
<1>1. cfg \in Configs
  BY DEF Init
<1>2. 0 \in Warps /\ 0 \in 0 .. NumCtas
  BY <1>1, RunNumbers DEF Warps
<1>3. q \in [Queues -> Seq(Ctas)]
  BY DEF Init
<1> QED BY <1>1, <1>2, <1>3 DEF Init, TypeOK, Places, Nobody, NoCta, NoDiag

LEMMA SubmitType ==
    ASSUME TypeOK, Submit PROVE TypeOK'
<1>1. cfg \in Configs /\ UNCHANGED <<cfg, kernelOK>>
  BY DEF TypeOK, Submit, inputs
<1>2. submitted \in Nat /\ submitted < NumCtas /\ NumCtas \in Nat
  BY <1>1, RunNumbers DEF TypeOK, Submit
<1>3. submitted \in Ctas /\ submitted' \in 0 .. NumCtas
  BY <1>2 DEF Submit, Ctas
<1>4. q' \in [Queues -> Seq(Ctas)]
  BY <1>1, <1>2, <1>3, QueueTypes DEF Submit, TypeOK
<1> QED BY <1>1, <1>3, <1>4, RunFixed DEF TypeOK, Submit, ctaVars

\* The CTA that a worker takes from its queue.
LEMMA PopType ==
    ASSUME TypeOK, NEW s \in Sms, q[QueueFor(s)] # <<>>
    PROVE  /\ QueueFor(s) \in Queues /\ q[QueueFor(s)] \in Seq(Ctas)
           /\ Head(q[QueueFor(s)]) \in Ctas /\ Tail(q[QueueFor(s)]) \in Seq(Ctas)
BY QueueTypes DEF TypeOK

\* The warp scheduler's cursor stays on a warp.
LEMMA CursorType ==
    ASSUME cfg \in Configs, NEW w \in Warps
    PROVE  CursorAfter(w) \in Warps
<1>1. NumWarps \in Nat \ {0} /\ w \in Nat
  BY RunNumbers DEF Warps
<1>2. (w + 1) % NumWarps \in 0 .. NumWarps - 1
  BY <1>1
<1> QED BY <1>2 DEF CursorAfter, Warps

LEMMA LeaveCtaType ==
    ASSUME TypeOK, UNCHANGED cfg, NEW s \in Sms, cta[s] # NoCta, LeaveCta(s)
    PROVE  /\ cta' \in [Sms -> Ctas \cup {NoCta}]
           /\ finished' \in SUBSET Ctas /\ abandoned' \in SUBSET Ctas
           /\ UNCHANGED <<done, cursor, waited>>
BY DEF TypeOK, LeaveCta

\* How a pick ends: which warp it was, and where the worker goes.
LEMMA IssueEnds ==
    ASSUME NEW s \in Sms, Issue(s)
    PROVE  \E w \in Warps, l \in {"count", "peek", "fault"} :
             /\ Picks(s, w) /\ Goto(s, l)
             /\ cursor' = [cursor EXCEPT ![s] = CursorAfter(w)]
             /\ waited' = [waited EXCEPT ![s] =
                             [v \in Warps |-> IF v = w \/ v \in done[s] THEN 0 ELSE @[v] + 1]]
             /\ \/ done' = done
                \/ done' = [done EXCEPT ![s] = @ \cup {w}]
<1>1. PICK w \in Warps, o \in {"executed", "done", "fault"} :
         /\ Picks(s, w)
         /\ cursor' = [cursor EXCEPT ![s] = CursorAfter(w)]
         /\ waited' = [waited EXCEPT ![s] =
                         [v \in Warps |-> IF v = w \/ v \in done[s] THEN 0 ELSE @[v] + 1]]
         /\ done' = IF o = "done" THEN [done EXCEPT ![s] = @ \cup {w}] ELSE done
         /\ Goto(s, CASE o = "executed" -> "count"
                      [] o = "done"     -> "peek"
                      [] o = "fault"    -> "fault")
  BY Zenon DEF Issue
<1>2. \E l \in {"count", "peek", "fault"} : Goto(s, l)
  BY <1>1, Zenon
<1> QED BY <1>1, <1>2, Zenon

LEMMA IssueType ==
    ASSUME TypeOK, NEW s \in Sms, Issue(s) PROVE TypeOK'
<1>1. cfg \in Configs /\ UNCHANGED <<cfg, kernelOK>>
  BY DEF TypeOK, Issue, inputs
<1>2. PICK w \in Warps, l \in {"count", "peek", "fault"} :
         /\ Picks(s, w) /\ Goto(s, l)
         /\ cursor' = [cursor EXCEPT ![s] = CursorAfter(w)]
         /\ waited' = [waited EXCEPT ![s] =
                         [v \in Warps |-> IF v = w \/ v \in done[s] THEN 0 ELSE @[v] + 1]]
         /\ \/ done' = done
            \/ done' = [done EXCEPT ![s] = @ \cup {w}]
  BY IssueEnds
<1>3. cursor' \in [Sms -> Warps]
  BY <1>1, <1>2, CursorType DEF TypeOK
<1>4. waited' \in [Sms -> [Warps -> Nat]]
  BY <1>2 DEF TypeOK
<1>5. done' \in [Sms -> SUBSET Warps]
  <2>1. done[s] \cup {w} \in SUBSET Warps
    BY DEF TypeOK
  <2> QED BY <1>2, <2>1 DEF TypeOK
<1>6. at' \in [Sms -> Places]
  BY <1>2 DEF TypeOK, Goto, Places
<1>7. UNCHANGED <<main, stop, steps, diag, cta, finished, abandoned, faulted, submitted, q, closed, mu>>
  BY DEF Issue, schedVars
<1> QED BY <1>1, <1>3, <1>4, <1>5, <1>6, <1>7, RunFixed DEF TypeOK

LEMMA WorkerType ==
    ASSUME TypeOK, PlaceOK, NEW s \in Sms, Worker(s) PROVE TypeOK'
<1>0. cfg \in Configs /\ UNCHANGED <<cfg, kernelOK>>
  <2>1. Next
    BY DEF Next
  <2> QED BY <2>1, NextFixed DEF TypeOK
<1> USE DEF Goto, Places
<1>1. CASE CheckBudget(s)
  BY <1>0, <1>1, RunFixed DEF TypeOK, CheckBudget, schedVars, ctaVars
<1>2. CASE AcquireLock(s)
  BY <1>0, <1>2, RunFixed DEF TypeOK, AcquireLock, ctaVars
<1>3. CASE AcquirePop(s)
  <2>1. CASE q[QueueFor(s)] = <<>>
    BY <1>0, <1>3, <2>1, RunFixed DEF TypeOK, AcquirePop, ctaVars
  <2>2. CASE q[QueueFor(s)] # <<>>
    <3>1. 0 \in Warps
      BY <1>0, RunNumbers DEF Warps
    <3>2. q' \in [Queues -> Seq(Ctas)] /\ cta' \in [Sms -> Ctas \cup {NoCta}]
      BY <1>3, <2>2, PopType, ZenonT(30) DEF TypeOK, AcquirePop
    <3>3. /\ done' \in [Sms -> SUBSET Warps] /\ cursor' \in [Sms -> Warps]
          /\ waited' \in [Sms -> [Warps -> Nat]] /\ at' \in [Sms -> Places]
      <4>1. [w \in Warps |-> 0] \in [Warps -> Nat] /\ {} \in SUBSET Warps
        OBVIOUS
      <4>2. done' \in [Sms -> SUBSET Warps] /\ cursor' \in [Sms -> Warps]
        BY <1>3, <2>2, <3>1, <4>1 DEF TypeOK, AcquirePop
      <4>3. waited' \in [Sms -> [Warps -> Nat]]
        BY <1>3, <2>2, <4>1 DEF TypeOK, AcquirePop
      <4>4. at' \in [Sms -> Places]
        BY <1>3, <2>2 DEF TypeOK, AcquirePop
      <4> QED BY <4>2, <4>3, <4>4
    <3> QED BY <1>0, <1>3, <2>2, <3>2, <3>3, RunFixed DEF TypeOK, AcquirePop
  <2> QED BY <2>1, <2>2
<1>4. CASE AfterCta(s)
  BY <1>0, <1>4, RunFixed DEF TypeOK, AfterCta, schedVars, ctaVars
<1>5. CASE CheckSteps(s)
  BY <1>0, <1>5, RunFixed DEF TypeOK, CheckSteps, schedVars, ctaVars
<1>6. CASE LeaveIdle(s)
  <2>1. cta[s] # NoCta
    BY <1>6 DEF PlaceOK, LeaveIdle, Running
  <2> QED BY <1>0, <1>6, <2>1, LeaveCtaType, RunFixed DEF TypeOK, LeaveIdle, schedVars
<1>7. CASE Issue(s)
  BY <1>7, IssueType
<1>8. CASE PeekDiag(s)
  <2>1. cta[s] # NoCta
    BY <1>8 DEF PlaceOK, PeekDiag, Running
  <2>2. CASE UNCHANGED ctaVars
    BY <1>0, <1>8, <2>2, RunFixed DEF TypeOK, PeekDiag, schedVars, ctaVars
  <2>3. CASE LeaveCta(s)
    BY <1>0, <1>8, <2>1, <2>3, LeaveCtaType, RunFixed DEF TypeOK, PeekDiag, schedVars
  <2> QED BY <1>8, <2>2, <2>3 DEF PeekDiag
<1>9. CASE CountStep(s)
  <2>1. steps' \in Nat /\ at' \in [Sms -> Places]
    BY <1>9 DEF TypeOK, CountStep
  <2>2. UNCHANGED <<main, stop, diag, faulted, submitted, q, closed, mu, ctaVars>>
    BY <1>9 DEF CountStep, schedVars
  <2> QED BY <1>0, <2>1, <2>2, RunFixed DEF TypeOK, ctaVars
<1>10. CASE ReportFault(s)
  <2>1. cta[s] \in Ctas
    BY <1>10 DEF PlaceOK, ReportFault, Running, TypeOK
  <2> QED BY <1>0, <1>10, <2>1, RunFixed DEF TypeOK, ReportFault, schedVars, ctaVars
<1>11. CASE StopAndReturn(s)
  <2>1. cta[s] # NoCta
    BY <1>11 DEF PlaceOK, StopAndReturn, Running
  <2> QED BY <1>0, <1>11, <2>1, LeaveCtaType, RunFixed DEF TypeOK, StopAndReturn, schedVars
<1> QED BY <1>1, <1>2, <1>3, <1>4, <1>5, <1>6, <1>7, <1>8, <1>9, <1>10, <1>11 DEF Worker

LEMMA TypeStep ==
    ASSUME TypeOK, PlaceOK, [Next]_vars PROVE TypeOK'
<1>1. CASE Submit
  BY <1>1, SubmitType
<1>2. CASE CloseAndLaunch
  <2>1. UNCHANGED cfg
    BY <1>2 DEF CloseAndLaunch, inputs
  <2> QED BY <1>2, <2>1, RunFixed DEF TypeOK, CloseAndLaunch, inputs, ctaVars, Places
<1>3. CASE Join
  <2>1. UNCHANGED cfg
    BY <1>3 DEF Join, inputs
  <2> QED BY <1>3, <2>1, RunFixed DEF TypeOK, Join, inputs, ctaVars, schedVars
<1>4. CASE Terminated \/ UNCHANGED vars
  <2>1. UNCHANGED cfg
    BY <1>4 DEF Terminated, vars, inputs
  <2> QED BY <1>4, <2>1, RunFixed DEF TypeOK, Terminated, vars, inputs, ctaVars, schedVars
<1>5. CASE \E s \in Sms : Worker(s)
  BY <1>5, WorkerType
<1> QED BY <1>1, <1>2, <1>3, <1>4, <1>5 DEF Next, Main

-----------------------------------------------------------------------------
(* Places, stops and faults.                                               *)

LEMMA WorkerPlace ==
    ASSUME TypeOK, PlaceOK, NEW s \in Sms, Worker(s), UNCHANGED cfg PROVE PlaceOK'
<1>1. at \in [Sms -> Places] /\ cta \in [Sms -> Ctas \cup {NoCta}]
  BY DEF TypeOK
<1>2. main # "submit" /\ main # "joined" /\ UNCHANGED <<main, submitted>>
  <2>1. at[s] \notin {"unborn", "exited"} /\ UNCHANGED <<main, submitted>>
    BY DEF Worker, CheckBudget, AcquireLock, AcquirePop, AfterCta, CheckSteps,
         LeaveIdle, Issue, PeekDiag, CountStep, ReportFault, StopAndReturn, schedVars
  <2> QED BY <2>1 DEF PlaceOK
<1> DEFINE Moves(l) == at' = [at EXCEPT ![s] = l]
           Keeps    == cta' = cta
           Leaves   == cta' = [cta EXCEPT ![s] = NoCta]
<1>3. ASSUME at[s] \in Running, \E l \in Running : Moves(l), Keeps
      PROVE  PlaceOK'
  BY <1>1, <1>2, <1>3, RunFixed DEF PlaceOK, Running
<1>4. ASSUME at[s] \notin Running, \E l \in Places \ (Running \cup {"unborn"}) : Moves(l), Keeps
      PROVE  PlaceOK'
  BY <1>1, <1>2, <1>4, RunFixed DEF PlaceOK, Running
<1>5. ASSUME at[s] \in Running, Moves("return"), Leaves
      PROVE  PlaceOK'
  BY <1>1, <1>2, <1>5, RunFixed DEF PlaceOK, Running
<1> USE DEF Goto
<1>6. CASE CheckBudget(s) \/ AcquireLock(s) \/ AfterCta(s)
  <2>1. \E l \in {"exited", "acquire", "budget", "pop"} : Moves(l)
    BY <1>6 DEF CheckBudget, AcquireLock, AfterCta
  <2> QED BY <1>4, <1>6, <2>1 DEF CheckBudget, AcquireLock, AfterCta, ctaVars, Running, Places
<1>7. CASE AcquirePop(s)
  <2>1. CASE q[QueueFor(s)] = <<>>
    BY <1>4, <1>7, <2>1 DEF AcquirePop, ctaVars, Running, Places
  <2>2. CASE q[QueueFor(s)] # <<>>
    <3>1. Head(q[QueueFor(s)]) # NoCta
      <4>1. NumCtas \in Nat
        BY RunNumbers DEF TypeOK
      <4> QED BY <2>2, <4>1, PopType DEF Ctas, NoCta
    <3>2. cta' = [cta EXCEPT ![s] = Head(q[QueueFor(s)])] /\ \E l \in Running : Moves(l)
      BY <1>7, <2>2 DEF AcquirePop, Running
    <3> QED BY <1>1, <1>2, <3>1, <3>2, RunFixed DEF PlaceOK, Running
  <2> QED BY <2>1, <2>2
<1>8. CASE CheckSteps(s) \/ CountStep(s) \/ ReportFault(s)
  BY <1>3, <1>8 DEF CheckSteps, CountStep, ReportFault, ctaVars, Running
<1>9. CASE LeaveIdle(s) \/ StopAndReturn(s)
  BY <1>5, <1>9 DEF LeaveIdle, StopAndReturn, LeaveCta, Running
<1>10. CASE Issue(s)
  <2>1. \E l \in {"count", "peek", "fault"} : Moves(l)
    BY <1>10, IssueEnds
  <2>2. Keeps /\ at[s] = "issue"
    BY <1>10 DEF Issue
  <2> QED BY <1>3, <2>1, <2>2 DEF Running
<1>11. CASE PeekDiag(s)
  BY <1>3, <1>5, <1>11 DEF PeekDiag, LeaveCta, ctaVars, Running
<1> QED BY <1>6, <1>7, <1>8, <1>9, <1>10, <1>11 DEF Worker

\* The steps of the main thread, and no step.
LEMMA MainPlace ==
    ASSUME TypeOK, PlaceOK, Main \/ Terminated \/ UNCHANGED vars PROVE PlaceOK'
<1>0. UNCHANGED cfg
  <2>1. [Next]_vars
    BY DEF Next
  <2> QED BY <2>1, NextFixed
<1>1. CASE Submit
  BY <1>0, <1>1, RunFixed DEF PlaceOK, Submit, ctaVars
<1>2. CASE CloseAndLaunch
  <2>1. \A s \in Sms : at'[s] \in {"budget", "acquire"} /\ at[s] = "unborn"
    BY <1>2 DEF PlaceOK, CloseAndLaunch
  <2> QED BY <1>0, <1>2, <2>1, RunFixed DEF PlaceOK, CloseAndLaunch, ctaVars, Running
<1>3. CASE Join
  BY <1>0, <1>3, RunFixed DEF PlaceOK, Join, ctaVars, schedVars
<1>4. CASE Terminated \/ UNCHANGED vars
  BY <1>0, <1>4, RunFixed DEF PlaceOK, Terminated, vars, ctaVars, schedVars
<1> QED BY <1>1, <1>2, <1>3, <1>4 DEF Main

LEMMA WorkerStops ==
    ASSUME TypeOK, PlaceOK, StopOK, NEW s \in Sms, Worker(s), UNCHANGED cfg PROVE StopOK'
<1>1. at \in [Sms -> Places] /\ steps \in Nat /\ MaxSteps \in Nat
  BY RunNumbers DEF TypeOK
<1> DEFINE Moves(l) == at' = [at EXCEPT ![s] = l]
           Why == diag # NoDiag \/ steps >= MaxSteps
\* A step that neither stops nor leaves.
<1>2. ASSUME \E l \in Places \ {"stop", "exited"} : Moves(l),
             UNCHANGED <<stop, diag, q>>, steps' \in {steps, steps + 1}
      PROVE  StopOK'
  <2>1. PICK l \in Places \ {"stop", "exited"} : Moves(l)
    BY <1>2
  <2>2. steps >= MaxSteps => steps' >= MaxSteps'
    BY <1>1, <1>2, RunFixed
  <2>3. \A r \in Sms : at'[r] \in {"stop", "exited"} => at'[r] = at[r]
    BY <1>1, <2>1
  <2> QED BY <1>2, <2>2, <2>3, RunFixed DEF StopOK
\* A step that requests a stop.
<1>3. ASSUME Why, \E l \in Places : Moves(l), stop' = TRUE, UNCHANGED <<steps, diag, q>>
      PROVE  StopOK'
  BY <1>1, <1>3, RunFixed DEF StopOK
<1> USE DEF Goto
<1>4. CASE CheckBudget(s)
  <2>1. CASE steps >= MaxSteps
    BY <1>3, <1>4, <2>1 DEF CheckBudget, schedVars, Places
  <2>2. CASE ~(steps >= MaxSteps)
    BY <1>2, <1>4, <2>2 DEF CheckBudget, schedVars, Places
  <2> QED BY <2>1, <2>2
<1>5. CASE AcquireLock(s)
  <2>1. (Moves("exited") /\ stop) \/ Moves("pop")
    BY <1>5 DEF AcquireLock
  <2>2. UNCHANGED <<stop, steps, diag, q>>
    BY <1>5 DEF AcquireLock
  <2> QED BY <1>1, <2>1, <2>2, RunFixed DEF StopOK
<1>6. CASE AcquirePop(s)
  <2>1. CASE q[QueueFor(s)] = <<>>
    BY <1>1, <1>6, <2>1, RunFixed DEF AcquirePop, StopOK
  <2>2. CASE q[QueueFor(s)] # <<>>
    <3>1. /\ q' = [q EXCEPT ![QueueFor(s)] = Tail(@)] /\ UNCHANGED <<stop, steps, diag>>
          /\ \E l \in {"steps", "fault"} : Moves(l)
      BY <1>6, <2>2 DEF AcquirePop
    <3>2. ASSUME NEW r \in Sms, q[QueueFor(r)] = <<>>
          PROVE  q'[QueueFor(r)] = <<>>
      BY <2>2, <3>1, <3>2, QueueTypes DEF TypeOK
    <3> QED BY <1>1, <3>1, <3>2, RunFixed DEF StopOK
  <2> QED BY <2>1, <2>2
<1>7. CASE AfterCta(s)
  BY <1>1, <1>7, RunFixed DEF AfterCta, StopOK, schedVars
<1>8. CASE CheckSteps(s)
  BY <1>1, <1>8, RunFixed DEF CheckSteps, StopOK, schedVars
<1>9. CASE LeaveIdle(s) \/ CountStep(s)
  <2>1. (Moves("return") \/ Moves("steps")) /\ UNCHANGED <<stop, diag, q>> /\ steps' \in {steps, steps + 1}
    BY <1>9 DEF LeaveIdle, CountStep, schedVars
  <2> QED BY <1>2, <2>1 DEF Places
<1>10. CASE Issue(s)
  <2>1. \E l \in {"count", "peek", "fault"} : Moves(l)
    BY <1>10, IssueEnds
  <2> QED BY <1>2, <1>10, <2>1 DEF Issue, schedVars, Places
<1>11. CASE PeekDiag(s)
  <2>1. CASE Moves("steps") /\ UNCHANGED stop
    BY <1>2, <1>11, <2>1 DEF PeekDiag, schedVars, Places
  <2>2. CASE Moves("return") /\ stop' = TRUE /\ diag # NoDiag
    BY <1>3, <1>11, <2>2 DEF PeekDiag, schedVars, Places
  <2> QED BY <1>11, <2>1, <2>2 DEF PeekDiag
<1>12. CASE ReportFault(s)
  <2>1. cta[s] # NoDiag
    BY <1>12 DEF PlaceOK, ReportFault, Running, NoDiag, NoCta
  <2> QED BY <1>1, <1>12, <2>1, RunFixed DEF ReportFault, StopOK, schedVars
<1>13. CASE StopAndReturn(s)
  BY <1>3, <1>13 DEF StopAndReturn, StopOK, schedVars, Places
<1> QED BY <1>4, <1>5, <1>6, <1>7, <1>8, <1>9, <1>10, <1>11, <1>12, <1>13 DEF Worker

LEMMA MainStops ==
    ASSUME TypeOK, PlaceOK, StopOK, Main \/ Terminated \/ UNCHANGED vars PROVE StopOK'
<1>0. UNCHANGED cfg
  <2>1. [Next]_vars
    BY DEF Next
  <2> QED BY <2>1, NextFixed
<1>1. CASE Submit
  <2>1. \A s \in Sms : at[s] = "unborn"
    BY <1>1 DEF Submit, PlaceOK
  <2> QED BY <1>0, <1>1, <2>1, RunFixed DEF StopOK, Submit
<1>2. CASE CloseAndLaunch
  <2>1. \A s \in Sms : at'[s] \in {"budget", "acquire"}
    BY <1>2 DEF CloseAndLaunch
  <2> QED BY <1>0, <1>2, <2>1, RunFixed DEF StopOK, CloseAndLaunch
<1>3. CASE Join
  BY <1>0, <1>3, RunFixed DEF StopOK, Join, schedVars
<1>4. CASE Terminated \/ UNCHANGED vars
  BY <1>0, <1>4, RunFixed DEF StopOK, Terminated, vars, schedVars
<1> QED BY <1>1, <1>2, <1>3, <1>4 DEF Main

\* Only a fault touches the diagnostic.
LEMMA FaultStep ==
    ASSUME FaultOK, [Next]_vars PROVE FaultOK'
<1>1. ASSUME NEW s \in Sms, ReportFault(s)
      PROVE  FaultOK'
  BY <1>1 DEF ReportFault, FaultOK
<1>2. ASSUME UNCHANGED <<diag, faulted>>
      PROVE  FaultOK'
  BY <1>2 DEF FaultOK
<1>3. CASE Main \/ Terminated \/ UNCHANGED vars
  BY <1>2, <1>3 DEF Main, Submit, CloseAndLaunch, Join, Terminated, vars
<1>4. ASSUME NEW s \in Sms, Worker(s), ~ReportFault(s)
      PROVE  FaultOK'
  BY <1>2, <1>4 DEF Worker, CheckBudget, AcquireLock, AcquirePop, AfterCta, CheckSteps,
       LeaveIdle, Issue, PeekDiag, CountStep, StopAndReturn
<1> QED BY <1>1, <1>3, <1>4 DEF Next

-----------------------------------------------------------------------------
(* The step budget.                                                        *)

\* How many workers there can be of any kind.
LEMMA SomeSms ==
    ASSUME NEW n \in Nat, NEW S \in SUBSET (0 .. n - 1)
    PROVE  IsFiniteSet(S) /\ Cardinality(S) \in 0 .. n
<1>1. IsFiniteSet(0 .. n - 1) /\ Cardinality(0 .. n - 1) = n
  BY FS_Interval
<1>2. IsFiniteSet(S) /\ Cardinality(S) <= n
  BY <1>1, FS_Subset
<1> QED BY <1>2, FS_CardinalityType

LEMMA BudgetStep ==
    ASSUME TypeOK, TypeOK', PlaceOK, BudgetOK, [Next]_vars PROVE BudgetOK'
<1>0. UNCHANGED cfg
  BY NextFixed
<1>1. /\ steps \in Nat /\ MaxSteps \in Nat /\ SmCount \in Nat \ {0}
      /\ IsFiniteSet(Uncounted) /\ Cardinality(Uncounted) \in 0 .. SmCount
      /\ IsFiniteSet(Uncounted') /\ Cardinality(Uncounted') \in 0 .. SmCount
      /\ MaxSteps' = MaxSteps /\ SmCount' = SmCount
  <2>1. SmCount \in Nat \ {0} /\ MaxSteps \in Nat /\ MaxSteps' = MaxSteps /\ SmCount' = SmCount
    BY <1>0, RunNumbers, RunFixed DEF TypeOK
  <2>2. Uncounted \in SUBSET (0 .. SmCount - 1) /\ Uncounted' \in SUBSET (0 .. SmCount - 1)
    BY <1>0, RunFixed DEF Uncounted, Sms
  <2> QED BY <2>1, <2>2, SomeSms DEF TypeOK
\* Nobody passes the test, nobody counts.
<1>2. ASSUME steps' = steps, Uncounted' \subseteq Uncounted
      PROVE  BudgetOK'
  <2>1. Cardinality(Uncounted') <= Cardinality(Uncounted)
    BY <1>1, <1>2, FS_Subset
  <2> QED BY <1>1, <1>2, <2>1 DEF BudgetOK
<1>3. CASE Main \/ Terminated \/ UNCHANGED vars
  <2>1. UNCHANGED steps
    BY <1>3 DEF Main, Submit, CloseAndLaunch, Join, Terminated, vars
  <2>2. Uncounted' \subseteq Uncounted
    <3>1. CASE CloseAndLaunch
      BY <1>0, <3>1, RunFixed DEF CloseAndLaunch, Uncounted
    <3>2. CASE UNCHANGED at
      BY <1>0, <3>2, RunFixed DEF Uncounted
    <3> QED BY <1>3, <3>1, <3>2 DEF Main, Submit, Join, Terminated, vars
  <2> QED BY <1>2, <2>1, <2>2
<1>4. ASSUME NEW s \in Sms, Worker(s)
      PROVE  BudgetOK'
  <2>1. at \in [Sms -> Places]
    BY DEF TypeOK
  <2> DEFINE Moves(l) == at' = [at EXCEPT ![s] = l]
  <2>2. ASSUME steps' = steps, \E l \in Places \ {"issue", "count"} : Moves(l)
        PROVE  BudgetOK'
    <3>1. Uncounted' \subseteq Uncounted
      BY <1>0, <2>1, <2>2, RunFixed DEF Uncounted
    <3> QED BY <1>2, <2>2, <3>1
  <2> USE DEF Goto, Places
  <2>3. CASE CheckBudget(s) \/ AcquireLock(s)
    BY <2>2, <2>3 DEF CheckBudget, AcquireLock
  <2>4. CASE AcquirePop(s)
    BY <2>2, <2>4 DEF AcquirePop
  <2>5. CASE AfterCta(s) \/ LeaveIdle(s) \/ PeekDiag(s) \/ ReportFault(s) \/ StopAndReturn(s)
    BY <2>2, <2>5 DEF AfterCta, LeaveIdle, PeekDiag, ReportFault, StopAndReturn
  <2>6. CASE CheckSteps(s)
    <3>1. CASE steps >= MaxSteps
      BY <2>2, <2>6, <3>1 DEF CheckSteps
    <3>2. CASE steps < MaxSteps
      BY <1>1, <2>6, <3>2 DEF CheckSteps, BudgetOK
    <3> QED BY <1>1, <3>1, <3>2
  <2>7. CASE Issue(s)
    <3>1. UNCHANGED steps /\ at[s] = "issue" /\ \E l \in {"count", "peek", "fault"} : Moves(l)
      BY <2>7, IssueEnds DEF Issue
    <3>2. Uncounted' \subseteq Uncounted
      BY <1>0, <2>1, <3>1, RunFixed DEF Uncounted
    <3> QED BY <1>2, <3>1, <3>2
  <2>8. CASE CountStep(s)
    <3>1. steps' = steps + 1 /\ at[s] = "count" /\ Moves("steps")
      BY <2>8 DEF CountStep
    <3>2. Uncounted' = Uncounted \ {s} /\ s \in Uncounted
      BY <1>0, <2>1, <3>1, RunFixed DEF Uncounted
    <3>3. Cardinality(Uncounted') = Cardinality(Uncounted) - 1
      BY <1>1, <3>2, FS_RemoveElement
    <3> QED BY <1>1, <3>1, <3>3 DEF BudgetOK
  <2> QED BY <1>4, <2>3, <2>4, <2>5, <2>6, <2>7, <2>8 DEF Worker
<1> QED BY <1>3, <1>4 DEF Next

-----------------------------------------------------------------------------
(* The queues.                                                             *)

\* Submitting a CTA adds it behind all others of its queue.
LEMMA SubmitQueues ==
    ASSUME TypeOK, OrderOK, Submit
    PROVE  /\ \A c : Queued(c)' <=> Queued(c) \/ c = submitted
           /\ OrderOK'
<1>0. UNCHANGED cfg
  BY DEF Submit, inputs
<1>1a. submitted \in Nat /\ submitted < NumCtas /\ NumCtas \in Nat
  BY RunNumbers DEF TypeOK, Submit
<1>1b. PICK n \in Nat : n = submitted
  BY <1>1a
<1>1c. PICK j \in Queues : j = QueueOf(n)
  BY QueueTypes DEF TypeOK
<1>1. n < NumCtas /\ NumCtas \in Nat /\ submitted' = n + 1
  BY <1>1a, <1>1b DEF Submit
<1>2. q \in [Queues -> Seq(Ctas)] /\ q' = [q EXCEPT ![j] = Append(@, n)]
  BY <1>1b, <1>1c DEF TypeOK, Submit
<1>3. /\ Len(q'[j]) = Len(q[j]) + 1 /\ q'[j][Len(q[j]) + 1] = n
      /\ \A k \in 1 .. Len(q[j]) : q'[j][k] = q[j][k]
      /\ \A i \in Queues : i # j => q'[i] = q[i]
      /\ \A i \in Queues : Len(q[i]) \in Nat /\ \A k \in 1 .. Len(q[i]) : q[i][k] \in Nat
  <2>1. \A i \in Queues : q[i] \in Seq(Ctas) /\ Len(q[i]) \in Nat
    BY <1>2
  <2>2. \A i \in Queues : \A k \in 1 .. Len(q[i]) : q[i][k] \in Ctas
    BY <2>1
  <2>3. \A c \in Ctas : c \in Nat
    BY <1>1 DEF Ctas
  <2>4. n \in Ctas
    BY <1>1 DEF Ctas
  <2>5. q'[j] = Append(q[j], n) /\ \A i \in Queues : i # j => q'[i] = q[i]
    BY <1>2
  <2>6. /\ Len(Append(q[j], n)) = Len(q[j]) + 1 /\ Append(q[j], n)[Len(q[j]) + 1] = n
        /\ \A k \in 1 .. Len(q[j]) : Append(q[j], n)[k] = q[j][k]
    BY <2>1, <2>4
  <2> QED BY <2>1, <2>2, <2>3, <2>5, <2>6
<1>4. \A c : Queued(c)' <=> Queued(c) \/ c = n
  <2>1. ASSUME NEW c, Queued(c)'
        PROVE  Queued(c) \/ c = n
    <3>1. PICK i \in Queues : \E k \in 1 .. Len(q'[i]) : q'[i][k] = c
      BY <1>0, <2>1, RunFixed DEF Queued
    <3>2. PICK k \in 1 .. Len(q'[i]) : q'[i][k] = c
      BY <3>1
    <3>3. CASE i = j
      <4>1. Len(q'[j]) = Len(q[j]) + 1 /\ q'[j][Len(q[j]) + 1] = n
            /\ \A a \in 1 .. Len(q[j]) : q'[j][a] = q[j][a]
        BY <1>3
      <4>2. k \in 1 .. Len(q[j]) \/ k = Len(q[j]) + 1
        BY <1>1, <3>2, <3>3, <4>1
      <4>3. CASE k \in 1 .. Len(q[j])
        BY <3>2, <3>3, <4>1, <4>3 DEF Queued
      <4> QED BY <3>2, <3>3, <4>1, <4>2, <4>3
    <3>4. CASE i # j
      BY <1>3, <3>2, <3>4 DEF Queued
    <3> QED BY <3>3, <3>4
  <2>2. ASSUME NEW c, Queued(c)
        PROVE  Queued(c)'
    <3>1. PICK i \in Queues : \E k \in 1 .. Len(q[i]) : q[i][k] = c
      BY <2>2 DEF Queued
    <3>2. PICK k \in 1 .. Len(q[i]) : q[i][k] = c
      BY <3>1
    <3>3. k \in 1 .. Len(q'[i]) /\ q'[i][k] = c
      BY <1>3, <3>2
    <3> QED BY <1>0, <3>3, RunFixed DEF Queued
  <2>3. Queued(n)'
    BY <1>0, <1>1, <1>3, RunFixed DEF Queued
  <2> QED BY <2>1, <2>2, <2>3
<1>5. ASSUME NEW i \in Queues
      PROVE  /\ Len(q'[i]) <= n + 1
             /\ \A k \in 1 .. Len(q'[i]) : q'[i][k] < n + 1 /\ QueueOf(q'[i][k]) = i
             /\ \A a, b \in 1 .. Len(q'[i]) : a < b => q'[i][a] < q'[i][b]
  <2>1. CASE i # j
    BY <1>1, <1>1b, <1>3, <2>1 DEF OrderOK
  <2>2. CASE i = j
    <3>1. Len(q[j]) <= n /\ \A k \in 1 .. Len(q[j]) : q[j][k] < n /\ QueueOf(q[j][k]) = j
      BY <1>1b DEF OrderOK
    <3>2. \A a, b \in 1 .. Len(q[j]) : a < b => q[j][a] < q[j][b]
      BY <1>1 DEF OrderOK
    <3>3. QueueOf(n) = j
      BY <1>1c
    <3>4. \A k \in 1 .. Len(q'[j]) :
            \/ k \in 1 .. Len(q[j]) /\ q'[j][k] = q[j][k]
            \/ k = Len(q[j]) + 1 /\ q'[j][k] = n
      BY <1>3
    <3>5. Len(q'[j]) <= n + 1
      BY <1>3, <3>1
    <3>6. ASSUME NEW k \in 1 .. Len(q'[j])
          PROVE  q'[j][k] < n + 1 /\ QueueOf(q'[j][k]) = j
      <4>1. CASE k \in 1 .. Len(q[j]) /\ q'[j][k] = q[j][k]
        BY <1>3, <3>1, <4>1
      <4>2. CASE k = Len(q[j]) + 1 /\ q'[j][k] = n
        BY <3>3, <4>2
      <4> QED BY <3>4, <4>1, <4>2
    <3>7. ASSUME NEW a \in 1 .. Len(q'[j]), NEW b \in 1 .. Len(q'[j]), a < b
          PROVE  q'[j][a] < q'[j][b]
      <4>1. a \in 1 .. Len(q[j]) /\ q'[j][a] = q[j][a]
        BY <1>3, <3>7
      <4> QED BY <1>3, <3>1, <3>2, <3>4, <3>7, <4>1
    <3> QED BY <2>2, <3>5, <3>6, <3>7
  <2> QED BY <2>1, <2>2
<1>6. ASSUME NEW i \in Queues, NEW a \in 1 .. Len(q'[i]), NEW c \in 0 .. n,
             QueueOf(c) = i, ~Queued(c), c # n
      PROVE  c < q'[i][a]
  <2>1. c \in 0 .. n - 1
    BY <1>1, <1>6
  <2>2. \A k \in 1 .. Len(q[i]) : c < q[i][k]
    BY <1>1b, <1>6, <2>1 DEF OrderOK
  <2>3. CASE i # j
    BY <1>3, <2>2, <2>3
  <2>4. CASE i = j
    BY <1>1, <1>3, <2>1, <2>2, <2>4
  <2> QED BY <2>3, <2>4
<1>7. OrderOK'
  <2>1. 0 .. submitted' - 1 = 0 .. n
    BY <1>1
  <2> QED BY <1>0, <1>1, <1>4, <1>5, <1>6, <2>1, RunFixed DEF OrderOK
<1> QED BY <1>1b, <1>4, <1>7

\* Taking the first CTA of a queue takes it out of the queues.
LEMMA PopQueues ==
    ASSUME TypeOK, OrderOK, NEW s \in Sms, q[QueueFor(s)] # <<>>,
           q' = [q EXCEPT ![QueueFor(s)] = Tail(@)], UNCHANGED <<cfg, submitted>>
    PROVE  /\ \A c : Queued(c)' <=> Queued(c) /\ c # Head(q[QueueFor(s)])
           /\ Queued(Head(q[QueueFor(s)])) /\ Head(q[QueueFor(s)]) < submitted
           /\ OrderOK'
<1>1. PICK j \in Queues : j = QueueFor(s)
  BY QueueTypes DEF TypeOK
<1>2. PICK h : h = Head(q[j])
  OBVIOUS
<1>3. /\ submitted \in Nat /\ NumCtas \in Nat /\ q \in [Queues -> Seq(Ctas)]
      /\ q' = [q EXCEPT ![j] = Tail(@)] /\ q[j] # <<>>
  BY <1>1, RunNumbers DEF TypeOK
<1>4. /\ \A i \in Queues : q[i] \in Seq(Ctas) /\ Len(q[i]) \in Nat
      /\ \A i \in Queues : \A k \in 1 .. Len(q[i]) : q[i][k] \in Nat
  <2>1. \A c \in Ctas : c \in Nat
    BY <1>3 DEF Ctas
  <2>2. \A i \in Queues : q[i] \in Seq(Ctas)
    BY <1>3
  <2> QED BY <2>1, <2>2
<1>5. /\ Len(q[j]) >= 1 /\ h = q[j][1] /\ Len(q'[j]) = Len(q[j]) - 1
      /\ \A k \in 1 .. Len(q[j]) - 1 : q'[j][k] = q[j][k + 1]
      /\ \A i \in Queues : i # j => q'[i] = q[i]
  <2>1. q'[j] = Tail(q[j]) /\ \A i \in Queues : i # j => q'[i] = q[i]
    BY <1>3
  <2> QED BY <1>2, <1>3, <1>4, <2>1
<1>6. /\ \A i \in Queues : \A k \in 1 .. Len(q[i]) : q[i][k] < submitted /\ QueueOf(q[i][k]) = i
      /\ \A i \in Queues : \A a, b \in 1 .. Len(q[i]) : a < b => q[i][a] < q[i][b]
  BY DEF OrderOK
<1>7. 1 \in 1 .. Len(q[j]) /\ Queued(h) /\ h < submitted /\ QueueOf(h) = j /\ h \in Nat
  BY <1>4, <1>5, <1>6 DEF Queued
<1>8. \A k \in 1 .. Len(q'[j]) : k + 1 \in 1 .. Len(q[j]) /\ q'[j][k] = q[j][k + 1] /\ h < q'[j][k]
  BY <1>4, <1>5, <1>6
<1>9. ASSUME NEW c PROVE Queued(c)' <=> Queued(c) /\ c # h
  <2>1. ASSUME Queued(c)' PROVE Queued(c) /\ c # h
    <3>1. PICK i \in Queues : \E k \in 1 .. Len(q'[i]) : q'[i][k] = c
      BY <2>1, RunFixed DEF Queued
    <3>2. PICK k \in 1 .. Len(q'[i]) : q'[i][k] = c
      BY <3>1
    <3>3. CASE i = j
      <4>1. k + 1 \in 1 .. Len(q[j]) /\ q[j][k + 1] = c /\ h < c
        BY <1>8, <3>2, <3>3
      <4>2. Queued(c)
        BY <4>1 DEF Queued
      <4>3. c \in Nat
        BY <1>4, <4>1
      <4> QED BY <1>7, <4>1, <4>2, <4>3
    <3>4. CASE i # j
      <4>1. k \in 1 .. Len(q[i]) /\ q[i][k] = c /\ QueueOf(c) = i
        BY <1>5, <1>6, <3>2, <3>4
      <4> QED BY <1>7, <3>4, <4>1 DEF Queued
    <3> QED BY <3>3, <3>4
  <2>2. ASSUME Queued(c), c # h PROVE Queued(c)'
    <3>1. PICK i \in Queues : \E k \in 1 .. Len(q[i]) : q[i][k] = c
      BY <2>2 DEF Queued
    <3>2. PICK k \in 1 .. Len(q[i]) : q[i][k] = c
      BY <3>1
    <3>3. \E m \in 1 .. Len(q'[i]) : q'[i][m] = c
      <4>1. CASE i = j
        <5>1. k # 1
          BY <1>5, <2>2, <3>2, <4>1
        <5>2. k - 1 \in 1 .. Len(q[j]) - 1 /\ q'[j][k - 1] = q[j][(k - 1) + 1] /\ (k - 1) + 1 = k
          BY <1>4, <1>5, <3>2, <4>1, <5>1
        <5> QED BY <1>5, <3>2, <4>1, <5>2
      <4>2. CASE i # j
        BY <1>5, <3>2, <4>2
      <4> QED BY <4>1, <4>2
    <3> QED BY <3>3, RunFixed DEF Queued
  <2> QED BY <2>1, <2>2
<1>10. ASSUME NEW i \in Queues
       PROVE  /\ Len(q'[i]) <= submitted
              /\ \A k \in 1 .. Len(q'[i]) : q'[i][k] < submitted /\ QueueOf(q'[i][k]) = i
              /\ \A a, b \in 1 .. Len(q'[i]) : a < b => q'[i][a] < q'[i][b]
              /\ \A a \in 1 .. Len(q'[i]), c \in 0 .. submitted - 1 :
                   QueueOf(c) = i /\ ~(Queued(c) /\ c # h) => c < q'[i][a]
  <2>0. /\ Len(q[i]) <= submitted
        /\ \A a \in 1 .. Len(q[i]), c \in 0 .. submitted - 1 : QueueOf(c) = i /\ ~Queued(c) => c < q[i][a]
    BY DEF OrderOK
  <2>1. CASE i # j
    BY <1>5, <1>6, <1>7, <2>0, <2>1
  <2>2. CASE i = j
    <3>1. Len(q'[j]) <= submitted
      BY <1>3, <1>4, <1>5, <2>0, <2>2
    <3>2. ASSUME NEW k \in 1 .. Len(q'[j])
          PROVE  q'[j][k] < submitted /\ QueueOf(q'[j][k]) = j
      BY <1>6, <1>8
    <3>3. ASSUME NEW a \in 1 .. Len(q'[j]), NEW b \in 1 .. Len(q'[j]), a < b
          PROVE  q'[j][a] < q'[j][b]
      <4>1. /\ a + 1 \in 1 .. Len(q[j]) /\ b + 1 \in 1 .. Len(q[j]) /\ a + 1 < b + 1
            /\ q'[j][a] = q[j][a + 1] /\ q'[j][b] = q[j][b + 1]
        BY <1>4, <1>5, <1>8, <3>3
      <4> QED BY <1>6, <4>1
    <3>4. ASSUME NEW a \in 1 .. Len(q'[j]), NEW c \in 0 .. submitted - 1,
                 QueueOf(c) = j, ~(Queued(c) /\ c # h)
          PROVE  c < q'[j][a]
      <4>1. a + 1 \in 1 .. Len(q[j]) /\ q'[j][a] = q[j][a + 1] /\ h < q'[j][a]
        BY <1>8
      <4>2. CASE ~Queued(c)
        <5>1. a + 1 \in 1 .. Len(q[i]) /\ c \in 0 .. submitted - 1 /\ QueueOf(c) = i
          BY <2>2, <3>4, <4>1
        <5>2. c < q[i][a + 1]
          BY <2>0, <4>2, <5>1
        <5> QED BY <2>2, <4>1, <5>2
      <4>3. CASE c = h
        BY <4>1, <4>3
      <4> QED BY <3>4, <4>2, <4>3
    <3> QED BY <2>2, <3>1, <3>2, <3>3, <3>4
  <2> QED BY <2>1, <2>2
<1>11. OrderOK'
  <2>1. \A i \in Queues : \A a \in 1 .. Len(q'[i]), c \in 0 .. submitted - 1 :
          QueueOf(c) = i /\ ~Queued(c)' => c < q'[i][a]
    BY <1>9, <1>10
  <2>2. \A i \in Queues :
          /\ Len(q'[i]) <= submitted
          /\ \A k \in 1 .. Len(q'[i]) : q'[i][k] < submitted /\ QueueOf(q'[i][k]) = i
          /\ \A a, b \in 1 .. Len(q'[i]) : a < b => q'[i][a] < q'[i][b]
    BY <1>10
  <2>3. Queues' = Queues /\ submitted' = submitted /\ \A c : QueueOf(c)' = QueueOf(c)
    BY RunFixed
  <2>4. \A i \in Queues' : \A k \in 1 .. Len(q'[i]) :
          q'[i][k] < submitted' /\ QueueOf(q[i][k])' = i
    <3>1. ASSUME NEW i \in Queues, NEW k \in 1 .. Len(q'[i])
          PROVE  q'[i][k] < submitted' /\ QueueOf(q[i][k])' = i
      <4>1. QueueOf(q[i][k])' = QueueOf(q'[i][k])
        BY RunFixed DEF QueueOf
      <4>2. q'[i][k] < submitted' /\ QueueOf(q'[i][k]) = i
        BY <2>2, <2>3
      <4> QED BY <4>1, <4>2
    <3> QED BY <2>3, <3>1, Zenon
  <2>5. \A i \in Queues' : \A a \in 1 .. Len(q'[i]), c \in 0 .. submitted' - 1 :
          QueueOf(c)' = i /\ ~Queued(c)' => c < q'[i][a]
    BY <2>1, <2>3
  <2>6. \A i \in Queues' :
          Len(q'[i]) <= submitted' /\ \A a, b \in 1 .. Len(q'[i]) : a < b => q'[i][a] < q'[i][b]
    BY <2>2, <2>3
  <2> QED BY <2>4, <2>5, <2>6, Zenon DEF OrderOK
<1> QED BY <1>1, <1>2, <1>7, <1>9, <1>11

\* Other steps leave the queues alone.
LEMMA QueuesKept ==
    ASSUME UNCHANGED <<cfg, q, submitted>>
    PROVE  /\ \A c : Queued(c)' <=> Queued(c)
           /\ OrderOK => OrderOK'
<1>1. \A c : Queued(c)' <=> Queued(c)
  BY RunFixed DEF Queued
<1>2. OrderOK => OrderOK'
  BY <1>1, RunFixed DEF OrderOK
<1> QED BY <1>1, <1>2

-----------------------------------------------------------------------------
(* Every CTA is in one place.                                              *)

LEMMA LeaveShares ==
    ASSUME TypeOK, ShareOK, NEW s \in Sms, cta[s] # NoCta, LeaveCta(s),
           UNCHANGED <<cfg, q, submitted>>, LiveWarps(s) # {} => stop', stop => stop'
    PROVE  ShareOK'
<1>1. PICK c \in Ctas : c = cta[s]
  BY DEF TypeOK
<1>2. cta' = [cta EXCEPT ![s] = NoCta] /\ cta \in [Sms -> Ctas \cup {NoCta}]
  BY DEF LeaveCta, TypeOK
<1>3. \/ finished' = finished \cup {c} /\ abandoned' = abandoned
      \/ abandoned' = abandoned \cup {c} /\ finished' = finished /\ stop'
  BY <1>1 DEF LeaveCta
<1>4. c # NoCta /\ c < submitted /\ ~Queued(c) /\ c \notin finished \cup abandoned
  BY <1>1 DEF ShareOK
<1>5. \A r \in Sms : cta[r] = c => r = s
  BY <1>1 DEF ShareOK
<1>6. /\ \A d : Queued(d)' <=> Queued(d)
      /\ submitted' = submitted /\ Sms' = Sms /\ Ctas' = Ctas
  BY QueuesKept, RunFixed
<1>7. \A d \in 0 .. submitted - 1 :
        Queued(d) \/ d \in finished' \/ d \in abandoned' \/ \E r \in Sms : cta'[r] = d
  <2>1. ASSUME NEW d \in 0 .. submitted - 1, NEW r \in Sms, cta[r] = d
        PROVE  d \in finished' \/ d \in abandoned' \/ cta'[r] = d
    BY <1>1, <1>2, <1>3, <2>1
  <2> QED BY <1>3, <2>1 DEF ShareOK
<1>8. \A d \in finished' \cup abandoned' : d < submitted /\ ~Queued(d)
  BY <1>3, <1>4 DEF ShareOK
<1>9. finished' \cap abandoned' = {}
  BY <1>3, <1>4 DEF ShareOK
<1>10. ASSUME NEW r \in Sms, NEW d \in Ctas, cta'[r] = d
       PROVE  /\ d < submitted /\ ~Queued(d) /\ d \notin finished' \cup abandoned'
              /\ \A t \in Sms : cta'[t] = d => t = r
  <2>0. d # NoCta
    BY RunNumbers DEF TypeOK, Ctas, NoCta
  <2>1. r # s /\ cta[r] = d /\ d # c
    BY <1>1, <1>2, <1>5, <1>10, <2>0
  <2>2. /\ d < submitted /\ ~Queued(d) /\ d \notin finished \cup abandoned
        /\ \A t \in Sms : cta[t] = d => t = r
    BY <2>1 DEF ShareOK
  <2> QED BY <1>2, <1>3, <1>10, <2>0, <2>1, <2>2
<1>11. abandoned' # {} => stop'
  BY <1>3 DEF ShareOK
<1> QED BY <1>6, <1>7, <1>8, <1>9, <1>10, <1>11 DEF ShareOK

LEMMA ShareStep ==
    ASSUME TypeOK, PlaceOK, OrderOK, ShareOK, [Next]_vars PROVE OrderOK' /\ ShareOK'
<1>0. UNCHANGED cfg
  BY NextFixed
<1>1. CASE Submit
  <2>1. /\ \A c : Queued(c)' <=> Queued(c) \/ c = submitted
        /\ OrderOK'
    BY <1>1, SubmitQueues
  <2>2. PICK n \in Nat : n = submitted
    BY RunNumbers DEF TypeOK
  <2>3. /\ submitted' = n + 1 /\ UNCHANGED <<cta, finished, abandoned, stop>>
    BY <1>1, <2>2 DEF Submit, ctaVars
  <2>4. \A c \in Ctas : c \in Nat
    BY RunNumbers DEF TypeOK, Ctas
  <2>5. finished \subseteq Nat /\ abandoned \subseteq Nat
    BY <2>4 DEF TypeOK
  <2>6. \A s \in Sms : cta[s] = NoCta
    BY <1>1 DEF PlaceOK, Submit, Running
  <2>7. \A c \in 0 .. n : Queued(c)' \/ c \in finished \/ c \in abandoned \/ \E s \in Sms : cta[s] = c
    <3>1. \A c \in 0 .. n : c \in 0 .. n - 1 \/ c = n
      BY <2>2
    <3> QED BY <2>1, <2>2, <3>1 DEF ShareOK
  <2>8. \A c \in finished \cup abandoned : c < n + 1 /\ ~Queued(c)'
    BY <2>1, <2>2, <2>5 DEF ShareOK
  <2>9. 0 .. (n + 1) - 1 = 0 .. n
    BY <2>2
  <2>10. \A s \in Sms, c \in Ctas : cta[s] # c
    BY <2>4, <2>6 DEF NoCta
  <2> QED BY <1>0, <2>1, <2>3, <2>7, <2>8, <2>9, <2>10, RunFixed DEF ShareOK
<1>2. ASSUME UNCHANGED <<q, submitted, cta, finished, abandoned>>, stop => stop'
      PROVE  OrderOK' /\ ShareOK'
  BY <1>0, <1>2, QueuesKept, RunFixed DEF ShareOK
<1>3. CASE CloseAndLaunch \/ Join \/ Terminated \/ UNCHANGED vars
  BY <1>2, <1>3 DEF CloseAndLaunch, Join, Terminated, vars, ctaVars, schedVars
<1>4. ASSUME NEW s \in Sms, AcquirePop(s), q[QueueFor(s)] # <<>>
      PROVE  OrderOK' /\ ShareOK'
  <2>1. PICK h : h = Head(q[QueueFor(s)])
    OBVIOUS
  <2>2. /\ q' = [q EXCEPT ![QueueFor(s)] = Tail(@)] /\ cta' = [cta EXCEPT ![s] = h]
        /\ UNCHANGED <<cfg, submitted, finished, abandoned, stop>>
    BY <1>0, <1>4, <2>1 DEF AcquirePop
  <2>3. /\ \A c : Queued(c)' <=> Queued(c) /\ c # h
        /\ Queued(h) /\ h < submitted /\ OrderOK'
    BY <1>4, <2>1, <2>2, PopQueues
  <2>4. cta[s] = NoCta /\ cta \in [Sms -> Ctas \cup {NoCta}]
    BY <1>4 DEF PlaceOK, AcquirePop, Running, TypeOK
  <2>5. h \in Ctas /\ h # NoCta
    <3>1. h \in Ctas
      BY <1>4, <2>1, PopType
    <3> QED BY <3>1, RunNumbers DEF TypeOK, Ctas, NoCta
  <2>6. \A r \in Sms : cta[r] # h
    BY <2>3, <2>5 DEF ShareOK
  <2>7. h \notin finished \cup abandoned
    BY <2>3 DEF ShareOK
  <2>8. \A c \in 0 .. submitted - 1 :
          Queued(c)' \/ c \in finished \/ c \in abandoned \/ \E r \in Sms : cta'[r] = c
    <3>1. \A r \in Sms : cta'[r] = IF r = s THEN h ELSE cta[r]
      BY <2>2, <2>4
    <3>2. ASSUME NEW c \in 0 .. submitted - 1, NEW r \in Sms, cta[r] = c
          PROVE  cta'[r] = c
      <4>1. c # NoCta
        BY RunNumbers DEF TypeOK, NoCta
      <4> QED BY <2>4, <3>1, <3>2, <4>1
    <3> QED BY <2>3, <3>1, <3>2 DEF ShareOK
  <2>9. ASSUME NEW r \in Sms, NEW c \in Ctas, cta'[r] = c
        PROVE  /\ c < submitted /\ ~Queued(c)' /\ c \notin finished \cup abandoned
               /\ \A t \in Sms : cta'[t] = c => t = r
    <3>1. CASE r = s
      <4>1. c = h
        BY <2>2, <2>4, <2>9, <3>1
      <4> QED BY <2>2, <2>3, <2>4, <2>6, <2>7, <3>1, <4>1
    <3>2. CASE r # s
      <4>1. c = cta[r]
        BY <2>2, <2>4, <2>9, <3>2
      <4>2. /\ c < submitted /\ ~Queued(c) /\ c \notin finished \cup abandoned
            /\ \A t \in Sms : cta[t] = c => t = r
        BY <4>1 DEF ShareOK
      <4> QED BY <2>2, <2>3, <2>4, <2>6, <3>2, <4>1, <4>2
    <3> QED BY <3>1, <3>2
  <2>10. \A c \in finished \cup abandoned : c < submitted /\ ~Queued(c)'
    BY <2>3 DEF ShareOK
  <2> QED BY <1>0, <2>2, <2>3, <2>8, <2>9, <2>10, RunFixed DEF ShareOK
<1>5. ASSUME NEW s \in Sms, Worker(s), ~(AcquirePop(s) /\ q[QueueFor(s)] # <<>>)
      PROVE  OrderOK' /\ ShareOK'
  <2>1. CASE AcquirePop(s)
    BY <1>2, <1>5, <2>1 DEF AcquirePop, ctaVars
  <2>2. CASE CheckBudget(s) \/ AcquireLock(s) \/ AfterCta(s) \/ CheckSteps(s) \/ CountStep(s) \/ ReportFault(s)
    BY <1>2, <2>2 DEF CheckBudget, AcquireLock, AfterCta, CheckSteps, CountStep, ReportFault,
         ctaVars, schedVars
  <2>3. CASE Issue(s)
    BY <1>2, <2>3 DEF Issue, schedVars
  <2>4. CASE LeaveIdle(s)
    <3>1. cta[s] # NoCta /\ UNCHANGED <<q, submitted, stop>> /\ LeaveCta(s)
      BY <2>4 DEF PlaceOK, LeaveIdle, Running, schedVars
    <3>2. LiveWarps(s) # {} => stop'
      BY <2>4 DEF LeaveIdle
    <3> QED BY <1>0, <3>1, <3>2, LeaveShares, QueuesKept
  <2>5. CASE PeekDiag(s)
    <3>1. cta[s] # NoCta /\ UNCHANGED <<q, submitted>>
      BY <2>5 DEF PlaceOK, PeekDiag, Running, schedVars
    <3>2. CASE UNCHANGED <<stop, ctaVars>>
      BY <1>2, <3>1, <3>2 DEF ctaVars
    <3>3. CASE stop' = TRUE /\ LeaveCta(s)
      BY <1>0, <3>1, <3>3, LeaveShares, QueuesKept
    <3> QED BY <2>5, <3>2, <3>3 DEF PeekDiag
  <2>6. CASE StopAndReturn(s)
    <3>1. cta[s] # NoCta /\ UNCHANGED <<q, submitted>> /\ LeaveCta(s) /\ stop' = TRUE
      BY <2>6 DEF PlaceOK, StopAndReturn, Running, schedVars
    <3> QED BY <1>0, <3>1, LeaveShares, QueuesKept
  <2> QED BY <1>5, <2>1, <2>2, <2>3, <2>4, <2>5, <2>6 DEF Worker
<1> QED BY <1>1, <1>3, <1>4, <1>5 DEF Next, Main, Worker

-----------------------------------------------------------------------------
(* The warp schedulers.                                                    *)

\* How far a warp is from the cursor, going round.
LEMMA GoingRound ==
    ASSUME NEW n \in Nat \ {0}, NEW c \in 0 .. n - 1, NEW w \in 0 .. n - 1
    PROVE  (w - c + n) % n = IF w >= c THEN w - c ELSE w - c + n
<1>1. PICK x \in 0 .. 2 * n - 1 : x = w - c + n
  OBVIOUS
<1>2. x % n = IF x < n THEN x ELSE x - n
  OBVIOUS
<1> QED BY <1>1, <1>2

LEMMA NextRound ==
    ASSUME NEW n \in Nat \ {0}, NEW w \in 0 .. n - 1
    PROVE  (w + 1) % n = IF w = n - 1 THEN 0 ELSE w + 1
<1>1. PICK x \in 0 .. 2 * n - 1 : x = w + 1
  OBVIOUS
<1>2. x % n = IF x < n THEN x ELSE x - n
  OBVIOUS
<1> QED BY <1>1, <1>2

\* A fresh warp scheduler.
LEMMA FreshPolicy ==
    ASSUME TypeOK, NEW s \in Sms, UNCHANGED cfg, done'[s] = {}, cursor'[s] = 0,
           waited'[s] = [w \in Warps |-> 0]
    PROVE  PolicyAt(s)'
<1>1. NumWarps \in Nat \ {0} /\ NumWarps' = NumWarps /\ Warps' = Warps /\ WarpPolicy' = WarpPolicy
  BY RunNumbers, RunFixed DEF TypeOK
<1>2. ASSUME NEW w \in Warps
      PROVE  waited'[s][w] + ((w - cursor'[s] + NumWarps) % NumWarps) <= NumWarps - 1
  <2>1. w \in 0 .. NumWarps - 1 /\ 0 \in 0 .. NumWarps - 1
    BY <1>1 DEF Warps
  <2>2. (w - 0 + NumWarps) % NumWarps = w - 0
    BY <1>1, <2>1, GoingRound
  <2> QED BY <1>1, <2>1, <2>2
<1> QED BY <1>1, <1>2 DEF PolicyAt, LiveWarps, Distance

\* A pick in round robin.
LEMMA RoundRobinKept ==
    ASSUME TypeOK, NEW s \in Sms, PolicyAt(s), UNCHANGED cfg,
           WarpPolicy = "round_robin_interleave_step",
           NEW w \in Warps, Picks(s, w), done[s] \subseteq done'[s],
           cursor'[s] = CursorAfter(w),
           waited'[s] = [v \in Warps |-> IF v = w \/ v \in done[s] THEN 0 ELSE waited[s][v] + 1]
    PROVE  PolicyAt(s)'
<1>1. PICK n \in Nat \ {0} : n = NumWarps
  BY RunNumbers DEF TypeOK
<1>2. NumWarps' = n /\ Warps' = Warps /\ Warps = 0 .. n - 1 /\ WarpPolicy' = WarpPolicy
  BY <1>1, RunFixed DEF Warps
<1>3. PICK c \in 0 .. n - 1 : c = cursor[s]
  BY <1>2 DEF TypeOK
<1> DEFINE D(v) == IF v >= c THEN v - c ELSE v - c + n
<1>4. \A v \in Warps : Distance(s, v) = D(v)
  BY <1>1, <1>2, <1>3, GoingRound DEF Distance
<1>5. PICK d \in 0 .. n - 1 : d = IF w = n - 1 THEN 0 ELSE w + 1
  BY <1>2
<1>6. cursor'[s] = d
  BY <1>1, <1>2, <1>5, NextRound DEF CursorAfter
<1> DEFINE E(v) == IF v >= d THEN v - d ELSE v - d + n
<1>7. \A v \in Warps : Distance(s, v)' = E(v)
  BY <1>2, <1>6, GoingRound DEF Distance
<1>8. \A v \in LiveWarps(s) : v \in Warps /\ waited[s][v] \in Nat /\ waited[s][v] + D(v) <= n - 1
  BY <1>1, <1>4 DEF PolicyAt, LiveWarps, TypeOK
<1>9. w \in LiveWarps(s) /\ \A v \in LiveWarps(s) : D(w) <= D(v)
  BY <1>4 DEF Picks, RoundRobinPick, LiveWarps
<1>10. ASSUME NEW v \in Warps, v \notin done'[s]
       PROVE  waited'[s][v] + E(v) <= n - 1
  <2>1. v \in LiveWarps(s)
    BY <1>10 DEF LiveWarps
  <2>2. CASE v = w
    BY <1>2, <1>5, <2>2
  <2>3. CASE v # w
    <3>1. waited'[s][v] = waited[s][v] + 1
      BY <2>1, <2>3 DEF LiveWarps
    <3>2. D(w) <= D(v) /\ waited[s][v] \in Nat /\ waited[s][v] + D(v) <= n - 1
      BY <1>8, <1>9, <2>1
    <3>3. E(v) + 1 <= D(v)
      <4>1. v \in 0 .. n - 1 /\ w \in 0 .. n - 1 /\ v # w
        BY <1>2, <2>3
      <4>2. CASE w = n - 1
        BY <1>5, <3>2, <4>1, <4>2
      <4>3. CASE w # n - 1
        BY <1>5, <3>2, <4>1, <4>3
      <4> QED BY <4>2, <4>3
    <3>4. D(v) \in Int /\ E(v) \in Int
      BY <1>2
    <3> QED BY <3>1, <3>2, <3>3, <3>4
  <2> QED BY <2>2, <2>3
<1> HIDE DEF E
<1>11. \A v \in LiveWarps(s)' : v \in Warps /\ v \notin done'[s]
  BY <1>2 DEF LiveWarps
<1>12. \A v \in LiveWarps(s)' : waited'[s][v] + Distance(s, v)' <= n - 1
  BY <1>7, <1>10, <1>11
<1> QED BY <1>2, <1>12 DEF PolicyAt

\* A pick in order.
LEMMA InOrderKept ==
    ASSUME TypeOK, NEW s \in Sms, PolicyAt(s), UNCHANGED cfg,
           WarpPolicy # "round_robin_interleave_step",
           NEW w \in Warps, Picks(s, w), cursor'[s] = CursorAfter(w),
           done'[s] = done[s] \/ done'[s] = done[s] \cup {w}
    PROVE  PolicyAt(s)'
<1>1. WarpPolicy = "in_order_run_to_completion"
  BY SmWorkersAssumption DEF TypeOK, WarpPolicy
<1>2. Warps \subseteq Nat /\ cursor[s] \in Nat /\ cursor[s] \in Warps /\ cursor'[s] = w
  BY <1>1, RunNumbers DEF TypeOK, Warps, CursorAfter
<1>3. w \in Warps \ done[s] /\ w >= cursor[s] /\ \A v \in Warps \ done[s] : v >= cursor[s] => w <= v
  BY <1>1 DEF Picks, InOrderPick, LiveWarps
<1>4. 0 .. cursor[s] - 1 \subseteq done[s] /\ \A v \in done[s] : 0 .. v \subseteq done[s]
  BY DEF PolicyAt
<1>5. ASSUME NEW v \in 0 .. w - 1
      PROVE  v \in done[s]
  <2>1. v \in Warps /\ v \in Nat
    BY <1>2, RunNumbers DEF Warps, TypeOK
  <2> QED BY <1>2, <1>3, <1>4, <2>1
<1>6. \A v \in done'[s] : 0 .. v \subseteq done'[s]
  <2>1. 0 .. w \subseteq done[s] \cup {w}
    BY <1>2, <1>5
  <2> QED BY <1>4, <2>1
<1>7. 0 .. cursor'[s] - 1 \subseteq done'[s]
  BY <1>2, <1>5
<1> QED BY <1>6, <1>7, RunFixed DEF PolicyAt

LEMMA PolicyStep ==
    ASSUME TypeOK, PolicyOK, [Next]_vars PROVE PolicyOK'
<1>0. UNCHANGED cfg
  BY NextFixed
\* The other workers' schedulers are their own.
<1>1. ASSUME NEW r \in Sms, done'[r] = done[r], cursor'[r] = cursor[r], waited'[r] = waited[r]
      PROVE  PolicyAt(r)'
  BY <1>0, <1>1, RunFixed DEF PolicyOK, PolicyAt, LiveWarps, Distance
<1>2. ASSUME UNCHANGED <<done, cursor, waited>>
      PROVE  PolicyOK'
  BY <1>0, <1>1, <1>2, RunFixed DEF PolicyOK
<1>3. CASE Main \/ Terminated \/ UNCHANGED vars
  BY <1>2, <1>3 DEF Main, Submit, CloseAndLaunch, Join, Terminated, vars, ctaVars
<1>4. ASSUME NEW s \in Sms, Worker(s)
      PROVE  PolicyOK'
  <2>0. /\ done \in [Sms -> SUBSET Warps] /\ cursor \in [Sms -> Warps]
        /\ waited \in [Sms -> [Warps -> Nat]]
    BY DEF TypeOK
  <2>1. CASE AcquirePop(s)
    <3>1. CASE q[QueueFor(s)] = <<>>
      BY <1>2, <2>1, <3>1 DEF AcquirePop, ctaVars
    <3>2. CASE q[QueueFor(s)] # <<>>
      <4>1. /\ done' = [done EXCEPT ![s] = {}] /\ cursor' = [cursor EXCEPT ![s] = 0]
            /\ waited' = [waited EXCEPT ![s] = [w \in Warps |-> 0]]
        BY <2>1, <3>2 DEF AcquirePop
      <4>2. PolicyAt(s)'
        BY <1>0, <2>0, <4>1, FreshPolicy
      <4>3. ASSUME NEW r \in Sms PROVE PolicyAt(r)'
        BY <1>1, <2>0, <4>1, <4>2
      <4> QED BY <1>0, <4>3, RunFixed DEF PolicyOK
    <3> QED BY <3>1, <3>2
  <2>2. CASE Issue(s)
    <3>1. PICK w \in Warps, l \in {"count", "peek", "fault"} :
             /\ Picks(s, w) /\ Goto(s, l)
             /\ cursor' = [cursor EXCEPT ![s] = CursorAfter(w)]
             /\ waited' = [waited EXCEPT ![s] =
                             [v \in Warps |-> IF v = w \/ v \in done[s] THEN 0 ELSE @[v] + 1]]
             /\ \/ done' = done
                \/ done' = [done EXCEPT ![s] = @ \cup {w}]
      BY <2>2, IssueEnds
    <3>2. /\ cursor'[s] = CursorAfter(w)
          /\ waited'[s] = [v \in Warps |-> IF v = w \/ v \in done[s] THEN 0 ELSE waited[s][v] + 1]
          /\ done'[s] = done[s] \/ done'[s] = done[s] \cup {w}
      BY <2>0, <3>1
    <3>3. PolicyAt(s)'
      <4>1. PolicyAt(s) /\ Picks(s, w) /\ done[s] \subseteq done'[s]
        BY <3>1, <3>2 DEF PolicyOK
      <4>2. CASE WarpPolicy = "round_robin_interleave_step"
        BY <1>0, <3>2, <4>1, <4>2, RoundRobinKept
      <4>3. CASE WarpPolicy # "round_robin_interleave_step"
        BY <1>0, <3>2, <4>1, <4>3, InOrderKept
      <4> QED BY <4>2, <4>3
    <3>4. ASSUME NEW r \in Sms, r # s PROVE PolicyAt(r)'
      BY <1>1, <2>0, <3>1, <3>4
    <3> QED BY <1>0, <3>3, <3>4, RunFixed DEF PolicyOK
  <2>3. CASE ~AcquirePop(s) /\ ~Issue(s)
    BY <1>2, <1>4, <2>3 DEF Worker, CheckBudget, AcquireLock, AfterCta, CheckSteps, LeaveIdle,
         PeekDiag, CountStep, ReportFault, StopAndReturn, LeaveCta, ctaVars
  <2> QED BY <2>1, <2>2, <2>3
<1> QED BY <1>3, <1>4 DEF Next

-----------------------------------------------------------------------------
(* The invariant is inductive.                                             *)

LEMMA InitIInv == Init => IInv
<1> SUFFICES ASSUME Init PROVE IInv
  OBVIOUS
<1>1. TypeOK
  BY InitType
<1>2. /\ SmCount \in Nat \ {0} /\ NumCtas \in Nat \ {0} /\ NumWarps \in Nat \ {0} /\ MaxSteps \in Nat
  BY <1>1, RunNumbers DEF TypeOK
<1>3. PlaceOK /\ StopOK /\ FaultOK
  BY DEF Init, PlaceOK, StopOK, FaultOK, Running
<1>4. BudgetOK
  <2>1. Uncounted = {}
    BY DEF Init, Uncounted
  <2>2. Cardinality({}) = 0 /\ steps = 0
    BY FS_EmptySet DEF Init
  <2> QED BY <1>2, <2>1, <2>2 DEF BudgetOK
<1>5. OrderOK
  <2>1. \A i \in Queues : q[i] = <<>> /\ Len(q[i]) = 0
    BY DEF Init
  <2> QED BY <2>1 DEF Init, OrderOK
<1>6. ShareOK
  <2>1. \A s \in Sms, c \in Ctas : cta[s] # c
    BY <1>2 DEF Init, Ctas, NoCta
  <2> QED BY <2>1 DEF Init, ShareOK
<1>7. ASSUME NEW s \in Sms PROVE PolicyAt(s)
  <2>1. done[s] = {} /\ cursor[s] = 0 /\ \A w \in Warps : waited[s][w] = 0
    BY DEF Init
  <2>2. ASSUME NEW w \in Warps PROVE waited[s][w] + Distance(s, w) <= NumWarps - 1
    <3>1. w \in 0 .. NumWarps - 1 /\ 0 \in 0 .. NumWarps - 1
      BY <1>2 DEF Warps
    <3>2. (w - 0 + NumWarps) % NumWarps = w - 0
      BY <1>2, <3>1, GoingRound
    <3> QED BY <1>2, <2>1, <3>1, <3>2 DEF Distance
  <2> QED BY <2>1, <2>2 DEF PolicyAt, LiveWarps
<1> QED BY <1>1, <1>3, <1>4, <1>5, <1>6, <1>7 DEF IInv, PolicyOK

LEMMA StepIInv == IInv /\ [Next]_vars => IInv'
<1> SUFFICES ASSUME IInv, [Next]_vars PROVE IInv'
  OBVIOUS
<1> USE DEF IInv
<1>1. TypeOK'
  BY TypeStep
<1>2. PlaceOK' /\ StopOK'
  <2>1. CASE Main \/ Terminated \/ UNCHANGED vars
    BY <2>1, MainPlace, MainStops
  <2>2. ASSUME NEW s \in Sms, Worker(s) PROVE PlaceOK' /\ StopOK'
    <3>1. UNCHANGED cfg
      BY NextFixed
    <3> QED BY <2>2, <3>1, WorkerPlace, WorkerStops
  <2> QED BY <2>1, <2>2 DEF Next
<1>3. FaultOK'
  BY FaultStep
<1>4. BudgetOK'
  BY <1>1, BudgetStep
<1>5. OrderOK' /\ ShareOK'
  BY ShareStep
<1>6. PolicyOK'
  BY PolicyStep
<1> QED BY <1>1, <1>2, <1>3, <1>4, <1>5, <1>6

(* Every reachable state of executor_run, with any number of SMs, CTAs and  *)
(* warps and any schedulers, satisfies the inductive invariant above: the   *)
(* worker loops, the shared counter, the stop flag and the ready queues     *)
(* stay consistent with one another.                                        *)
THEOREM Invariance == Spec => []IInv
BY InitIInv, StepIInv, PTL DEF Spec

(* The variables of the run keep their types: no cursor leaves the warps,   *)
(* no queue holds anything but CTAs of the grid.                           *)
THEOREM TypeCorrect == Spec => []TypeOK
<1>1. IInv => TypeOK
  BY DEF IInv
<1> QED BY <1>1, Invariance, PTL

(* However many workers race on the shared counter between the test and the *)
(* increment, max_steps is exceeded by at most one step for each other one. *)
THEOREM BudgetIsKept == Spec => []StepsWithinBudget
<1>1. IInv => StepsWithinBudget
  <2> SUFFICES ASSUME IInv PROVE StepsWithinBudget
    OBVIOUS
  <2>1. SmCount \in Nat \ {0} /\ MaxSteps \in Nat /\ steps \in Nat
    BY RunNumbers DEF IInv, TypeOK
  <2>2. Uncounted \in SUBSET (0 .. SmCount - 1)
    BY DEF Uncounted, Sms
  <2>3. Cardinality(Uncounted) \in 0 .. SmCount
    BY <2>1, <2>2, SomeSms
  <2> QED BY <2>1, <2>3 DEF IInv, BudgetOK, StepsWithinBudget
<1> QED BY <1>1, Invariance, PTL

(* A diagnostic that a worker stored is never masked by another worker.    *)
THEOREM FaultsAreReported == Spec => []FaultIsReported
<1>1. IInv => FaultIsReported
  BY DEF IInv, FaultOK, FaultIsReported
<1> QED BY <1>1, Invariance, PTL

\* Where a CTA waits.
LEMMA QueuedSomewhere ==
    ASSUME IInv, NEW c
    PROVE  QueuedAt(c) # {} <=> Queued(c)
<1>1. ASSUME NEW i \in Queues PROVE Len(q[i]) \in Nat /\ Len(q[i]) <= NumCtas /\ NumCtas \in Nat
  <2>1. Len(q[i]) \in Nat /\ Len(q[i]) <= submitted /\ submitted \in 0 .. NumCtas
    BY DEF IInv, TypeOK, OrderOK
  <2> QED BY <2>1, RunNumbers DEF IInv, TypeOK
<1>2. ASSUME Queued(c) PROVE QueuedAt(c) # {}
  <2>1. PICK i \in Queues : \E k \in 1 .. Len(q[i]) : q[i][k] = c
    BY <1>2 DEF Queued
  <2>2. PICK k \in 1 .. Len(q[i]) : q[i][k] = c
    BY <2>1
  <2>3. k \in 1 .. NumCtas /\ k <= Len(q[i])
    BY <1>1, <2>2
  <2>4. <<i, k>> \in QueuedAt(c)
    BY <2>2, <2>3 DEF QueuedAt
  <2> QED BY <2>4
<1>3. ASSUME NEW x \in QueuedAt(c) PROVE Queued(c)
  <2>1. x[1] \in Queues /\ x[2] \in 1 .. NumCtas /\ x[2] <= Len(q[x[1]]) /\ q[x[1]][x[2]] = c
    BY DEF QueuedAt
  <2>2. x[2] \in 1 .. Len(q[x[1]])
    BY <1>1, <2>1
  <2> QED BY <2>1, <2>2 DEF Queued
<1> QED BY <1>2, <1>3

(* A CTA waits at one place of one queue.                                  *)
LEMMA QueuedOnce ==
    ASSUME IInv, NEW c, NEW x \in QueuedAt(c), NEW y \in QueuedAt(c)
    PROVE  x = y
<1>1. /\ x \in Queues \X (1 .. NumCtas) /\ x[2] <= Len(q[x[1]]) /\ q[x[1]][x[2]] = c
      /\ y \in Queues \X (1 .. NumCtas) /\ y[2] <= Len(q[y[1]]) /\ q[y[1]][y[2]] = c
  BY DEF QueuedAt
<1>2. PICK i \in Queues, a \in 1 .. NumCtas : x = <<i, a>>
  BY <1>1
<1>3. PICK j \in Queues, b \in 1 .. NumCtas : y = <<j, b>>
  BY <1>1
<1>4. Len(q[i]) \in Nat /\ Len(q[j]) \in Nat /\ NumCtas \in Nat /\ Ctas \subseteq Nat
      /\ q[i] \in Seq(Ctas)
  BY RunNumbers DEF IInv, TypeOK, Ctas
<1>5. a \in 1 .. Len(q[i]) /\ q[i][a] = c /\ b \in 1 .. Len(q[j]) /\ q[j][b] = c
  BY <1>1, <1>2, <1>3, <1>4
<1>6. i = j
  BY <1>5 DEF IInv, OrderOK
<1>7. c \in Nat
  <2>1. q[i][a] \in Ctas
    BY <1>4, <1>5, ElementOfSeq
  <2> QED BY <1>4, <1>5, <2>1
<1>8. a < b => q[i][a] < q[i][b]
  BY <1>5, <1>6 DEF IInv, OrderOK
<1>9. b < a => q[i][b] < q[i][a]
  BY <1>5, <1>6 DEF IInv, OrderOK
<1>10. a = b
  BY <1>4, <1>5, <1>6, <1>7, <1>8, <1>9
<1> QED BY <1>2, <1>3, <1>6, <1>10

\* Sets with at most one element.
LEMMA AtMostOne ==
    ASSUME NEW S, \A x, y \in S : x = y
    PROVE  Cardinality(S) = IF S = {} THEN 0 ELSE 1
<1>1. CASE S = {}
  BY <1>1, FS_EmptySet
<1>2. CASE S # {}
  <2>1. PICK x \in S : S = {x}
    BY <1>2
  <2> QED BY <1>2, <2>1, FS_Singleton
<1> QED BY <1>1, <1>2

(* The CTA schedulers lose no CTA and hand out none twice, whichever       *)
(* workers acquire, stop and fault in between; a CTA is given up only when *)
(* a stop has been requested.                                              *)
THEOREM CtasAreConserved == Spec => []CtaConserved
<1>1. IInv => CtaConserved
  <2> SUFFICES ASSUME IInv PROVE CtaConserved
    OBVIOUS
  <2>1. ASSUME NEW c \in 0 .. submitted - 1
        PROVE  Cardinality(QueuedAt(c)) + Cardinality(RunningOn(c))
                 + Cardinality({c} \cap finished) + Cardinality({c} \cap abandoned) = 1
    <3>1. c \in Ctas
      BY RunNumbers DEF IInv, TypeOK, Ctas
    <3>2. Cardinality(QueuedAt(c)) = IF Queued(c) THEN 1 ELSE 0
      BY AtMostOne, QueuedOnce, QueuedSomewhere
    <3>3. Cardinality(RunningOn(c)) = IF \E s \in Sms : cta[s] = c THEN 1 ELSE 0
      <4>1. \A r, s \in RunningOn(c) : r = s
        BY <3>1 DEF RunningOn, IInv, ShareOK
      <4>2. RunningOn(c) = {} <=> ~ \E s \in Sms : cta[s] = c
        BY DEF RunningOn
      <4> QED BY <4>1, <4>2, AtMostOne
    <3>4. Cardinality({c} \cap finished) = IF c \in finished THEN 1 ELSE 0
      <4>1. \A x, y \in {c} \cap finished : x = y
        OBVIOUS
      <4> QED BY <4>1, AtMostOne
    <3>5. Cardinality({c} \cap abandoned) = IF c \in abandoned THEN 1 ELSE 0
      <4>1. \A x, y \in {c} \cap abandoned : x = y
        OBVIOUS
      <4> QED BY <4>1, AtMostOne
    <3>6. Queued(c) \/ c \in finished \/ c \in abandoned \/ \E s \in Sms : cta[s] = c
      BY DEF IInv, ShareOK
    <3>7. /\ c \in finished \cup abandoned => ~Queued(c)
          /\ ~(c \in finished /\ c \in abandoned)
          /\ (\E s \in Sms : cta[s] = c) => ~Queued(c) /\ c \notin finished \cup abandoned
      BY <3>1 DEF IInv, ShareOK
    <3> QED BY <3>2, <3>3, <3>4, <3>5, <3>6, <3>7
  <2>2. abandoned # {} => stop
    BY DEF IInv, ShareOK
  <2> QED BY <2>1, <2>2 DEF CtaConserved
<1> QED BY <1>1, Invariance, PTL

(* CTAs leave each queue in grid order, whatever the workers do.           *)
THEOREM DispatchIsOrdered == Spec => []DispatchInOrder
<1>1. IInv => DispatchInOrder
  <2> SUFFICES ASSUME IInv PROVE DispatchInOrder
    OBVIOUS
  <2>1. \A c : QueuedAt(c) = {} => ~Queued(c)
    BY QueuedSomewhere
  <2> QED BY <2>1 DEF IInv, OrderOK, DispatchInOrder
<1> QED BY <1>1, Invariance, PTL

(* A run that reports no diagnostic has run all of the grid, or was cut by *)
(* the budget: workers that leave early always have one of these reasons.  *)
THEOREM CompletedRunsAreWhole == Spec => []CompletedUnlessCut
<1>1. IInv => CompletedUnlessCut
  <2> SUFFICES ASSUME IInv, completed, ~(steps >= MaxSteps) PROVE finished = Ctas
    BY DEF CompletedUnlessCut
  <2>1. main = "joined" /\ diag = NoDiag /\ ~stop
    BY DEF completed, IInv, StopOK
  <2>2. submitted = NumCtas /\ \A s \in Sms : at[s] = "exited" /\ cta[s] = NoCta
    BY <2>1 DEF IInv, PlaceOK, Running
  <2>3. \A s \in Sms : q[QueueFor(s)] = <<>>
    BY <2>1, <2>2 DEF IInv, StopOK
  <2>4. \A i \in Queues : q[i] = <<>> /\ Len(q[i]) = 0
    BY <2>3, QueueTypes DEF IInv, TypeOK
  <2>5. \A c : ~Queued(c)
    BY <2>4 DEF Queued
  <2>6. abandoned = {}
    BY <2>1 DEF IInv, ShareOK
  <2>7. NumCtas \in Nat /\ NoCta \notin Ctas
    BY RunNumbers DEF IInv, TypeOK, Ctas, NoCta
  <2>8. \A c \in Ctas : c \in finished
    BY <2>2, <2>5, <2>6, <2>7 DEF IInv, ShareOK, Ctas
  <2> QED BY <2>8 DEF IInv, TypeOK
<1> QED BY <1>1, Invariance, PTL

(* Round robin starves no warp, and in-order scheduling passes over none,  *)
(* whichever warps finish meanwhile.                                       *)
THEOREM WarpPoliciesHold == Spec => []WarpPolicyKept
<1>1. IInv => WarpPolicyKept
  <2> SUFFICES ASSUME IInv, NEW s \in Sms
               PROVE  IF WarpPolicy = "round_robin_interleave_step"
                      THEN \A w \in LiveWarps(s) : waited[s][w] <= NumWarps - 1
                      ELSE \A w \in done[s] : 0 .. w \subseteq done[s]
    BY DEF WarpPolicyKept
  <2>1. PolicyAt(s)
    BY DEF IInv, PolicyOK
  <2>2. ASSUME WarpPolicy = "round_robin_interleave_step", NEW w \in LiveWarps(s)
        PROVE  waited[s][w] <= NumWarps - 1
    <3>1. NumWarps \in Nat \ {0} /\ w \in 0 .. NumWarps - 1 /\ cursor[s] \in 0 .. NumWarps - 1
          /\ waited[s][w] \in Nat
      BY RunNumbers DEF IInv, TypeOK, LiveWarps, Warps
    <3>2. Distance(s, w) \in Nat
      BY <3>1, GoingRound DEF Distance
    <3>3. waited[s][w] + Distance(s, w) <= NumWarps - 1
      BY <2>1, <2>2 DEF PolicyAt
    <3> QED BY <3>1, <3>2, <3>3
  <2> QED BY <2>1, <2>2 DEF PolicyAt
<1> QED BY <1>1, Invariance, PTL
=============================================================================
