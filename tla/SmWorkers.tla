------------------------------ MODULE SmWorkers ------------------------------
(***************************************************************************)
(* How SimtExecutor::run (src/src/simt/simt.cpp) shares a grid out: the    *)
(* main thread submits every CTA to the CTA scheduler                      *)
(* (src/src/runtime/cta_scheduler.cpp), one worker thread per SM acquires  *)
(* CTAs and runs each with a fresh warp scheduler                          *)
(* (src/src/simt/warp_scheduler.cpp) until its warps are done, the step    *)
(* budget is used up, or some worker asks everybody to stop.  With         *)
(* ~Parallel the main thread itself is the only SM.                        *)
(*                                                                         *)
(* A warp is abstracted to the outcomes of one pick: it executes an        *)
(* instruction, it turns out to be done, or it faults (module SimtWarp     *)
(* says when).  Each action does one access to state the threads share:    *)
(* the step counter, the stop flag, the queues (under mu_) or the          *)
(* diagnostic.                                                             *)
(***************************************************************************)
EXTENDS Integers, Sequences, FiniteSets

CONSTANTS Configs      \* the configurations and launches to run

(* A configuration, as far as run uses it: the fields of SimConfig, with   *)
(* the numbers of CTAs and of warps per CTA of the launch.                 *)
ConfigFields == {"sm_count", "parallel", "deterministic", "cta_scheduler",
                 "warp_scheduler", "max_steps", "num_ctas", "num_warps"}

ASSUME SmWorkersAssumption ==
    \A c \in Configs :
      /\ DOMAIN c = ConfigFields
      /\ {c.sm_count, c.num_ctas, c.num_warps} \subseteq Nat \ {0}
      /\ c.max_steps \in Nat
      /\ {c.parallel, c.deterministic} \subseteq BOOLEAN
      /\ c.cta_scheduler \in {"fifo", "sm_round_robin"}
      /\ c.warp_scheduler \in {"in_order_run_to_completion", "round_robin_interleave_step"}

VARIABLES cfg,       \* cfg_ and the launch
          main,      \* the thread that called run: "submit", "run" or "joined"
          submitted, \* how many CTAs it has submitted
          q,         \* the scheduler's queues
          closed,    \* closed_
          stop,      \* stop_
          mu,        \* the SM that holds mu_, or Nobody
          steps,     \* shared_steps, or res.steps
          diag,      \* the CTA whose diagnostic will be reported, or NoDiag
          kernelOK,  \* did analyze_control_flow accept the kernel?
          at,        \* where in its code each worker is
          cta,       \* the CTA each worker runs, or NoCta
          done,      \* the done warps of that CTA
          cursor,    \* current_ or next_ of its warp scheduler
          waited,    \* history: picks since each of its warps was last picked
          finished,  \* history: CTAs whose warps are all done
          abandoned, \* history: CTAs whose run was cut short
          faulted    \* history: CTAs that met a diagnostic

inputs    == <<cfg, kernelOK>>
schedVars == <<submitted, q, closed, mu>>
ctaVars   == <<cta, done, cursor, waited, finished, abandoned>>
vars      == <<inputs, main, schedVars, stop, steps, diag, at, ctaVars, faulted>>

Nobody == -1
NoCta  == -1
NoDiag == -1

(* Baseline deterministic mode forces the single-threaded behaviour.       *)
Parallel == cfg.parallel /\ ~cfg.deterministic /\ cfg.sm_count > 1
SmCount  == IF Parallel THEN cfg.sm_count ELSE 1

NumCtas    == cfg.num_ctas
NumWarps   == cfg.num_warps
MaxSteps   == cfg.max_steps
CtaPolicy  == cfg.cta_scheduler
WarpPolicy == cfg.warp_scheduler

Sms   == 0 .. SmCount - 1
Ctas  == 0 .. NumCtas - 1
Warps == 0 .. NumWarps - 1

\* The SMs of some configuration.
AllSms == UNION {0 .. c.sm_count - 1 : c \in Configs}

-----------------------------------------------------------------------------
(* The CTA scheduler's queues and the warp schedulers' pick_next.          *)

Queues == IF CtaPolicy = "fifo" THEN {0} ELSE Sms

\* The queue a CTA is submitted to, and the one an SM acquires from.
QueueOf(c)  == IF CtaPolicy = "fifo" THEN 0 ELSE c % SmCount
QueueFor(s) == IF CtaPolicy = "fifo" THEN 0 ELSE s

LiveWarps(s) == Warps \ done[s]

\* Mutant: the scan runs down from the last warp.
InOrderPickLast(s, w) == \A v \in LiveWarps(s) : w >= v

\* The live warp pick_next returns.
InOrderPick(s, w) ==
    /\ w >= cursor[s]
    /\ \A v \in LiveWarps(s) : v >= cursor[s] => w <= v

Distance(s, w) == (w - cursor[s] + NumWarps) % NumWarps

RoundRobinPick(s, w) == \A v \in LiveWarps(s) : Distance(s, w) <= Distance(s, v)

Picks(s, w) ==
    /\ w \in LiveWarps(s)
    /\ IF WarpPolicy = "in_order_run_to_completion"
       THEN InOrderPick(s, w) ELSE RoundRobinPick(s, w)

\* Mutant: next_ is not wrapped.
CursorUnwrapped(w) == IF WarpPolicy = "in_order_run_to_completion" THEN w ELSE w + 1

CursorAfter(w) ==
    IF WarpPolicy = "in_order_run_to_completion" THEN w ELSE (w + 1) % NumWarps

-----------------------------------------------------------------------------
Init ==
    /\ cfg \in Configs
    /\ main = "submit" /\ submitted = 0
    /\ q = [i \in Queues |-> <<>>]
    /\ closed = FALSE /\ stop = FALSE /\ mu = Nobody
    /\ steps = 0 /\ diag = NoDiag
    /\ kernelOK \in BOOLEAN
    /\ at = [s \in Sms |-> "unborn"]
    /\ cta = [s \in Sms |-> NoCta]
    /\ done = [s \in Sms |-> {}]
    /\ cursor = [s \in Sms |-> 0]
    /\ waited = [s \in Sms |-> [w \in Warps |-> 0]]
    /\ finished = {} /\ abandoned = {} /\ faulted = {}

(* The main thread.                                                        *)

\* Mutant: the CTA is queued at the front.
SubmitFront ==
    /\ main = "submit" /\ submitted < NumCtas
    /\ q' = [q EXCEPT ![QueueOf(submitted)] = <<submitted>> \o @]
    /\ submitted' = submitted + 1
    /\ UNCHANGED <<main, closed, mu, stop, steps, diag, inputs, at, faulted>>
    /\ UNCHANGED ctaVars

Submit ==
    /\ main = "submit" /\ submitted < NumCtas
    /\ q' = [q EXCEPT ![QueueOf(submitted)] = Append(@, submitted)]
    /\ submitted' = submitted + 1
    /\ UNCHANGED <<main, closed, mu, stop, steps, diag, inputs, at, faulted>>
    /\ UNCHANGED ctaVars

\* close(), and the worker threads are created (a serial run goes straight
\* to its acquire loop).
CloseAndLaunch ==
    /\ main = "submit" /\ submitted = NumCtas
    /\ closed' = TRUE
    /\ main' = "run"
    /\ at' = [s \in Sms |-> IF Parallel THEN "budget" ELSE "acquire"]
    /\ UNCHANGED <<submitted, q, mu, stop, steps, diag, inputs, faulted>>
    /\ UNCHANGED ctaVars

\* All workers have returned; the result is read off.
Join ==
    /\ main = "run" /\ \A s \in Sms : at[s] = "exited"
    /\ main' = "joined"
    /\ UNCHANGED <<stop, steps, diag, inputs, at, faulted>>
    /\ UNCHANGED schedVars /\ UNCHANGED ctaVars

completed == main = "joined" /\ diag = NoDiag

-----------------------------------------------------------------------------
(* A worker between two CTAs.                                              *)

Goto(s, l) == at' = [at EXCEPT ![s] = l]

\* The check at the head of the worker loop.
CheckBudget(s) ==
    /\ at[s] = "budget"
    /\ IF steps >= MaxSteps
       THEN stop' = TRUE /\ Goto(s, "exited")
       ELSE UNCHANGED stop /\ Goto(s, "acquire")
    /\ UNCHANGED <<main, steps, diag, inputs, faulted>>
    /\ UNCHANGED schedVars /\ UNCHANGED ctaVars

\* acquire: lock mu_, wait, test stop_ ...
AcquireLock(s) ==
    /\ at[s] = "acquire"
    /\ mu = Nobody
    /\ stop \/ q[QueueFor(s)] # <<>> \/ closed
    /\ IF stop THEN Goto(s, "exited") /\ UNCHANGED mu
               ELSE Goto(s, "pop") /\ mu' = s
    /\ UNCHANGED <<main, submitted, q, closed, stop, steps, diag, inputs, faulted>>
    /\ UNCHANGED ctaVars

\* Mutant: stop_ is tested again after the CTA is popped, which loses it.
AcquirePopDrops(s) ==
    /\ at[s] = "pop"
    /\ mu' = Nobody
    /\ IF q[QueueFor(s)] = <<>>
       THEN Goto(s, "exited") /\ UNCHANGED <<q, ctaVars>>
       ELSE /\ q' = [q EXCEPT ![QueueFor(s)] = Tail(@)]
            /\ IF stop
               THEN Goto(s, "exited") /\ UNCHANGED ctaVars
               ELSE /\ cta' = [cta EXCEPT ![s] = Head(q[QueueFor(s)])]
                    /\ done' = [done EXCEPT ![s] = {}]
                    /\ cursor' = [cursor EXCEPT ![s] = 0]
                    /\ waited' = [waited EXCEPT ![s] = [w \in Warps |-> 0]]
                    /\ Goto(s, IF kernelOK THEN "steps" ELSE "fault")
                    /\ UNCHANGED <<finished, abandoned>>
    /\ UNCHANGED <<main, submitted, closed, stop, steps, diag, inputs, faulted>>

\* ... and take the first CTA, if there is one.  The CTA starts with fresh
\* warps and a fresh warp scheduler; the kernel is analysed again.
AcquirePop(s) ==
    /\ at[s] = "pop"
    /\ mu' = Nobody
    /\ IF q[QueueFor(s)] = <<>>
       THEN Goto(s, "exited") /\ UNCHANGED <<q, ctaVars>>
       ELSE /\ q' = [q EXCEPT ![QueueFor(s)] = Tail(@)]
            /\ cta' = [cta EXCEPT ![s] = Head(q[QueueFor(s)])]
            /\ done' = [done EXCEPT ![s] = {}]
            /\ cursor' = [cursor EXCEPT ![s] = 0]
            /\ waited' = [waited EXCEPT ![s] = [w \in Warps |-> 0]]
            /\ Goto(s, IF kernelOK THEN "steps" ELSE "fault")
            /\ UNCHANGED <<finished, abandoned>>
    /\ UNCHANGED <<main, submitted, closed, stop, steps, diag, inputs, faulted>>

\* run_one_cta has returned.
AfterCta(s) ==
    /\ at[s] = "return"
    /\ Goto(s, IF Parallel THEN IF stop THEN "exited" ELSE "budget"
               ELSE IF diag # NoDiag THEN "exited" ELSE "acquire")
    /\ UNCHANGED <<main, stop, steps, diag, inputs, faulted>>
    /\ UNCHANGED schedVars /\ UNCHANGED ctaVars

-----------------------------------------------------------------------------
(* run_one_cta.                                                            *)

\* The CTA's run ends.
LeaveCta(s) ==
    /\ IF LiveWarps(s) = {}
       THEN finished' = finished \cup {cta[s]} /\ UNCHANGED abandoned
       ELSE abandoned' = abandoned \cup {cta[s]} /\ UNCHANGED finished
    /\ cta' = [cta EXCEPT ![s] = NoCta]
    /\ UNCHANGED <<done, cursor, waited>>

\* Mutant: the budget is exceeded by one.
CheckStepsLate(s) ==
    /\ at[s] = "steps"
    /\ Goto(s, IF steps > MaxSteps THEN "stop" ELSE "issue")
    /\ UNCHANGED <<main, stop, steps, diag, inputs, faulted>>
    /\ UNCHANGED schedVars /\ UNCHANGED ctaVars

\* should_stop_for_steps.
CheckSteps(s) ==
    /\ at[s] = "steps"
    /\ Goto(s, IF steps >= MaxSteps THEN "stop" ELSE "issue")
    /\ UNCHANGED <<main, stop, steps, diag, inputs, faulted>>
    /\ UNCHANGED schedVars /\ UNCHANGED ctaVars

\* stop_requested, or no warp left to pick.
LeaveIdle(s) ==
    /\ at[s] = "issue"
    /\ stop \/ LiveWarps(s) = {}
    /\ LeaveCta(s)
    /\ Goto(s, "return")
    /\ UNCHANGED <<main, stop, steps, diag, inputs, faulted>>
    /\ UNCHANGED schedVars

\* pick_next chooses w; normalize_stack and the instruction it selects are
\* local to the worker, and end in one of three ways.
Issue(s) ==
    /\ at[s] = "issue"
    /\ ~stop
    /\ \E w \in Warps, outcome \in {"executed", "done", "fault"} :
         /\ Picks(s, w)
         /\ cursor' = [cursor EXCEPT ![s] = CursorAfter(w)]
         /\ waited' = [waited EXCEPT ![s] =
                         [v \in Warps |-> IF v = w \/ v \in done[s] THEN 0 ELSE @[v] + 1]]
         /\ done' = IF outcome = "done" THEN [done EXCEPT ![s] = @ \cup {w}] ELSE done
         /\ Goto(s, CASE outcome = "executed" -> "count"
                      [] outcome = "done"     -> "peek"
                      [] outcome = "fault"    -> "fault")
    /\ UNCHANGED <<main, stop, steps, diag, inputs, faulted, cta, finished, abandoned>>
    /\ UNCHANGED schedVars

\* Mutant: a warp that is done is taken for a failed one.
PeekDiagAlways(s) ==
    /\ at[s] = "peek"
    /\ stop' = TRUE
    /\ LeaveCta(s)
    /\ Goto(s, "return")
    /\ UNCHANGED <<main, steps, diag, inputs, faulted>>
    /\ UNCHANGED schedVars

\* A warp was done: has anybody reported a diagnostic?  The workers read it
\* without diag_mu, a data race, so a diagnostic may be seen or missed.
PeekDiag(s) ==
    /\ at[s] = "peek"
    /\ \/ /\ diag = NoDiag \/ Parallel
          /\ Goto(s, "steps")
          /\ UNCHANGED <<stop, ctaVars>>
       \/ /\ diag # NoDiag
          /\ stop' = TRUE
          /\ LeaveCta(s)
          /\ Goto(s, "return")
    /\ UNCHANGED <<main, steps, diag, inputs, faulted>>
    /\ UNCHANGED schedVars

\* Mutant: the step is not counted.
CountNothing(s) ==
    /\ at[s] = "count"
    /\ Goto(s, "steps")
    /\ UNCHANGED <<main, stop, steps, diag, inputs, faulted>>
    /\ UNCHANGED schedVars /\ UNCHANGED ctaVars

\* An instruction was committed.
CountStep(s) ==
    /\ at[s] = "count"
    /\ steps' = steps + 1
    /\ Goto(s, "steps")
    /\ UNCHANGED <<main, stop, diag, inputs, faulted>>
    /\ UNCHANGED schedVars /\ UNCHANGED ctaVars

\* Mutant: the diagnostic is dropped when a stop was already requested.
ReportFaultUnlessStopping(s) ==
    /\ at[s] = "fault"
    /\ diag' = IF stop THEN diag ELSE cta[s]
    /\ faulted' = faulted \cup {cta[s]}
    /\ Goto(s, "stop")
    /\ UNCHANGED <<main, stop, steps, inputs>>
    /\ UNCHANGED schedVars /\ UNCHANGED ctaVars

\* A diagnostic is stored under diag_mu; the last one stays.
ReportFault(s) ==
    /\ at[s] = "fault"
    /\ diag' = cta[s]
    /\ faulted' = faulted \cup {cta[s]}
    /\ Goto(s, "stop")
    /\ UNCHANGED <<main, stop, steps, inputs>>
    /\ UNCHANGED schedVars /\ UNCHANGED ctaVars

\* request_stop on the way out of run_one_cta.
StopAndReturn(s) ==
    /\ at[s] = "stop"
    /\ stop' = TRUE
    /\ LeaveCta(s)
    /\ Goto(s, "return")
    /\ UNCHANGED <<main, steps, diag, inputs, faulted>>
    /\ UNCHANGED schedVars

-----------------------------------------------------------------------------
Worker(s) == \/ CheckBudget(s) \/ AcquireLock(s) \/ AcquirePop(s) \/ AfterCta(s)
             \/ CheckSteps(s) \/ LeaveIdle(s) \/ Issue(s) \/ PeekDiag(s)
             \/ CountStep(s) \/ ReportFault(s) \/ StopAndReturn(s)

Main == Submit \/ CloseAndLaunch \/ Join

Terminated == main = "joined" /\ UNCHANGED vars

Next == Main \/ (\E s \in Sms : Worker(s)) \/ Terminated

Spec == Init /\ [][Next]_vars

\* Every thread runs on; std::mutex alone does not promise that a waiting
\* thread gets it, but here a worker takes it only a bounded number of times.
FairSpec == Spec /\ WF_vars(Main) /\ \A s \in AllSms : WF_vars(s \in Sms /\ Worker(s))

-----------------------------------------------------------------------------
(* Properties.                                                             *)

Places == {"unborn", "budget", "acquire", "pop", "return", "steps", "issue",
           "peek", "count", "fault", "stop", "exited"}

(* Every variable of the run keeps its type.                               *)
TypeOK ==
    /\ cfg \in Configs
    /\ main \in {"submit", "run", "joined"}
    /\ submitted \in 0 .. NumCtas
    /\ q \in [Queues -> Seq(Ctas)]
    /\ closed \in BOOLEAN /\ stop \in BOOLEAN /\ kernelOK \in BOOLEAN
    /\ mu \in Sms \cup {Nobody}
    /\ steps \in Nat
    /\ diag \in Ctas \cup {NoDiag}
    /\ at \in [Sms -> Places]
    /\ cta \in [Sms -> Ctas \cup {NoCta}]
    /\ done \in [Sms -> SUBSET Warps]
    /\ cursor \in [Sms -> Warps]
    /\ waited \in [Sms -> [Warps -> Nat]]
    /\ finished \in SUBSET Ctas /\ abandoned \in SUBSET Ctas /\ faulted \in SUBSET Ctas

\* Where a CTA can be.
QueuedAt(c)  == {x \in Queues \X (1 .. NumCtas) : x[2] <= Len(q[x[1]]) /\ q[x[1]][x[2]] = c}
RunningOn(c) == {s \in Sms : cta[s] = c}

(* The schedulers hand out every CTA once: a submitted CTA waits in one    *)
(* queue, runs on one SM, has finished or was abandoned, never two of      *)
(* these, and it is abandoned only on the way to a stop.                   *)
CtaConserved ==
    /\ \A c \in 0 .. submitted - 1 :
         Cardinality(QueuedAt(c)) + Cardinality(RunningOn(c))
           + Cardinality({c} \cap finished) + Cardinality({c} \cap abandoned) = 1
    /\ abandoned # {} => stop

(* CTAs leave a queue in grid order, whatever the interleaving of the      *)
(* workers: all that still wait in a queue come after all that left it.    *)
DispatchInOrder ==
    \A i \in Queues :
      /\ \A a, b \in 1 .. Len(q[i]) : a < b => q[i][a] < q[i][b]
      /\ \A a \in 1 .. Len(q[i]), c \in 0 .. submitted - 1 :
           QueueOf(c) = i /\ QueuedAt(c) = {} => c < q[i][a]

(* The budget is tested before each instruction and counted after it, so   *)
(* each of the other workers can exceed cfg_.max_steps by one.             *)
StepsWithinBudget == steps <= MaxSteps + SmCount - 1

(* A run reported as completed has run every CTA to its end, unless the    *)
(* step budget cut it short.                                               *)
CompletedUnlessCut == completed => finished = Ctas \/ steps >= MaxSteps

(* A fault is never masked by what the other workers do: if a CTA met a    *)
(* diagnostic the run reports one, and it is that of a CTA that met one.   *)
FaultIsReported ==
    main = "joined" => IF faulted = {} THEN diag = NoDiag ELSE diag \in faulted

(* Round robin: a warp that is not done is picked again after at most one  *)
(* pick of each other warp.  In order: a warp is picked only when all      *)
(* before it are done.                                                     *)
WarpPolicyKept ==
    \A s \in Sms :
      IF WarpPolicy = "round_robin_interleave_step"
      THEN \A w \in LiveWarps(s) : waited[s][w] <= NumWarps - 1
      ELSE \A w \in done[s] : 0 .. w \subseteq done[s]

(* The run ends, even if a warp loops for ever: nobody waits for a CTA     *)
(* that never comes or for a worker that never stops.                      *)
RunEnds == <>(main = "joined")
=============================================================================
