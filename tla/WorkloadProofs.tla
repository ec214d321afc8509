--------------------------- MODULE WorkloadProofs ---------------------------
(***************************************************************************)
(* Proofs about Workload, for every number of streams and every workload.  *)
(***************************************************************************)
EXTENDS Workload, SequenceTheorems, TLAPS

\* The events recorded are those of the executed event_record commands.
SignaledOK == \A e \in Events : e \in signaled <=> Executed("event_record", e)

Left(s)    == pos[s] <= Len(prog[s])
Blocked(s) == Left(s) => prog[s][pos[s]].kind = "event_wait"
                         /\ prog[s][pos[s]].event \notin signaled

\* Until the pass makes progress, each stream it has come past is empty or
\* blocked, and any_remaining says whether one of them is not empty.
PassOK ==
    at = "pass" =>
      /\ outcome = "none"
      /\ progressed => any_remaining
      /\ ~progressed => /\ \A s \in 1 .. stream - 1 : Blocked(s)
                        /\ any_remaining <=> \E s \in 1 .. stream - 1 : Left(s)

\* Before the build phase nothing has run.
BuildOK == at = "build" => outcome = "none" /\ \A s \in Streams : pos[s] = 1

IInv == TypeOK /\ SignaledOK /\ WaitsFollowRecords /\ PassOK /\ BuildOK /\ DeadlockIsReal

-----------------------------------------------------------------------------
(* The commands of a workload have their types.                            *)
LEMMA CmdType ==
    ASSUME TypeOK, NEW s \in Streams
    PROVE  /\ prog[s] \in Seq(Cmds) /\ Len(prog[s]) \in Nat /\ pos[s] \in Nat \ {0}
           /\ \A i \in 1 .. Len(prog[s]) : prog[s][i].event \in Events
<1>1. prog[s] \in Seq(Cmds) /\ pos[s] \in Nat \ {0}
  BY WorkloadAssumption DEF TypeOK
<1>2. Len(prog[s]) \in Nat
  BY <1>1, LenProperties
<1>3. \A i \in 1 .. Len(prog[s]) : prog[s][i] \in Cmds
  BY <1>1, ElementOfSeq
<1>4. QED
  BY <1>1, <1>2, <1>3 DEF Cmds

(* A step that executes nothing keeps the facts about executed commands.   *)
LEMMA NothingRuns ==
    ASSUME UNCHANGED <<prog, pos, signaled>>
    PROVE  /\ \A k, e : Executed(k, e)' = Executed(k, e)
           /\ \A s : Left(s)' = Left(s) /\ Blocked(s)' = Blocked(s)
           /\ SignaledOK => SignaledOK'
           /\ WaitsFollowRecords => WaitsFollowRecords'
BY DEF Executed, Left, Blocked, SignaledOK, WaitsFollowRecords

(* Executing the front command of a stream.                                *)
LEMMA FrontRuns ==
    ASSUME TypeOK, RunCommand
    PROVE  \A k, e : Executed(k, e)' <=> Executed(k, e) \/ (Front.kind = k /\ Front.event = e)
<1>1. stream \in Streams /\ prog' = prog /\ pos' = [pos EXCEPT ![stream] = @ + 1]
      /\ pos \in [Streams -> Nat \ {0}]
  BY WorkloadAssumption DEF RunCommand, Turn, TypeOK, Streams
<1>2. \A s \in Streams : s # stream => 1 .. pos'[s] - 1 = 1 .. pos[s] - 1
  BY <1>1
<1>3. 1 .. pos'[stream] - 1 = (1 .. pos[stream] - 1) \cup {pos[stream]}
  BY <1>1
<1>4. QED
  BY <1>1, <1>2, <1>3 DEF Executed, Front

-----------------------------------------------------------------------------
(* The invariant is inductive.                                             *)

(* It holds when run_workload starts.                                      *)
LEMMA InitIInv == Init => IInv
<1> SUFFICES ASSUME Init PROVE IInv
  OBVIOUS
<1>1. TypeOK
  <2>1. \A s \in Streams : Len(prog[s]) \in Nat
    BY WorkloadAssumption, LenProperties DEF Init
  <2>2. /\ pos \in [Streams -> Nat \ {0}]
        /\ \A s \in Streams : pos[s] <= Len(prog[s]) + 1
    BY <2>1 DEF Init
  <2>3. stream \in 1 .. NumStreams + 1
    BY WorkloadAssumption DEF Init
  <2>4. QED
    BY <2>2, <2>3 DEF Init, TypeOK, Outcomes
<1>2. \A k, e : ~Executed(k, e)
  BY DEF Init, Executed
<1>3. QED
  BY <1>1, <1>2 DEF Init, IInv, SignaledOK, WaitsFollowRecords, PassOK, BuildOK, DeadlockIsReal

(* Steps that execute no command: loading, the build phase, skipping a     *)
(* stream, a failing command and the end of a pass.                        *)
LEMMA QuietStep ==
    ASSUME IInv, LoadFails \/ Build \/ SkipEmpty \/ SkipBlocked \/ CommandFails \/ EndPass
    PROVE  IInv'
<1>1. UNCHANGED <<prog, pos, signaled>>
  BY DEF LoadFails, Build, SkipEmpty, SkipBlocked, CommandFails, EndPass
<1>2. /\ \A k, e : Executed(k, e)' = Executed(k, e)
      /\ \A s : Left(s)' = Left(s) /\ Blocked(s)' = Blocked(s)
      /\ SignaledOK' /\ WaitsFollowRecords'
  BY <1>1, NothingRuns DEF IInv
<1>3. stream \in 1 .. NumStreams + 1 /\ NumStreams \in Nat
  BY WorkloadAssumption DEF IInv, TypeOK
<1>4. CASE LoadFails
  <2>1. TypeOK'
    BY <1>4, <1>1 DEF IInv, TypeOK, LoadFails, End, Outcomes
  <2>2. PassOK' /\ BuildOK' /\ DeadlockIsReal'
    BY <1>4 DEF LoadFails, End, PassOK, BuildOK, DeadlockIsReal
  <2>3. QED
    BY <1>2, <2>1, <2>2 DEF IInv
<1>5. CASE Build
  <2>1. TypeOK'
    <3>1. at' \in {"build", "pass", "ended"} /\ outcome' \in Outcomes
      BY <1>5 DEF IInv, TypeOK, Build, NewPass, End, Outcomes
    <3>2. stream' \in 1 .. NumStreams + 1
      BY <1>3, <1>5 DEF Build, NewPass
    <3>3. any_remaining' \in BOOLEAN /\ progressed' \in BOOLEAN
      BY <1>5 DEF IInv, TypeOK, Build, NewPass
    <3>4. QED
      BY <1>1, <3>1, <3>2, <3>3 DEF IInv, TypeOK
  <2>2. PassOK' /\ BuildOK' /\ DeadlockIsReal'
    BY <1>3, <1>5 DEF IInv, Build, NewPass, End, PassOK, BuildOK, DeadlockIsReal
  <2>3. QED
    BY <1>2, <2>1, <2>2 DEF IInv
<1>6. CASE SkipEmpty
  <2>1. TypeOK'
    BY <1>1, <1>3, <1>6 DEF IInv, TypeOK, SkipEmpty, Turn
  <2>2. ~Left(stream) /\ stream' = stream + 1
        /\ UNCHANGED <<at, any_remaining, progressed, outcome>> /\ at = "pass"
    <3>1. stream \in Streams
      BY <1>3, <1>6 DEF SkipEmpty, Turn, Streams
    <3>2. QED
      BY <1>6, <3>1, CmdType DEF IInv, SkipEmpty, Turn, QueueEmpty, Left
  <2>3. PassOK'
    BY <1>2, <1>3, <2>2 DEF IInv, PassOK, Blocked
  <2>4. QED
    BY <1>1, <1>2, <2>1, <2>2, <2>3 DEF IInv, BuildOK, DeadlockIsReal, PassOK
<1>7. CASE SkipBlocked
  <2>1. TypeOK'
    BY <1>1, <1>3, <1>7 DEF IInv, TypeOK, SkipBlocked, Turn
  <2>2. /\ Left(stream) /\ Blocked(stream) /\ stream' = stream + 1 /\ any_remaining' = TRUE
        /\ UNCHANGED <<at, progressed, outcome>> /\ at = "pass"
    <3>1. stream \in Streams
      BY <1>3, <1>7 DEF SkipBlocked, Turn, Streams
    <3>2. QED
      BY <1>7, <3>1, CmdType DEF IInv, SkipBlocked, Turn, QueueEmpty, Left, Blocked, FrontReady, Front
  <2>3. PassOK'
    BY <1>2, <1>3, <2>2 DEF IInv, PassOK
  <2>4. QED
    BY <1>1, <1>2, <2>1, <2>2, <2>3 DEF IInv, BuildOK, DeadlockIsReal, PassOK
<1>8. CASE CommandFails
  <2>1. TypeOK'
    BY <1>1, <1>8 DEF IInv, TypeOK, CommandFails, Failures, End, Outcomes
  <2>2. PassOK' /\ BuildOK' /\ DeadlockIsReal'
    BY <1>8 DEF CommandFails, Failures, End, PassOK, BuildOK, DeadlockIsReal
  <2>3. QED
    BY <1>2, <2>1, <2>2 DEF IInv
<1>9. CASE EndPass
  <2>1. TypeOK'
    <3>1. at' \in {"build", "pass", "ended"} /\ outcome' \in Outcomes
      BY <1>9 DEF IInv, TypeOK, EndPass, NewPass, End, Outcomes
    <3>2. stream' \in 1 .. NumStreams + 1
      BY <1>3, <1>9 DEF EndPass, NewPass
    <3>3. any_remaining' \in BOOLEAN /\ progressed' \in BOOLEAN
      BY <1>9 DEF IInv, TypeOK, EndPass, NewPass
    <3>4. QED
      BY <1>1, <3>1, <3>2, <3>3 DEF IInv, TypeOK
  <2>2. PassOK' /\ BuildOK'
    BY <1>3, <1>9 DEF IInv, PassOK, BuildOK, EndPass, NewPass, End
  <2>3. DeadlockIsReal'
    <3> SUFFICES ASSUME outcome' = "E_WORKLOAD_DEADLOCK" PROVE DeadlockIsReal'
      BY DEF DeadlockIsReal
    <3>1. any_remaining /\ ~progressed /\ at = "pass" /\ 1 .. stream - 1 = Streams
      BY <1>3, <1>9 DEF IInv, PassOK, EndPass, NewPass, End, Streams
    <3>2. (\A s \in Streams : Blocked(s)) /\ \E s \in Streams : Left(s)
      BY <3>1 DEF IInv, PassOK
    <3>3. ASSUME NEW s \in Streams, Left(s)
          PROVE  /\ prog[s][pos[s]].kind = "event_wait"
                 /\ ~Executed("event_record", prog[s][pos[s]].event)
      <4>1. prog[s][pos[s]].event \in Events
        BY <3>3, CmdType DEF IInv, Left
      <4>2. QED
        BY <3>2, <3>3, <4>1 DEF Blocked, IInv, SignaledOK
    <3>4. QED
      BY <1>1, <1>2, <3>2, <3>3 DEF DeadlockIsReal, Left
  <2>4. QED
    BY <1>2, <2>1, <2>2, <2>3 DEF IInv
<1>10. QED
  BY <1>4, <1>5, <1>6, <1>7, <1>8, <1>9

(* The step that executes a command.                                       *)
LEMMA RunStep ==
    ASSUME IInv, RunCommand
    PROVE  IInv'
<1>1. /\ stream \in Streams /\ stream \in Nat /\ NumStreams \in Nat
      /\ at = "pass" /\ outcome = "none" /\ Left(stream)
      /\ pos \in [Streams -> Nat \ {0}] /\ TypeOK
  <2>1. stream \in Streams /\ stream \in Nat /\ NumStreams \in Nat
    BY WorkloadAssumption DEF IInv, TypeOK, RunCommand, Turn, Streams
  <2>2. QED
    BY <2>1, CmdType DEF IInv, TypeOK, PassOK, RunCommand, Turn, QueueEmpty, Left
<1>2. /\ prog' = prog /\ pos' = [pos EXCEPT ![stream] = @ + 1] /\ stream' = stream + 1
      /\ any_remaining' /\ progressed' /\ UNCHANGED <<at, outcome>>
      /\ any_remaining' = TRUE /\ progressed' = TRUE
      /\ Front.kind = "event_wait" => Front.event \in signaled
      /\ signaled' = IF Front.kind = "event_record"
                     THEN signaled \cup {Front.event} ELSE signaled
  BY DEF RunCommand, FrontReady
<1>3. Front.event \in Events
  BY <1>1, CmdType DEF Front, Left
<1>4. \A k, e : Executed(k, e)' <=> Executed(k, e) \/ (Front.kind = k /\ Front.event = e)
  BY <1>1, FrontRuns
<1>5. TypeOK'
  <2>1. \A s \in Streams : pos'[s] <= Len(prog[s]) + 1
    BY <1>1, <1>2, CmdType DEF TypeOK, Left
  <2>2. stream' \in 1 .. NumStreams + 1
    BY <1>1, <1>2 DEF Streams
  <2>3. signaled' \in SUBSET Events
    BY <1>2, <1>3 DEF IInv, TypeOK
  <2>4. QED
    BY <1>1, <1>2, <2>1, <2>2, <2>3 DEF TypeOK
<1>6. SignaledOK'
  BY <1>2, <1>3, <1>4 DEF IInv, SignaledOK
<1>7. WaitsFollowRecords'
  BY <1>2, <1>3, <1>4 DEF IInv, WaitsFollowRecords, SignaledOK
<1>8. PassOK' /\ BuildOK' /\ DeadlockIsReal'
  BY <1>1, <1>2 DEF PassOK, BuildOK, DeadlockIsReal
<1>9. QED
  BY <1>5, <1>6, <1>7, <1>8 DEF IInv

(* Every step keeps it.                                                    *)
LEMMA NextIInv == IInv /\ [Next]_vars => IInv'
<1> SUFFICES ASSUME IInv, [Next]_vars PROVE IInv'
  OBVIOUS
<1>1. CASE Run
  BY <1>1, QuietStep, RunStep DEF Run
<1>2. CASE Terminated \/ UNCHANGED vars
  <2>1. UNCHANGED <<prog, pos, signaled, at, stream, any_remaining, progressed, outcome>>
    BY <1>2 DEF Terminated, vars
  <2>2. /\ \A k, e : Executed(k, e)' = Executed(k, e)
        /\ \A s : Left(s)' = Left(s) /\ Blocked(s)' = Blocked(s)
        /\ SignaledOK' /\ WaitsFollowRecords'
    BY <2>1, NothingRuns DEF IInv
  <2>3. TypeOK' /\ BuildOK' /\ PassOK' /\ DeadlockIsReal'
    BY <2>1, <2>2 DEF IInv, TypeOK, BuildOK, PassOK, DeadlockIsReal
  <2>4. QED
    BY <2>2, <2>3 DEF IInv
<1>3. QED
  BY <1>1, <1>2 DEF Next

(* It holds throughout.                                                    *)
LEMMA SpecIInv == Spec => []IInv
BY InitIInv, NextIInv, PTL DEF Spec

-----------------------------------------------------------------------------
(* The theorems.                                                           *)

(* Every variable of run_workload keeps its type.                          *)
THEOREM TypeCorrect == Spec => []TypeOK
<1>1. IInv => TypeOK
  BY DEF IInv
<1>2. QED
  BY <1>1, SpecIInv, PTL

(* However many streams and events, no stream passes an event_wait before  *)
(* the event was recorded.                                                 *)
THEOREM WaitsAreKept == Spec => []WaitsFollowRecords
<1>1. IInv => WaitsFollowRecords
  BY DEF IInv
<1>2. QED
  BY <1>1, SpecIInv, PTL

(* run_workload never reports E_WORKLOAD_DEADLOCK while some order of the  *)
(* remaining commands could go on.                                         *)
THEOREM DeadlocksAreReal == Spec => []DeadlockIsReal
<1>1. IInv => DeadlockIsReal
  BY DEF IInv
<1>2. QED
  BY <1>1, SpecIInv, PTL

(* The passes of run_workload implement the streams' promise, module       *)
(* StreamOrder: in-order streams, waits kept, deadlock only when stuck.    *)
THEOREM StreamsRefine == Spec => StreamsKeepOrder
<1>1. Init => SO!Init
  BY DEF Init, SO!Init, Result, Streams, SO!Streams
<1>2. IInv /\ [Next]_vars => [SO!Next]_SO!vars
  <2> SUFFICES ASSUME IInv, [Next]_vars PROVE [SO!Next]_SO!vars
    OBVIOUS
  <2>0. NumStreams \in Nat /\ stream \in 1 .. NumStreams + 1
    BY WorkloadAssumption DEF IInv, TypeOK
  <2>1. CASE LoadFails
    <3>1. SO!Fail
      BY <2>1 DEF LoadFails, End, IInv, BuildOK, SO!Fail, SO!End, Result, Streams, SO!Streams
    <3>2. QED
      BY <3>1 DEF SO!Next
  <2>2. CASE Build
    <3>1. CASE Refused = {}
      BY <2>2, <3>1 DEF Build, NewPass, SO!vars, Result
    <3>2. CASE Refused # {}
      <4>1. SO!Fail
        BY <2>2, <3>2 DEF Build, End, IInv, BuildOK, SO!Fail, SO!End, Result, Streams, SO!Streams
      <4>2. QED
        BY <4>1 DEF SO!Next
    <3>3. QED
      BY <3>1, <3>2
  <2>3. CASE SkipEmpty \/ SkipBlocked \/ Terminated \/ UNCHANGED vars
    BY <2>3 DEF SkipEmpty, SkipBlocked, Terminated, vars, SO!vars, Result
  <2>4. CASE RunCommand
    <3>1. stream \in Streams
      BY <2>0, <2>4 DEF RunCommand, Turn, Streams
    <3>2. SO!Advance(stream)
      BY <2>4, <3>1, CmdType
         DEF RunCommand, Turn, QueueEmpty, FrontReady, Front, IInv, PassOK, Result,
             SO!Advance, SO!Ready, SO!Pending, SO!Cmd
    <3>3. QED
      BY <3>1, <3>2 DEF SO!Next, Streams, SO!Streams
  <2>5. CASE CommandFails
    <3>1. stream \in Streams
      BY <2>0, <2>5 DEF CommandFails, Turn, Streams
    <3>2. SO!Ready(stream) /\ SO!Cmd(stream).kind \in {"kernel", "copy"}
      BY <2>5, <3>1, CmdType
         DEF CommandFails, Failures, Turn, QueueEmpty, FrontReady, Front, IInv, SO!Ready, SO!Pending, SO!Cmd
    <3>3. SO!End("failed")
      BY <2>5 DEF CommandFails, Failures, Turn, End, IInv, PassOK, SO!End, Result
    <3>4. QED
      BY <3>1, <3>2, <3>3 DEF SO!Fail, SO!Next, Streams, SO!Streams
  <2>6. CASE EndPass
    <3>1. at = "pass" /\ outcome = "none" /\ 1 .. stream - 1 = Streams
      BY <2>0, <2>6 DEF EndPass, IInv, PassOK, Streams
    <3>2. CASE ~any_remaining
      <4>1. \A s \in Streams : ~Left(s)
        BY <3>1, <3>2 DEF IInv, PassOK
      <4>2. SO!Complete
        BY <2>6, <3>1, <3>2, <4>1 DEF EndPass, End, SO!Complete, SO!End, SO!Pending, Result,
                                     Left, Streams, SO!Streams
      <4>3. QED
        BY <4>2 DEF SO!Next
    <3>3. CASE any_remaining /\ ~progressed
      <4>1. (\A s \in Streams : Blocked(s)) /\ \E s \in Streams : Left(s)
        BY <3>1, <3>3 DEF IInv, PassOK
      <4>2. SO!End("deadlock")
        BY <2>6, <3>1, <3>3 DEF EndPass, End, SO!End, Result
      <4>3. SO!Deadlock
        BY <4>1, <4>2 DEF SO!Deadlock, SO!Pending, SO!Ready, SO!Cmd, Left, Blocked,
                          Streams, SO!Streams
      <4>4. QED
        BY <4>3 DEF SO!Next
    <3>4. CASE any_remaining /\ progressed
      BY <2>6, <3>4 DEF EndPass, SO!vars, Result
    <3>5. QED
      BY <3>2, <3>3, <3>4, <2>6 DEF EndPass
  <2>7. QED
    BY <2>1, <2>2, <2>3, <2>4, <2>5, <2>6 DEF Next, Run
<1>3. QED
  BY <1>1, <1>2, SpecIInv, PTL DEF Spec, StreamsKeepOrder, SO!Spec
=============================================================================
