----------------------------- MODULE StreamOrder -----------------------------
(***************************************************************************)
(* What a workload's streams promise, whatever the scheduler: each stream  *)
(* executes its commands in order, an event_wait is passed only when the   *)
(* event has been recorded, and a deadlock is declared only when no stream *)
(* can ever go on.  Any stream whose next command is ready may be chosen.  *)
(***************************************************************************)
EXTENDS Naturals, Sequences

CONSTANTS NumStreams, Programs

VARIABLES prog,      \* the command list of every stream
          pos,       \* index of every stream's next command
          signaled,  \* the events recorded so far
          result     \* "running", "completed", "deadlock" or "failed"

vars == <<prog, pos, signaled, result>>

Streams == 1 .. NumStreams

Pending(s) == pos[s] <= Len(prog[s])
Cmd(s)     == prog[s][pos[s]]
Ready(s)   == Pending(s) /\ (Cmd(s).kind = "event_wait" => Cmd(s).event \in signaled)

Init == /\ prog \in Programs
        /\ pos = [s \in Streams |-> 1]
        /\ signaled = {}
        /\ result = "running"

Advance(s) ==
    /\ result = "running" /\ Ready(s)
    /\ pos' = [pos EXCEPT ![s] = @ + 1]
    /\ signaled' = IF Cmd(s).kind = "event_record"
                   THEN signaled \cup {Cmd(s).event} ELSE signaled
    /\ UNCHANGED <<prog, result>>

End(r) == result = "running" /\ result' = r /\ UNCHANGED <<prog, pos, signaled>>

Complete == End("completed") /\ \A s \in Streams : ~Pending(s)

Deadlock == End("deadlock") /\ (\E s \in Streams : Pending(s))
                            /\ \A s \in Streams : ~Ready(s)

\* The workload is refused before anything runs, or a kernel or a copy fails in
\* its turn.
Fail == /\ End("failed")
        /\ \/ \A s \in Streams : pos[s] = 1
           \/ \E s \in Streams : Ready(s) /\ Cmd(s).kind \in {"kernel", "copy"}

Next == (\E s \in Streams : Advance(s)) \/ Complete \/ Deadlock \/ Fail

Spec == Init /\ [][Next]_vars
=============================================================================
