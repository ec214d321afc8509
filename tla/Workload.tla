------------------------------ MODULE Workload ------------------------------
(***************************************************************************)
(* Runtime::run_workload (src/src/runtime/workload.cpp): the commands of   *)
(* every stream are checked and queued, then passes over the streams, in   *)
(* name order, execute at most one ready command of each, until the queues *)
(* are empty, a pass makes no progress, or a kernel fails.                 *)
(*                                                                         *)
(* Buffers, their contents and the kernels' arguments are abstracted to    *)
(* what they decide: whether a command passes the checks ("ok", "schema"   *)
(* or "ref" error), and how a kernel ends.                                 *)
(***************************************************************************)
EXTENDS Naturals, Sequences

CONSTANTS NumStreams,  \* streams, numbered as stream_ids numbers them
          Events,      \* event names
          Programs     \* the workloads: a command list for every stream

Streams == 1 .. NumStreams
Kinds   == {"copy", "kernel", "event_record", "event_wait", "sync"}
Cmds    == [kind : Kinds, event : Events, refs : {"ok", "schema", "ref"}]

ASSUME WorkloadAssumption ==
    /\ NumStreams \in Nat
    /\ Programs \subseteq [Streams -> Seq(Cmds)]

VARIABLES prog,           \* the workload
          pos,            \* every stream's queue is its commands from here on
          signaled,       \* events with signaled[id] = true
          at,             \* "build", "pass" or "ended"
          stream,         \* the stream the pass has come to
          any_remaining,
          progressed,
          outcome         \* "none" until the run ends

vars == <<prog, pos, signaled, at, stream, any_remaining, progressed, outcome>>

-----------------------------------------------------------------------------
(* The build phase.                                                        *)

Positions == UNION {{<<s, i>> : i \in 1 .. Len(prog[s])} : s \in Streams}
CmdAt(x)  == prog[x[1]][x[2]]

\* The events that get an id: all that a record or a wait mentions.
IsEventCmd(c) == c.kind \in {"event_record", "event_wait"}
event_ids     == {CmdAt(x).event : x \in {y \in Positions : IsEventCmd(CmdAt(y))}}

\* What the checks make of a command.
Verdict(c) == CASE IsEventCmd(c)    -> IF c.event \in event_ids THEN "ok" ELSE "ref"
                [] c.kind = "sync"  -> "ok"
                [] OTHER            -> c.refs

Refused      == {x \in Positions : Verdict(CmdAt(x)) # "ok"}
Before(x, y) == x[1] < y[1] \/ (x[1] = y[1] /\ x[2] <= y[2])

-----------------------------------------------------------------------------
Init ==
    /\ prog \in Programs
    /\ pos = [s \in Streams |-> 1]
    /\ signaled = {}
    /\ at = "build"
    /\ stream = 1 /\ any_remaining = FALSE /\ progressed = FALSE
    /\ outcome = "none"

End(o) == at' = "ended" /\ outcome' = o

\* A pass over the streams begins.
NewPass == /\ at' = "pass" /\ stream' = 1
           /\ any_remaining' = FALSE /\ progressed' = FALSE

\* The file does not parse, a declaration is malformed, or a buffer cannot be
\* set up: the run ends before a command is looked at.
LoadFails ==
    /\ at = "build"
    /\ \E o \in {"E_WORKLOAD_SCHEMA", "E_WORKLOAD_FATAL"} : End(o)
    /\ UNCHANGED <<prog, pos, signaled, stream, any_remaining, progressed>>

\* All commands are queued; the first one refused ends the run instead.
Build ==
    /\ at = "build"
    /\ IF Refused = {}
       THEN NewPass /\ UNCHANGED outcome
       ELSE /\ \E x \in Refused :
                 /\ \A y \in Refused : Before(x, y)
                 /\ End(IF Verdict(CmdAt(x)) = "ref"
                        THEN "E_WORKLOAD_REF" ELSE "E_WORKLOAD_SCHEMA")
            /\ UNCHANGED <<stream, any_remaining, progressed>>
    /\ UNCHANGED <<prog, pos, signaled>>

-----------------------------------------------------------------------------
(* One stream's turn in a pass.                                            *)

Turn == at = "pass" /\ stream <= NumStreams

QueueEmpty == pos[stream] > Len(prog[stream])
Front      == prog[stream][pos[stream]]

FrontReady == Front.kind = "event_wait" => Front.event \in signaled

\* Mutant: the empty queue is popped.
SkipEmptyPops ==
    /\ Turn /\ QueueEmpty
    /\ pos' = [pos EXCEPT ![stream] = @ + 1]
    /\ stream' = stream + 1
    /\ UNCHANGED <<prog, signaled, at, any_remaining, progressed, outcome>>

SkipEmpty ==
    /\ Turn /\ QueueEmpty
    /\ stream' = stream + 1
    /\ UNCHANGED <<prog, pos, signaled, at, any_remaining, progressed, outcome>>

\* Mutant: a blocked stream does not count as remaining.
SkipBlockedForgets ==
    /\ Turn /\ ~QueueEmpty /\ ~FrontReady
    /\ stream' = stream + 1
    /\ UNCHANGED <<prog, pos, signaled, at, any_remaining, progressed, outcome>>

SkipBlocked ==
    /\ Turn /\ ~QueueEmpty /\ ~FrontReady
    /\ any_remaining' = TRUE
    /\ stream' = stream + 1
    /\ UNCHANGED <<prog, pos, signaled, at, progressed, outcome>>

\* Mutant: recording an event does not count as progress.
RunCommandSilentRecord ==
    /\ Turn /\ ~QueueEmpty /\ FrontReady
    /\ any_remaining' = TRUE
    /\ progressed' = (progressed \/ Front.kind # "event_record")
    /\ signaled' = IF Front.kind = "event_record"
                   THEN signaled \cup {Front.event} ELSE signaled
    /\ pos' = [pos EXCEPT ![stream] = @ + 1]
    /\ stream' = stream + 1
    /\ UNCHANGED <<prog, at, outcome>>

\* The front command executes and is popped.  A kernel that used up its
\* step budget counts as completed here (see module SmWorkers).
RunCommand ==
    /\ Turn /\ ~QueueEmpty /\ FrontReady
    /\ any_remaining' = TRUE /\ progressed' = TRUE
    /\ signaled' = IF Front.kind = "event_record"
                   THEN signaled \cup {Front.event} ELSE signaled
    /\ pos' = [pos EXCEPT ![stream] = @ + 1]
    /\ stream' = stream + 1
    /\ UNCHANGED <<prog, at, outcome>>

\* How a command can fail in its turn: packing a kernel's arguments or loading
\* its module throws, or the kernel reports a diagnostic; a copy whose
\* offset + bytes wraps passes the build checks and is refused by the memory.
Failures(kind) ==
    CASE kind = "kernel" -> {"E_ENTRY_NOT_FOUND", "E_BAD_ARGS", "E_WORKLOAD_REF",
                             "E_WORKLOAD_SCHEMA", "E_KERNEL", "E_WORKLOAD_FATAL"}
      [] kind = "copy"   -> {"E_WORKLOAD_FATAL"}
      [] OTHER           -> {}

\* The run returns at once, the command still queued.
CommandFails ==
    /\ Turn /\ ~QueueEmpty /\ FrontReady
    /\ \E o \in Failures(Front.kind) : End(o)
    /\ any_remaining' = TRUE
    /\ UNCHANGED <<prog, pos, signaled, stream, progressed>>

\* Mutant: a pass without progress is tried again.
EndPassRetries ==
    /\ at = "pass" /\ stream > NumStreams
    /\ \/ ~any_remaining /\ End("completed")
          /\ UNCHANGED <<stream, any_remaining, progressed>>
       \/ any_remaining /\ NewPass /\ UNCHANGED outcome
    /\ UNCHANGED <<prog, pos, signaled>>

EndPass ==
    /\ at = "pass" /\ stream > NumStreams
    /\ \/ ~any_remaining /\ End("completed")
          /\ UNCHANGED <<stream, any_remaining, progressed>>
       \/ any_remaining /\ ~progressed /\ End("E_WORKLOAD_DEADLOCK")
          /\ UNCHANGED <<stream, any_remaining, progressed>>
       \/ any_remaining /\ progressed /\ NewPass /\ UNCHANGED outcome
    /\ UNCHANGED <<prog, pos, signaled>>

Terminated == at = "ended" /\ UNCHANGED vars

Run == \/ LoadFails \/ Build \/ SkipEmpty \/ SkipBlocked
       \/ RunCommand \/ CommandFails \/ EndPass

Next == Run \/ Terminated

Spec == Init /\ [][Next]_vars

\* run_workload is one thread that never blocks.
FairSpec == Spec /\ WF_vars(Run)

-----------------------------------------------------------------------------
(* Properties.                                                             *)

Outcomes == {"none", "completed", "E_WORKLOAD_REF", "E_WORKLOAD_SCHEMA", "E_KERNEL",
             "E_ENTRY_NOT_FOUND", "E_BAD_ARGS", "E_WORKLOAD_FATAL", "E_WORKLOAD_DEADLOCK"}

(* Every variable of run_workload keeps its type.                          *)
TypeOK ==
    /\ prog \in Programs
    /\ pos \in [Streams -> Nat \ {0}]
    /\ \A s \in Streams : pos[s] <= Len(prog[s]) + 1
    /\ signaled \in SUBSET Events
    /\ at \in {"build", "pass", "ended"}
    /\ stream \in 1 .. NumStreams + 1
    /\ any_remaining \in BOOLEAN /\ progressed \in BOOLEAN
    /\ outcome \in Outcomes

\* Has some stream executed such a command on event e?
Executed(kind, e) ==
    \E s \in Streams : \E i \in 1 .. pos[s] - 1 : prog[s][i].kind = kind /\ prog[s][i].event = e

(* A stream is past an event_wait only if some stream is past an           *)
(* event_record of that event.                                             *)
WaitsFollowRecords ==
    \A e \in Events : Executed("event_wait", e) => Executed("event_record", e)

(* E_WORKLOAD_DEADLOCK is the truth: each stream that has commands left    *)
(* waits for an event that no executed command recorded, so that in no     *)
(* order could another command have run.                                   *)
DeadlockIsReal ==
    outcome = "E_WORKLOAD_DEADLOCK" =>
      /\ \E s \in Streams : pos[s] <= Len(prog[s])
      /\ \A s \in Streams : pos[s] <= Len(prog[s]) =>
           /\ prog[s][pos[s]].kind = "event_wait"
           /\ ~Executed("event_record", prog[s][pos[s]].event)

(* The run ends: passes never repeat without progress.                     *)
WorkloadEnds == <>(at = "ended")

(* The passes implement the streams' promise.                              *)
Result == CASE outcome = "none"                -> "running"
            [] outcome = "completed"           -> "completed"
            [] outcome = "E_WORKLOAD_DEADLOCK" -> "deadlock"
            [] OTHER                           -> "failed"

SO == INSTANCE StreamOrder WITH result <- Result

StreamsKeepOrder == SO!Spec
=============================================================================
