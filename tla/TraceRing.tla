----------------------------- MODULE TraceRing ------------------------------
(***************************************************************************)
(* ObsControl (src/src/observability/observability.cpp): the ring of trace *)
(* events and the counters, filled by the workers of SimtExecutor::run     *)
(* (src/src/simt/simt.cpp), kernel after kernel.  For each instruction a   *)
(* worker emits FETCH, UOP and COMMIT and counts each of them.  The time   *)
(* stamp of an event is taken from the clock of the run, pushing the event *)
(* and counting are steps of their own, each under a mutex.  Instructions  *)
(* have one micro-op; the SIMT_ events are emitted like the others, and    *)
(* not counted, and are left out.                                          *)
(***************************************************************************)
EXTENDS Integers, Sequences, FiniteSets, FiniteSetsExt

CONSTANTS Workers,   \* the SM workers; one for the serial path
          Cfgs,      \* the configurations: enabled, trace_capacity
          MaxInsts,  \* bound: instructions of one worker in one kernel
          MaxRuns    \* bound: kernels run, one after the other

ASSUME TraceRingAssumption ==
    /\ IsFiniteSet(Workers) /\ MaxInsts \in Nat /\ MaxRuns \in Nat
    /\ Cfgs \subseteq [enabled : BOOLEAN, trace_capacity : Nat]

VARIABLES cfg_,
          ring_, head_, size_,  \* TraceBuffer
          items_,               \* Counters: pairs of a key and a value
          clock,                \* shared_clock, or ts, of the current run
          run, running,         \* how many kernels were started; is one running
          at,                   \* what each worker does next: kind, step, ts
          insts,                \* instructions each worker began in this run
          emitted               \* history: what each thread has emitted

ring    == <<ring_, head_, size_>>
vars    == <<cfg_, ring, items_, clock, run, running, at, insts, emitted>>

Kinds   == {"FETCH", "UOP", "COMMIT"}
Main    == "main"
Threads == Workers \cup {Main}

Event == [run : Nat, ts : Nat, by : Threads, kind : Kinds \cup {"RUN_START"}]

capacity_ == cfg_.trace_capacity

-----------------------------------------------------------------------------
(* TraceBuffer and Counters, each operation under its mutex.               *)

\* TraceBuffer::snapshot, oldest first.
Snapshot ==
    IF ring_ = <<>> \/ Len(ring_) < capacity_ THEN ring_
    ELSE [k \in 1 .. size_ |-> ring_[((head_ + k - 1) % capacity_) + 1]]

\* Mutant: the slot to overwrite next stays where it is at the wrap.
PushStuck(e) ==
    IF capacity_ = 0 THEN UNCHANGED ring
    ELSE IF Len(ring_) < capacity_
    THEN ring_' = Append(ring_, e) /\ size_' = Len(ring_) + 1 /\ head_' = 0
    ELSE /\ ring_' = [ring_ EXCEPT ![head_ + 1] = e]
         /\ head_' = IF head_ + 1 = capacity_ THEN head_ ELSE head_ + 1
         /\ size_' = capacity_

\* TraceBuffer::push.
Push(e) ==
    IF capacity_ = 0 THEN UNCHANGED ring
    ELSE IF Len(ring_) < capacity_
    THEN ring_' = Append(ring_, e) /\ size_' = Len(ring_) + 1 /\ head_' = 0
    ELSE /\ ring_' = [ring_ EXCEPT ![head_ + 1] = e]
         /\ head_' = (head_ + 1) % capacity_
         /\ size_' = capacity_

\* ObsControl::emit.
Emit(e) == IF cfg_.enabled THEN Push(e) ELSE UNCHANGED ring

\* Mutant: a key is added whether it is there or not.
IncAdds(items, key) == Append(items, <<key, 1>>)

\* Counters::inc by one.
Inc(items, key) ==
    LET found == {i \in DOMAIN items : items[i][1] = key}
    IN  IF found = {} THEN Append(items, <<key, 1>>)
        ELSE [items EXCEPT ![Min(found)][2] = @ + 1]

-----------------------------------------------------------------------------
KindAfter(kind) == CASE kind = "FETCH" -> "UOP" [] kind = "UOP" -> "COMMIT" [] OTHER -> "FETCH"

Rest == [kind |-> "FETCH", step |-> "stamp", ts |-> 0]

Init ==
    /\ cfg_ \in Cfgs
    /\ ring_ = <<>> /\ head_ = 0 /\ size_ = 0 /\ items_ = <<>>
    /\ clock = 0 /\ run = 0 /\ running = FALSE
    /\ at = [w \in Workers |-> Rest] /\ insts = [w \in Workers |-> 0]
    /\ emitted = [t \in Threads |-> <<>>]

\* A run starts with a clock of its own; the main thread emits RUN_START.
RunStart ==
    /\ ~running /\ run < MaxRuns
    /\ running' = TRUE /\ run' = run + 1 /\ clock' = 1
    /\ insts' = [w \in Workers |-> 0]
    /\ LET e == [run |-> run + 1, ts |-> 0, by |-> Main, kind |-> "RUN_START"]
       IN  Emit(e) /\ emitted' = [emitted EXCEPT ![Main] = Append(@, e)]
    /\ UNCHANGED <<cfg_, items_, at>>

\* All workers are joined.
RunEnd ==
    /\ running /\ \A w \in Workers : at[w] = Rest
    /\ running' = FALSE
    /\ UNCHANGED <<cfg_, ring, items_, clock, run, at, insts, emitted>>

\* Mutant: the clock is read and written, and another worker that is about to
\* emit has not written it yet.
StampRead(w) ==
    /\ running /\ at[w].step = "stamp"
    /\ at[w].kind = "FETCH" => insts[w] < MaxInsts
    /\ at' = [at EXCEPT ![w].step = "emit", ![w].ts = clock]
    /\ clock' = IF \E x \in Workers : at[x].step = "emit" THEN clock ELSE clock + 1
    /\ insts' = IF at[w].kind = "FETCH" THEN [insts EXCEPT ![w] = @ + 1] ELSE insts
    /\ UNCHANGED <<cfg_, ring, items_, run, running, emitted>>

\* next_ts_local: fetch_add on the clock.
Stamp(w) ==
    /\ running /\ at[w].step = "stamp"
    /\ at[w].kind = "FETCH" => insts[w] < MaxInsts
    /\ at' = [at EXCEPT ![w].step = "emit", ![w].ts = clock]
    /\ clock' = clock + 1
    /\ insts' = IF at[w].kind = "FETCH" THEN [insts EXCEPT ![w] = @ + 1] ELSE insts
    /\ UNCHANGED <<cfg_, ring, items_, run, running, emitted>>

EmitEvent(w) ==
    /\ at[w].step = "emit"
    /\ at' = [at EXCEPT ![w].step = "count"]
    /\ LET e == [run |-> run, ts |-> at[w].ts, by |-> w, kind |-> at[w].kind]
       IN  Emit(e) /\ emitted' = [emitted EXCEPT ![w] = Append(@, e)]
    /\ UNCHANGED <<cfg_, items_, clock, run, running, insts>>

\* ObsControl::counter: inst.fetch, a counter of the unit, inst.commit.
Count(w) ==
    /\ at[w].step = "count"
    /\ items_' = IF cfg_.enabled THEN Inc(items_, at[w].kind) ELSE items_
    /\ at' = [at EXCEPT ![w] = [Rest EXCEPT !.kind = KindAfter(at[w].kind)]]
    /\ UNCHANGED <<cfg_, ring, clock, run, running, insts, emitted>>

\* A BRA that no lane takes part in is not counted.
SkipCount(w) ==
    /\ at[w].kind = "UOP" /\ at[w].step = "count"
    /\ at' = [at EXCEPT ![w] = [Rest EXCEPT !.kind = "COMMIT"]]
    /\ UNCHANGED <<cfg_, ring, items_, clock, run, running, insts, emitted>>

\* The instruction has no descriptor or no predicate (before its UOP event), its
\* unit refuses it (after), or a branch that was counted has no reconvergence
\* point or conflicts with another; the worker leaves the run.
Fault(w) ==
    /\ \/ at[w].kind = "UOP" /\ at[w].step \in {"stamp", "count"}
       \/ at[w].kind = "COMMIT" /\ at[w].step = "stamp"
    /\ at' = [at EXCEPT ![w] = Rest] /\ insts' = [insts EXCEPT ![w] = MaxInsts]
    /\ UNCHANGED <<cfg_, ring, items_, clock, run, running, emitted>>

Terminated == ~running /\ run = MaxRuns /\ UNCHANGED vars

Next == \/ RunStart \/ RunEnd \/ Terminated
        \/ \E w \in Workers : Stamp(w) \/ EmitEvent(w) \/ Count(w) \/ SkipCount(w) \/ Fault(w)

Spec == Init /\ [][Next]_vars

-----------------------------------------------------------------------------
(* Properties.                                                             *)

Log == INSTANCE TraceLog WITH capacity <- IF cfg_.enabled THEN capacity_ ELSE 0, log <- Snapshot

(* The ring, read by snapshot(), is a log of the newest events in the order *)
(* in which they were pushed, through any number of wraps and kernels; with *)
(* tracing disabled or a capacity of zero it stays empty.                  *)
KeepsNewest == Log!Spec

\* How many events of the same thread a snapshot has after its i-th.
Since(s, i) == Cardinality({j \in DOMAIN s : j > i /\ s[j].by = s[i].by})

(* What a snapshot has of one thread is the end of what that thread        *)
(* emitted, without a gap and in its program order; kernels do not         *)
(* interleave; within a kernel a time stamp names one event.  (The stamps  *)
(* of different workers need not ascend.)                                  *)
EachWorkerInOrder ==
    /\ \A i \in DOMAIN Snapshot :
         LET own == emitted[Snapshot[i].by]
             k   == Len(own) - Since(Snapshot, i)
         IN  k >= 1 /\ own[k] = Snapshot[i]
    /\ \A i, j \in DOMAIN Snapshot : i < j =>
         \/ Snapshot[i].run < Snapshot[j].run
         \/ /\ Snapshot[i].run = Snapshot[j].run
            /\ Snapshot[i].ts # Snapshot[j].ts
            /\ Snapshot[i].by = Snapshot[j].by => Snapshot[i].ts < Snapshot[j].ts

\* The value a reader of counters_snapshot finds for a key.
Counter(key) ==
    LET found == {i \in DOMAIN items_ : items_[i][1] = key}
    IN  IF found = {} THEN 0 ELSE items_[Min(found)][2]

\* The events of a kind, each by its thread and its place in what that emitted.
EventsOf(kind) ==
    UNION {{t} \X {i \in DOMAIN emitted[t] : emitted[t][i].kind = kind} : t \in Threads}

EventCount(kind) == Cardinality(EventsOf(kind))

InFlight(kind) == Cardinality({w \in Workers : at[w].kind = kind /\ at[w].step = "count"})

(* The counters agree with the events, however many workers count at once  *)
(* and also where the ring no longer holds them: a fetch or commit is      *)
(* emitted and counted once, every commit has its micro-op and every       *)
(* micro-op its fetch, and no micro-op is counted twice.                   *)
CountersMatchEvents ==
    IF ~cfg_.enabled THEN items_ = <<>>
    ELSE /\ \A k \in {"FETCH", "COMMIT"} : Counter(k) + InFlight(k) = EventCount(k)
         /\ EventCount("COMMIT") <= EventCount("UOP") /\ EventCount("UOP") <= Counter("FETCH")
         /\ Counter("UOP") + InFlight("UOP") <= EventCount("UOP")
=============================================================================
