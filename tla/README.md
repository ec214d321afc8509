# TLA+ verification of ProtoGPU

ProtoGPU runs PTX kernels on the CPU. This directory holds TLA+ models of the
parts of it that keep state and make decisions, the TLC configurations that
check them on small instances, and TLAPS proofs of what holds for every
instance. Paths below are relative to the repository; in `PROJECT.json`, which
lists components, runs, mutants, the definition-to-source map, findings,
hazards and theorems, the same paths are prefixed with `src/`.

## 1. The system

| Component (source) | State | Operations | Works with | Hard behaviour | What makes it correct |
|---|---|---|---|---|---|
| Control-flow analysis (`src/simt/control_flow_analysis.cpp`) | post-dominator sets, iteration counter | build the CFG, sweep, choose a reconvergence pc | its table steers the warp | in-place fixpoint with an iteration guard; unreachable and non-exiting code | the limit is post-dominance by paths; kernels that can exit are accepted |
| SIMT executor, one warp (`src/simt/simt.cpp`, `src/units/control_unit.cpp`) | SIMT stack, returned lanes, predicates, pending split, diagnostic | normalize, fetch, micro-ops, commit | analysis, execution and memory units | nested divergence, loops left lane by lane, RET in divergent code, instructions that branch twice or branch and return | each lane is on exactly one path and behaves like a thread of its own; the stack stays bounded |
| SIMT executor, run loop (`src/simt/simt.cpp`) | shared step counter, shared diagnostic, one thread per SM | submit CTAs, workers, join | CTA and warp schedulers | budget, fault and stop racing; an unlocked read of the diagnostic | no CTA lost or run twice, no fault masked, the run ends |
| CTA schedulers (`src/runtime/cta_scheduler.cpp`) | queue(s), `closed_`, `stop_` | submit, close, request_stop, acquire | workers | stop between test and pop | every CTA handed out once, in order |
| Warp schedulers (`src/simt/warp_scheduler.cpp`) | cursor | pick_next | workers | a warp that never ends | the chosen policy, no starvation under round robin |
| Workload runner (`src/runtime/workload.cpp`) | stream queues, event table | validate, pass over the streams, detect deadlock | runtime, executor | waits and records across streams, a failure half-way | stream order, event order, a reported deadlock is one, the run ends |
| Address space (`src/memory/memory.cpp`) | next address, ranges, sparse bytes, parameter blob | alloc, read, write | memory unit, runtime | 64-bit sums that wrap | reads and writes stay in allocated ranges |
| SIMT executor, launch geometry (`src/simt/simt.cpp`) | none | refuse a launch, cut it into CTAs, warps, lanes | memory unit, schedulers | partial last warp, three dimensions, places of 32 bits in blocks of 64 | every thread is one lane |
| Memory unit (`src/units/mem_unit.cpp`) | local memory, one map for all workers | ld, st | address space | lane-by-lane effects before a fault; mixed sizes; unlocked local memory | no torn values, local memory private to its thread |
| Parser and binder (`src/frontend/`) | per kernel: register counts, aliases of named registers, label table, parameter layout | two passes over the body; one kernel by name | runtime, shim, workload runner | named registers declared before the ranges they must avoid, textual replacement of names in every token and in hash order, labels counted in one pass and instructions kept in another | the instructions are those of the text, each label at its instruction, each register and parameter its own |
| ISA table, descriptors, expander (`src/instruction/`) | tables read once | map an instruction to its one form, look up its descriptor, expand | parser, SIMT executor | forms that overlap, `%f` registers kept above a bias in the 32-bit file | an instruction is executed as the one form it has, or refused |
| Execution core (`src/units/exec_core.cpp`) | the warp's register files and predicates | MOV, CVT, ADD, MUL, SHL, SHFL, FMA, SETP, warp sum | SIMT executor | lanes served one after the other in place | all lanes compute from the values before the instruction |
| Runtime (`src/runtime/runtime.cpp`) | host buffers, configuration, one address space for all launches | copies, launches | everything | partial failure, parameters of an earlier launch | a launch sees its own arguments only |
| Observability (`src/observability/observability.cpp`) | trace ring, counters, clock of the run | emit, count, snapshot | workers | the ring at its limit, several workers stamping, pushing and counting | a snapshot is the newest events, each worker's in order; counters agree with events |
| CUDA shim, API (`cuda/src/cudart_shim/exports.cpp` and the files it calls) | init latch, two mutexes, stream queues, registries; per thread: last error, launch-configuration stack | the exported CUDA calls | runtime | several host threads, lock order, commands run outside the lock, stale configurations, nested launches, results recorded by hand | calls return, commands stay with their caller, no kernel runs with a configuration left behind |
| CUDA shim, memory (`cuda/src/cudart_shim/device_memory.cpp`) | table of allocations | malloc, free, memcpy | address space | two tables for one heap, wrapping sums, overlapping copies | the program sees a heap of disjoint blocks |
| JSON, configuration, command line, fat binaries | text and tables | parse, format | | | |

Kernels reach the executor as follows. The shim or the workload runner calls
the runtime, which parses the PTX, sets the parameters and calls
`SimtExecutor::run`; that analyses the control flow, submits every CTA to a CTA
scheduler and starts one worker per SM. A worker takes CTAs and lets a warp
scheduler pick one of its warps for each step; a step normalises the warp's
SIMT stack and executes one instruction, micro-op by micro-op, in the control,
execution and memory units.

## 2. The modules

| Module | Models | Role |
|---|---|---|
| `KernelImage` | instructions, micro-ops, the CFG; post-dominance by paths; what a kernel and its table are (`KernelOK`, `Analysed`) | shared definitions and reference |
| `ControlFlowAnalysis`, `MCControlFlowAnalysis` | `analyze_control_flow`, one action per visit of a node | component |
| `ControlFlowAnalysisProofs` | | proofs about `ControlFlowAnalysis` |
| `SimtWarp`, `MCSimtWarp` | one warp in `SimtExecutor::run`, `ControlUnit::step`, SETP | component |
| `LaneThreads` | lanes as independent threads | abstract specification |
| `SimtWarpRefinement` | a lane's pc is that of its frame | refinement mapping |
| `SimtWarpProofs` | | proofs about `SimtWarp`, refinement included |
| `SmWorkers`, `MCSmWorkers` | `run`'s main thread and workers, both CTA schedulers, both warp schedulers | component |
| `SmWorkersProofs` | | proofs about `SmWorkers` |
| `Workload`, `MCWorkload` | `Runtime::run_workload` | component |
| `StreamOrder` | ordered streams and events | abstract specification |
| `WorkloadProofs` | | proofs about `Workload`, refinement included |
| `DeviceMemory` | `DeviceMemory`, `AddrSpaceManager`, a lane's global store | component |
| `DeviceHeap` | a heap of disjoint, zeroed blocks | abstract specification |
| `DeviceMemoryProofs` | | proofs about `DeviceMemory`, refinement included |
| `LaunchGrid` | launches, warps, lanes, `tid`, local addresses | operators, used by `MemUnit` |
| `MemUnit`, `MCMemUnit` | `MemUnit::step` of several workers, parameter lookup | component |
| `MemUnitProofs` | | proofs about `MemUnit` and `LaunchGrid` |
| `CudaShim`, `MCCudaShim` | the exported CUDA calls of several host threads | component |
| `CudaShimProofs` | | proofs about `CudaShim` |
| `PtxFrontEnd` | the PTX parser, the ISA mapper, descriptor lookup, the expander | operators, used by `KernelRun` |
| `ExecCore` | `ExecCore::step`, loads and stores of parameters and local memory, on registers | operators, used by `KernelRun` |
| `PtxMeaning` | what a kernel's text means, without front end or lane order | reference |
| `KernelRun`, `MCKernelRun` | launches from the text to the registers: packing, parsing, mapping, setting parameters, the run of a warp | composition of the three above |
| `TraceRing`, `MCTraceRing` | `TraceBuffer`, `Counters` and their use by the workers | component |
| `TraceLog` | a bounded log of the newest events | abstract specification |
| `TraceRingProofs` | | proofs about `TraceRing`, refinement included |

Variables and actions carry the names the source gives them. Operators whose
comment begins with "Mutant" are deliberately wrong versions of the definition
that follows them and are used by no specification; they serve to show that
each property notices a plausible mistake.

### How the models correspond to the code

**Control-flow analysis.** A kernel is any function from pcs to instructions;
an instruction is a sequence of micro-ops with an optional guard. The sets
start as in the code (everything, except for the exit), are replaced in place
in index order, and a sweep that changed nothing ends the iteration. `MaxIters`
is the code's guard. Branch targets below zero are not modelled (the binder
resolves labels to indices).

**One warp.** `stack` is `simt_stack` with its four fields; `phase` says whether
the warp normalises its stack, fetches, or is at micro-op `ui` of the
instruction. Each turn of `normalize_stack`'s loop is an action (`PopEmpty`,
`ResumeJoin`, `MergeAtReconv`, `MergeMiss`, `SelectPath`, `FinishWarp`), and so is
each micro-op. Registers and memory are left out: what they decide here is the
value SETP writes into a lane's predicate and whether a micro-op faults, both
of which are chosen freely. SETP writes all its lanes in one step; nothing else
of the warp can see the intermediate states. A fault is an action that sets the
diagnostic, in the code's order of tests.

**Workers.** `cfg` is the part of `SimConfig` that `run` reads, with the size of
the launch; a deterministic or single-SM configuration makes the main thread the
only SM. A warp is reduced to the outcomes of one pick: it executes an
instruction, it is done, or it faults. Every access to shared state is an
action: the two reads of the step counter, its increment, locking the
scheduler, popping, the unlocked read of the diagnostic (`PeekDiag`: a data
race, so it may or may not see what another worker has written), writing the
diagnostic under its lock, and the stop request, which is stored without the
scheduler's lock. The condition variable is modelled by its predicate: a waiting
worker is enabled when the predicate it re-tests holds. `waited` is a history
variable.

**Workloads.** A stream's queue is its command list from `pos` on. Validation
goes through the commands in stream order and stops at the first one refused;
its verdict on a command (`refs`) and what fails while buffers and modules are
loaded are inputs. One action per turn of the inner loop: `SkipEmpty`,
`SkipBlocked`, `RunCommand` or `CommandFails`; `EndPass` does what follows it.

**Device memory.** Two tables, as in the code: `live` is the shim's
`std::map`, `core` the address space's vector of ranges (only membership
matters), `global` the sparse bytes. Sums are taken modulo `AddrLimit`, which
stands for 2^64. The host buffers that copies pass through are new for every
copy and are left out; that allocating one may throw is `HostLimit`. A call
that fails changes nothing in these variables. Host-to-host copies touch none.

**Memory unit.** `LaunchGrid` holds the arithmetic of `run` and of the memory
unit on dimensions; a warp's number and the place of its first lane are kept in 32 bits
there (`LaneBaseLimit`), as in the code, although the checks of a launch admit any
number of threads below 2^64. In `MemUnit` each worker takes CTAs from the scheduler
(`Queue`: from one queue with `fifo`, from its own with `sm_round_robin`), until there
are none or a fault has stopped the run, and executes one
micro-op at a time; a micro-op serves its lanes in ascending order, each access to global
memory in one step (it holds the address space's mutex) and each access to
local memory in two, since `local_` has no lock. When two of the latter overlap and one
is a store, the behaviour is undefined; the model lets a new entry be lost or a
load miss its bytes, and records the race in `raced`. (A crash would be the
other outcome.) Registers are left out: every address and value a lane may have
computed is tried. Bytes have `ByteBase` values instead of 256, the
two operand sizes are 2 and 4 instead of 4 and 8, the local window has 4 bytes
instead of 4096: the ratios that matter (one size half of the other, the window
a multiple of both) are kept. Kernels are assumed to stay inside the local window,
as a comment in the code does.

**CUDA calls.** A call is a sequence of steps at its locking points: the
initialisation under the global mutex, taking that mutex, the body, and for
launches and asynchronous copies `StreamScheduler::submit` with its own mutex,
the run of the commands taken, and the return. A launch holds the global mutex
throughout, an asynchronous copy takes it inside its command. Errors are
classes: what matters is which of them a call records as the thread's last
error, and `cudaGetLastError` gives that out and clears it. `want`, `got` and `left`
belong to the program: a launch `k<<<c>>>(...)` pushes `c`, evaluates its arguments (which may launch, to a depth of `MaxNest`), and then either its
stub pops a configuration and passes it on, or it launches without one. The
registries have no lock; as with the toolchain's constructors and destructors,
they change only while no call is under way. Launching a null function and
unregistering an unknown handle are not modelled: the first is refused in the
same place as an invalid dimension, the second changes no table. `cudaStreamCreate`
and `cudaStreamQuery` are one call, which may fail as the first of them does.

**Front end.** A text is its parameter declarations and the lines of its body.
Characters are abstracted to the classes the parser tells apart: register
ranges, named registers, labels, closing braces, skipped lines, and
instructions with operand tokens. What follows the percent sign of a named register, of a
special register or of an `%f` register stays a sequence of parts (`Spelling`), since
`rewrite_named_regs` replaces declared names textually in every token, be it a
longer name, `%tid.x` or `%f1`, and what follows the replaced part is
read as further digits or spoils the number. The order in which the names are tried is
a choice made by `Launch`, as it is the order of an `unordered_map`. Names that
begin with `%r` or `%p` are not registers to the parser (`NamedLines`). Addresses
and sizes of parameters are counted in units of four bytes. The first pass
(`RegU32Count`, `NamedId`, `LabelPc`) and the second (`Tokenize`, `ParseTokens`)
are separate operators, as the code's disagreements would be between them. The
mapper tries every candidate of the ISA table (`MapOne`) and gives the code's four
diagnostics; the lookup of a descriptor takes the first match.

**Execution core.** A warp's register files are functions from the code's index
(register times warp size plus lane) to values, zero where nothing was written.
A micro-op serves the lanes of its mask in ascending order, each on what the
lanes before it left (`ExecLane`), as the loops of `ExecCore::step` do. The widths
32 and 64 are `Bits32` and `Bits64`; f32 operations are operators on bit patterns,
instantiated with ones that do not associate. The grid is one block of one warp:
threads, blocks and warps are `LaunchGrid`'s and `MemUnit`'s subject, divergence is
`SimtWarp`'s. Global memory has nothing allocated, so that accesses to it fault.

**One kernel after the other.** `Launch` does what `run_kernel_tokens_impl` and its
callers do up to `exec.run`: parse, pack the arguments by position (shim) or by
name (workload), map, set layout and blob. A refused launch leaves the previous
layout and blob in place, as in the code. `Branch`, `Return`, `Compute` and `Fault`
are the run loop on one instruction. `ref` is a history variable: the same
launch executed by `PtxMeaning`, in which registers are told apart by name, all
lanes read before any writes, and a branch goes to its label. The comparison is
made for texts that are `Conforming`. What this leaves out is listed, since each
item is a way in which code and text differ: a shuffle by index into the
register it reads (a lane sees what a lower lane received); `%r` registers in
64-bit instructions (they name the other file); more 32-bit registers than
the bias of the `%f` registers; a shift by the width or more (the count is
taken modulo the width); a nested closing brace (it ends the kernel); a line without an opcode (the first pass
counts it, the second does not); parameters of other types; and names that can be
taken for something else (`NamesApart`): one that followed by digits is
another operand, one that is a special register's, one declared with two types.
Many of these are among the texts launched, and the model
does with them what the code does. Section 3 says what becomes of a
name that is another one's with a digit behind it.

**Trace.** For each instruction a worker stamps, pushes and counts three events;
each of these is an action, and the clock starts again with every run. An
instruction has one micro-op, and the `SIMT_` events, which go through the same
calls, are left out. `emitted` is a history variable.

## 3. What the runs check

| Run | Question | Bounds and why they suffice | Result |
|---|---|---|---|
| `control_flow_analysis` | Does the iteration compute post-dominance, and the immediate one? | every kernel of up to 4 instructions over fall-through, RET, BRA and predicated BRA to every target, and of 3 with the odd shapes (no descriptor, no target, two BRAs, BRA and RET). Loops, unreachable and non-exiting code all occur | holds |
| `simt_warp` | Does the stack keep every lane on one path, does a lane behave like a thread, do lanes meet at joins before anything runs there (where nested branches have different joins), does a loop-free kernel end? | three lanes (a split of a split), 17 kernels covering nesting, loops, early returns, double branches and each fault | holds |
| `workers` | Are CTAs conserved and dispatched in order, faults reported, the budget respected, the warp policy kept, does the run end? | three configurations: three workers on one queue (one stops, one faults, one runs) with four CTAs; a queue for each of two workers, two CTAs each, warps in order; the serial path with three interleaved warps and a budget of 5 so that the cursor wraps | holds |
| `workload` | Stream order, event order, true deadlocks, termination | every placement of up to two records and waits of two events in three streams, and longer workloads with failures | holds |
| `device_memory` | Do the two tables behave as a heap? Which copies are accepted? | two blocks in ten addresses, so that the second may be the first one's neighbour and copies overlap; acceptance is asked for every pointer and size, so sums wrap; the allocator's own address does not | holds |
| `mem_unit` | Are threads enumerated once, are loads whole, is local memory private? | some 650 launches, up to three extents in each dimension, four warp sizes, and blocks around `LaneBaseLimit`, which is 16, for the geometry; two workers with all sequences of three micro-ops on one-lane warps and of two on two-lane warps, the latter under both CTA schedulers, so that stores of both sizes and a load meet | holds |
| `mem_unit_race` | Does local memory survive several SMs? | as above | **violated** |
| `shim_calls` | Do calls return, do commands stay with their caller, does a kernel ever run with a configuration left behind by an earlier launch? | two threads with one call each, or one with two calls whose launches are nested two deep; usable and zero dimensions, failed initialisation and refused launches. Two calls meet at every pair of locking points; a configuration left behind takes one launch that fails and one that follows. Other threads reach a launch only through the latch, the mutexes and the registries, and the theorem `NoLaunchIsStale` covers any number of them and of calls | holds |
| `nested_launch` | Does a kernel run with the configuration of its own launch? | as `shim_calls` | **violated** |
| `kernel_run` | Do registers, predicates, local memory and pc stay what the text says? | 361 texts with each pair of 19 instructions (shuffles, also in place; predicated; signed; both widths) on three lanes whose values differ; named registers declared in four orders with names that are prefixes of each other or of a special register, with and without numbered ranges; every order of the hash table; forward and backward branches; four parameter lists with seven ways to launch each, two launches in a row. Registers have 4 and 8 bits, so results wrap; the warp of 3 is smaller than the shuffle's segments | holds |
| `dropped_params` | Does every parameter the kernel can load hold its own argument? | the parameter lists of `kernel_run` | **violated** |
| `trace` | Is the trace the newest events in order? Do counters agree? | two workers, one instruction each in two kernels, so up to 14 events in rings of 0, 1 and 3 (several wraps, also between kernels), and tracing off. Workers are interchangeable, hence the symmetry | holds |

The named bounds are `MaxLen`, `NumPreds` (8 in the code), `MaxSteps` (a
parameter of the code), `MaxOps`, `MaxAllocs`, `Budgets`,
`MaxNest`, `MaxModules`, `LaunchBound`, `MaxInsts` and `MaxRuns`.

Once the allocator's next address has wrapped around, after 2^64 bytes, blocks
overlap and neither `InsideIsAccepted` nor `BehavesAsHeap` holds any more; that
both hold until then is proved (section 4). `CopiesStayInside` holds after it as
well: the allocator of the run never wraps, so that is shown by the theorem
`CopiesAreSafe` alone.

The violated runs each state what a document or a comment of the repository says and
are listed as findings:

- `mem_unit_race`: two SMs that store to local memory at the same time race on one
  unlocked map.
- `nested_launch`: a launch with a zero dimension is not refused when a launch around it
  has its configuration on the stack, but runs with that one. `NoStaleConfig`
  states what holds in spite of it: configurations only ever come from launches
  that are still to be made.
- `dropped_params`: a parameter of a type other than `.u32` and `.u64` is dropped by the
  parser without a word, after which the shim gives every later parameter the argument
  of an earlier one.

More departures from the documents are visible in the models without a run of
their own:

- A nested divergent branch that shares its reconvergence point, or a loop left lane by
  lane, makes several join frames wait at one pc, and the inner one goes on
  (`ResumeJoin`) without the others, although
  `docs/doc_design/ptx6.4_sm70/04.01_simt_divergence_and_reconvergence.md:37` has all
  paths merge into one mask at the reconvergence point. Results are unaffected:
  `LanesAreThreads` holds on those kernels too. `DistinctJoinsReconverge` and the theorem
  `JoinsReconverge` state where lanes do meet.
- A run cut short by the step budget is reported as completed: a worker that finds the
  budget spent leaves no diagnostic, and `completed` is `!diag` (`Join`;
  `docs/doc_user/public_api.md:94`: "whether execution completed").
  `CompletedUnlessCut` states that this is the only way in which a completed run can be
  incomplete.
- In a block of more than 2^32 threads, which the checks of a launch accept, the 32-bit
  places wrap around (`LaneBase`), so that lanes of several warps run as one thread; with
  2^32 warps or more the workers never get past the set-up of their first CTA
  (`SetUpEnds`). `docs/doc_dev/modules/06.01_launch_grid_block_3d.md:155-156` gives the
  places as numbers. `ThreadsCoverGrid` and `LocalIsPrivate` are stated for blocks
  within the limit (`NarrowBlock`).
- What the device memory refuses (`MemoryErrors`: copies, allocations, frees) is returned
  and not recorded, so `cudaGetLastError` does not show it
  (`cuda/docs/doc_design/cuda-shim-logical-design.md:362` asks for it).
- A name that is another one's with a digit behind it: %h becomes %r0 inside %h1, too,
  and %r01 is %r1, the register of another name (`RewriteNamed`; the comment at
  `src/frontend/parser.cpp:504` has ids assigned "without collisions"). Whether it
  happens depends on the order of a hash table; with %a of .b64 and %h, %b and %h1 of
  .b32, libstdc++ has %h before %h1. The run `kernel_run` launches such texts
  (`CollidingTexts`) without comparing them.
- `event_ids` takes in the names of waits, so a workload may wait for an event it
  never records (`docs/doc_dev/modules/07.01_stream_input_workload_spec.md:88` asks
  for an error) and ends in a deadlock.
- `Free` changes `live` only: the address space keeps a freed block, and kernels
  can still write to it (`cuda-shim-requirement.md:159` asks that it be released).
- Time stamps of different workers need not ascend in a snapshot, and start
  again with each kernel, whereas
  `docs/doc_dev/ptx6.4_sm70/05_observability_and_output_contract.md:56` calls it
  ordered by time. It is ordered by push; `EachWorkerInOrder` states what holds.

### Fairness

- `SimtWarp`: the executor thread keeps stepping its warp, so weak fairness of its
  steps as a whole. Nothing is assumed about predicates; termination is claimed
  only for kernels without backward branches.
- `SmWorkers`: weak fairness of the main thread and of each worker. A mutex
  does not promise that a waiting thread gets it, but a worker takes it a
  bounded number of times, so weak fairness is enough. No fairness
  makes a warp end: the step budget does.
- `Workload`: one thread that never blocks.
- `CudaShim`: weak fairness of each thread inside a call; a program need not call
  anything. It makes finitely many calls, so again no fair mutex is needed.

Deadlock checking is off in the runs of `CudaShim`, where the program may simply stop
calling; elsewhere the end of a run is a stuttering step, or a call is always possible.

## 4. What is proved

TLAPS checks the following for every value of the constants: every kernel, number
of lanes, workers, threads, calls, commands and bytes. Beyond the assumptions
declared with the constants, five theorems have a hypothesis, named below
(`Unwrapped`; `Roomy`; `Disciplined`; `WindowsFit`; `WordSizes` with `ParamsApart`).

**`ControlFlowAnalysisProofs`**: `SetsArePostDominators`,
`ReconvergenceIsIpdom`, `ExitingKernelsAreAccepted`, `IterationConverges`,
that the code's guard against an iteration that does not converge never fires, and
`AcceptedKernelsRun`: a kernel that is accepted, with the table computed for it, is
what `SimtWarp` assumes of its kernels (`KernelOK` and `Analysed`).
The nodes reached from a pc without passing `m` are the least set closed under
successors other than `m` (`Closed`); showing this takes induction over the steps
of a path, which is done with sets of numbers, and every later argument about
paths is one about closed sets. No set ever loses a post-dominator (`ShapeOK`). Once
the sets are stable, the nodes other than `m` with `m` in their set are closed and do not
hold the exit, so that `m` is on every path from them. For convergence, after `j` sweeps the sets are
right about all paths of up to `j` edges (`SweepOK`), so `n + 1` sweeps make them
right and one more notices it. That a candidate with the largest set is the
immediate one, and unique, is that two post-dominators of a pc post-dominate one
another one way or the other. Where control only moves forward, every pc reaches the
exit and its post-dominators lie ahead of it (`ForwardPostDominance`).

**`SimtWarpProofs`** (every number of lanes and predicates, every kernel whose
reconvergence table gives each predicated BRA a pc in the kernel or its end,
`KernelsAssumption`, and, where reconvergence is claimed, the immediate
post-dominator of each branch, `TablesAssumption`): `TypeCorrect`, `LanesStayApart`, `LanesAreKept`,
`DoneIsComplete`, `JoinsWait`, `ReconvDiagsExplained`, `ReturnsAreFinal`,
`StackStaysBounded`, `LanesRunAsThreads`, `JoinsReconverge`. None of the
invariants is inductive alone. A merge loses no lane only if the join it merges
into is there, which is `JoinWaitsBelow`; that a split duplicates and loses no
lane needs that its two masks divide the lanes of the top frame, up to lanes that
returned meanwhile (`SplitOK`); and this needs that between fetch and commit
the frame on top is a path of running lanes, and that only a predicate masks
lanes of its instruction (`ExecutingOK`, `UopsOK`). `IInv` is the conjunction of these. The
lemmas state once how each way of changing the stack (shrinking the top, popping,
merging, splitting) affects the part of it that concerns the stack; the main
lemma has one step per action. `StackStaysBounded` is for finitely many lanes
and has an invariant of its own, `DepthInv`: every split pushes two frames and
takes at least one lane off each of the two paths, so twice the lanes that a
frame answers for (a join answers for the paths above it as well) and its height
are at most 2n + 1 together (`Fits`), which the sides of a split under way will
also keep (`SidesFit`).

`LanesRunAsThreads` is the refinement of `LaneThreads`, and the only theorem that
uses `SetpAlone`: a SETP is the only micro-op of its instruction, as in every
table of the repository. A lane's pc is that of the one frame it stands in, so
popping, merging and choosing the top frame move no lane (`Follows`). What a
commit moves needs `LanesInv`: until a SETP has written, the guard is the lanes
whose predicates let the instruction run (`GuardOK`); and while a lane still
executes, no micro-op before has returned it and each branch before has set the
same `next_pc`, with the lanes of a pending split that execute on one side
and the rest on the other (`BranchOK`).

`JoinsReconverge` is `DistinctJoinsReconverge`, for the kernels it speaks of: their
control only moves forward and no two predicated branches share a reconvergence
point. That no lane
runs ahead of the others it is to meet is a matter of where the frames above a join
may still be (`NestInv`). They all come to the join's pc whatever path they take
(`MeetsAhead`), so none of them is past it. The joins waiting in a stack are
ever closer from the bottom up (`JoinsNest`), each one the table entry of a branch that all
frames above it have left behind. A split keeps this up: the join it pushes is the
immediate post-dominator of the branch, hence not beyond the point where its path was to
meet the joins below, and as distinct branches have distinct joins, it is
strictly before. Merging and popping only take frames away (`Thinner`). `RunsOK` and
`ChoiceOK` say what the instruction under way rests on: the frame it runs for, and
the table entry its pending split has read. The facts about paths are those of
`ControlFlowAnalysisProofs`, by way of an instance (`Paths`).

**`SmWorkersProofs`** (every number of SMs, CTAs, warps and steps, both of each kind
of scheduler): `TypeCorrect`, `BudgetIsKept`, `FaultsAreReported`,
`CtasAreConserved`, `DispatchIsOrdered`, `CompletedRunsAreWhole`,
`WarpPoliciesHold`. `IInv` says which places of a worker go with which CTA, SM and
state of the main thread (`PlaceOK`); why a run stopped (`StopOK`: a stop is
preceded by a diagnostic, or by a budget that is used up); that the stored
diagnostic is one of the faults (`FaultOK`); that steps counted, and those that
passed the test and are yet to be counted, exceed the budget by at most the number of
other workers (`BudgetOK`); that queues hold what was submitted and not yet
popped, in order, and every CTA is in exactly one place (`OrderOK`, `ShareOK`);
and, for the cursor of round robin, that a warp has waited at most as long as its
distance behind the cursor (`PolicyOK`).

**`WorkloadProofs`** (every number of streams, set of events and workload):
`TypeCorrect`, `WaitsAreKept`, `DeadlocksAreReal`, and `StreamsRefine`, the safety
refinement of `StreamOrder`. `IInv` adds to the invariants that the signaled
events are exactly those of the records executed (`SignaledOK`) and what a pass
knows so far (`PassOK`): if it has not progressed, then every stream before the
current one is empty or waits for an event that is not signaled, and
`any_remaining` says whether one of them has commands. That is what makes a
pass without progress a real deadlock.

**`DeviceMemoryProofs`** (every width, alignment and set of sizes):
`TypeCorrect`, and `CopiesAreSafe`, that no copy which is carried out leaves a
live block. The argument needs only `TypeOK`: the shim's check puts the
pointer inside a live block, which the address space knows as well; its own check
refuses when pointer + size wraps, and without that the shim's sum does not wrap
either and its comparison is the true one. `BlocksStayApart`, `CopiesAreServed`
and `ImplementsHeap`, the refinement of `DeviceHeap`, are stated for behaviours
in which no allocation takes the next address past the end of the address space
(`Unwrapped`, which all behaviours of the run `device_memory` satisfy; in the code it
takes 2^64 allocated bytes to violate it). Then the blocks allocated so far, freed ones
included, lie below the next address and are disjoint (`BumpOK`), so the
neighbour that `find_allocation_containing` tries is the right one, and a byte is
written in one block only. `FirstAddr` is not 0 (0x1000 in the code). `RoomyIsHeap`
replaces the hypothesis by one on the constants: `MaxAllocs` blocks of the largest
size, each with its alignment, fit.

**`MemUnitProofs`** (every launch, both CTA schedulers, every number of workers, warp
size, operand sizes, addresses and values): `EveryThreadOnce`, for blocks whose places fit their 32 bits
(`NarrowBlock`, a conjunct of the property's premise: at most 2^32 threads);
`WindowsStayPrivate`, for launches whose windows fit the address space as well
(`WindowsFit`: fewer than 2^52 threads in the code, beyond which two threads share
addresses); and `LoadsStayWhole`, for all launches. Below the limit the product that
gives a warp's first place does not wrap, which is where the premise is used. The dimensions of the grid
and of the block are digits of numbers in mixed radix (`BoxNumbers`), a lane's slot
is its number in the block, and with the CTA in front it is the thread's
number in the launch; windows are rows of equal length, so a byte at an offset
inside one is in no other (`Windows`). In `IInv`, `Kept` is the property made
inductive: as long as nothing raced, the bytes a thread has stored are what the
shared map holds in its window, and what a worker loaded is that. A worker's CTA has
left the queues and is no other worker's (`CurOK`, `Given`), hence no other
worker stores into the window that was read (`GotOK`); and an access under way that
another one disturbed is on record (`RaceOK`).

`LoadsStayWhole` states `LoadsAreWhole` for operand sizes that are multiples of the
smallest one (`WordSizes`: 4 and 8 in the code) and parameters laid out aligned and
without overlap (`ParamsApart`, which the parser's natural alignment gives). A load
wider than the parameter it names sees what follows, zero where alignment has left a gap;
so the theorem allows such words of a parameter load to be zero (`WholeUpToPadding`), and
gives `LoadsAreWhole` as it stands for layouts without gaps (`NoPadding`, as in the run;
TLC evaluates all three). Bytes are the digits of a number in base `ByteBase`:
`WeightFacts` identifies `Weight`, a recursive function, with the powers; from this
follow that a word's bytes are those of the value it is part of (`WordDigits`), that
`unpack_le` puts each byte in its place (`Unpacked`), and that numbers with the same
bytes are the same (`SameNumber`). `WholeInv` says that every aligned word of global
memory is a word of a stored value or zero (`GlobalWhole`). An access that is aligned
covers whole words, so a store replaces words and leaves the others as they are
(`WholeWrite`), and a load reads words (`WholeRead`), each perhaps of another store.

**`CudaShimProofs`** (every number of host threads, streams and calls): `CommandsAreLocal`,
`MutexesExclude`, `LaunchesUseOwnConfig`, `NoLaunchIsStale`. The first two
follow from what a thread holds at each place of a call: its command is in
the queue, or taken, or gone (`CommandOK`), and a mutex is held by the thread that
is where it is held (`LocksOK`). A call takes the commands of its stream away under the same hold of the
mutex under which it added its own, so `queues_` is empty between calls of
`submit`. `LaunchesUseOwnConfig` is for
programs that either do not launch inside the arguments of a launch or never use
a zero dimension (`Disciplined`; the run `nested_launch` shows what happens otherwise).
`StackInv` is what it rests on: a thread's stack of configurations is that of the
launches whose arguments it is evaluating.

`NoLaunchIsStale` is for all programs, nested ones with zero dimensions included. There the
stack may lack a configuration that an inner launch has taken, so it is no longer that of the
launches under way; but it is a subsequence of it (`Within`), and stays one: a launch
pushes its configuration on both, ends both with a pop (`WithinPop`), or takes from the
stack alone. `FreshOK` says so for each place of a launch, before and after its stub has
popped, so that what is on top is the configuration of a launch around the one that takes
it, or its own (`Around`). When the initialisation has failed for good, no kernel runs any
more and nothing is claimed of the stack.

**`TraceRingProofs`** (every finite set of workers, capacity and bound): `RingInShape`;
`RingIsALog`, the refinement of `TraceLog` by `Snapshot`; `SnapshotsAreOrdered`;
`CountersAgree`. `IInv` says that a
ring not yet full has its head at 0 and its length as size, and a full one its
head inside and the capacity as size (`RingOK`); and that the stamps that
workers hold are numbers (`StampsOK`), which is what makes an event an event.
The heart is `OverwriteShifts`: reading a full ring from the slot after the
one just overwritten yields what was read before without its first element,
followed by the new one; `ModBelowTwice` removes the modulus from the indices.
`OrderOK` adds that a snapshot holds the end of what each worker has emitted, in its
order, and that a stamp is above its worker's earlier ones; `ChainOK`, that a worker's
events come in threes; `CountOK`, that a counter of fetches or commits is the number
of those events pushed less those whose worker has yet to count.

Only model-checked:

- Liveness (`LoopFreeWarpEnds`, `RunEnds`, `WorkloadEnds`, `CallsReturn`), which needs
  fairness and is outside the prover.
- `RegistersMatchText` and `PcFollowsText`, whose operators fold over lanes and texts:
  what they compute for every input needs induction over data.

`WaitsFollowRecords` is the other way round: it is proved, and no run states it,
since `StreamsKeepOrder` implies it; so is the type invariant of `SimtWarp`.

## 5. What is not modelled

- Characters of PTX: comments, white space, number formats, and modules with
  several kernels. `Parser::parse_ptx_text`, a second parser that yields images
  without the ISA table, has no caller in the runtime.
- JSON (tables, configuration, trace output) and the command line: text in,
  tables out, no state that changes afterwards.
- Floating-point arithmetic itself.
- Fat-binary and ELF parsing byte by byte: only its outcome appears
  (`RegisterFatBinary`'s entries).
- Buffers of a workload: the runner's verdict on a copy is an input.
- Shared memory, atomics and barriers: the documents mention them, the code has
  none.
- `src/runtime/engines.cpp` and `src/runtime/deps.cpp` are empty.

## 6. Plan

Done, in this order: control flow and the warp; workers and schedulers;
workloads; device memory; the CUDA calls; launch geometry and the memory unit;
the front end and the execution core, composed into kernels that run; the trace.

Next:

1. The copies of a workload with the width of offsets and sizes, composed with
   `DeviceMemory`.
2. `KernelRun` with several warps and global memory, composed with `MemUnit`.
