------------------------------ MODULE CudaShim ------------------------------
(***************************************************************************)
(* The CUDA runtime shim (src/cuda/src/cudart_shim): host threads call the *)
(* exported API (exports.cpp) concurrently.  RuntimeContext::mu_ guards    *)
(* initialisation, device memory and kernel launches; StreamScheduler has  *)
(* a mutex of its own and runs a stream's commands outside it; the last    *)
(* error and the stack of launch configurations are thread-local; the      *)
(* registries of modules and kernels have no lock and, as the toolchain    *)
(* does, are changed only while no API call is under way.                  *)
(*                                                                         *)
(* What device memory answers is left open here (module DeviceMemory says  *)
(* when a copy is accepted), and so is how a kernel ends.                  *)
(***************************************************************************)
EXTENDS Integers, Sequences, SequencesExt, FiniteSets

CONSTANTS Threads,     \* host threads
          HostFuns,    \* host-side kernel stubs
          Entries,     \* names of PTX entries
          Dims,        \* what gridDim and blockDim can be
          Budgets,     \* bound: the API calls of each thread, in each program
          MaxNest,     \* launches a thread nests in one another's arguments
          MaxModules   \* bound: fat binaries registered

Streams == {"null", "s"}
NoThread == "nobody"

ASSUME CudaShimAssumption ==
    /\ NoThread \notin Threads
    /\ Dims \subseteq {"usable", "zero", "flat"}
    /\ Budgets \subseteq [Threads -> Nat] /\ MaxNest \in [Threads -> Nat]
    /\ MaxModules \in Nat

VARIABLES ctx,         \* RuntimeContext: "new", "ready" or "fatal"
          mu,          \* holder of RuntimeContext::mu_
          smu,         \* holder of StreamScheduler::mu_
          queues,      \* StreamScheduler::queues_; a command is its caller's name
          to_run,      \* the commands each caller has taken
          modules,     \* FatbinRegistry: module id -> entries of its PTX
          next_id,     \* FatbinRegistry::next_id_
          kernels,     \* KernelRegistry: host function -> module and entry
          at,          \* where in its call each thread is
          call,        \* the call
          rc,          \* result of the thread's command, or "none"
          last_error,  \* ErrorState
          configs,     \* LaunchConfigStack
          ret,         \* what the thread's last call returned
          want,        \* program: configurations of the launches it is about to make
          got,         \* program: configuration popped for the next launch
          left         \* program: calls each thread may still make

ctxVars  == <<ctx, mu, smu, queues, to_run>>
regVars  == <<modules, next_id, kernels>>
progVars == <<want, got, left>>
vars     == <<ctxVars, regVars, at, call, rc, last_error, configs, ret, progVars>>

\* gridDim and blockDim: "usable", "zero" in x, or "flat", zero only in y or z.
CallConfigs == [dims : Dims, stream : Streams]
NoConfig    == [dims |-> "zero", stream |-> "null"]
NoCall      == [api |-> "none", fun |-> "none", config |-> NoConfig, meant |-> NoConfig]
Idle(t)     == at[t] = "idle"
EmptyMap    == [x \in {} |-> 0]
Without(f, S) == [x \in DOMAIN f \ S |-> f[x]]
With(f, k, v) == [x \in DOMAIN f \cup {k} |-> IF x = k THEN v ELSE f[x]]

-----------------------------------------------------------------------------
Init ==
    /\ ctx = "new" /\ mu = NoThread /\ smu = NoThread
    /\ queues = [s \in Streams |-> <<>>]
    /\ to_run = [t \in Threads |-> <<>>]
    /\ modules = EmptyMap /\ next_id = 1 /\ kernels = EmptyMap
    /\ at = [t \in Threads |-> "idle"]
    /\ call = [t \in Threads |-> NoCall]
    /\ rc = [t \in Threads |-> "none"]
    /\ last_error = [t \in Threads |-> "cudaSuccess"]
    /\ configs = [t \in Threads |-> <<>>]
    /\ ret = [t \in Threads |-> "cudaSuccess"]
    /\ want = [t \in Threads |-> <<>>]
    /\ got = [t \in Threads |-> <<>>]
    /\ left \in Budgets

-----------------------------------------------------------------------------
(* Registration, by the program's start-up and shut-down code.             *)

Quiet == \A t \in Threads : Idle(t)

\* __cudaRegisterFatBinary: E are the entries of the PTX it extracts.
RegisterFatBinary(E) ==
    /\ Quiet /\ next_id <= MaxModules
    /\ modules' = With(modules, next_id, E)
    /\ next_id' = next_id + 1
    /\ UNCHANGED <<ctxVars, kernels, at, call, rc, last_error, configs, ret, progVars>>

\* __cudaRegisterFunction with the handle of a module, or an unknown one.
RegisterFunction(m, f, e) ==
    /\ Quiet
    /\ kernels' = With(kernels, f, [module |-> IF m \in DOMAIN modules THEN m ELSE 0,
                                    entry |-> e])
    /\ UNCHANGED <<ctxVars, modules, next_id, at, call, rc, last_error, configs, ret, progVars>>

\* __cudaUnregisterFatBinary
UnregisterFatBinary(m) ==
    /\ Quiet
    /\ kernels' = Without(kernels, {f \in DOMAIN kernels : kernels[f].module = m})
    /\ modules' = Without(modules, {m})
    /\ UNCHANGED <<ctxVars, next_id, at, call, rc, last_error, configs, ret, progVars>>

-----------------------------------------------------------------------------
(* Calls that touch only the thread's own state.                           *)

Begin(t) == Idle(t) /\ left[t] > 0 /\ left' = [left EXCEPT ![t] = @ - 1]

\* fail() records the error; a plain return of an error does not.
Returns(t, code, recorded) ==
    /\ ret' = [ret EXCEPT ![t] = code]
    /\ last_error' = IF recorded THEN [last_error EXCEPT ![t] = code] ELSE last_error
    /\ at' = [at EXCEPT ![t] = "idle"]
    /\ call' = [call EXCEPT ![t] = NoCall]
    /\ rc' = [rc EXCEPT ![t] = "none"]

\* cudaGetLastError gives the error out and clears it.
GetLastError(t) ==
    /\ Begin(t)
    /\ ret' = [ret EXCEPT ![t] = last_error[t]]
    /\ last_error' = [last_error EXCEPT ![t] = "cudaSuccess"]
    /\ UNCHANGED <<ctxVars, regVars, at, call, rc, configs, want, got>>

\* Needs no initialised context; the null stream cannot be destroyed.  (A
\* cudaStreamCreate without a place for the handle fails the same way.)
StreamDestroy(t) ==
    /\ Begin(t)
    /\ \E code \in {"cudaSuccess", "cudaErrorInvalidValue"} : Returns(t, code, TRUE)
    /\ UNCHANGED <<ctxVars, regVars, configs, want, got>>

\* kernel<<<c>>>(...) begins: __cudaPushCallConfiguration.
PushCallConfiguration(t, c) ==
    /\ Idle(t) /\ got[t] = <<>> /\ Len(want[t]) < MaxNest[t] /\ left[t] > 0
    /\ want' = [want EXCEPT ![t] = Append(@, c)]
    /\ configs' = [configs EXCEPT ![t] = Append(@, c)]
    /\ UNCHANGED <<ctxVars, regVars, at, call, rc, last_error, ret, got, left>>

\* The kernel's stub: __cudaPopCallConfiguration.  It gives up the launch if
\* there is nothing to pop.
PopCallConfiguration(t) ==
    /\ Idle(t) /\ got[t] = <<>> /\ want[t] # <<>>
    /\ IF configs[t] = <<>>
       THEN want' = [want EXCEPT ![t] = Front(@)] /\ UNCHANGED <<configs, got>>
       ELSE /\ got' = [got EXCEPT ![t] = <<Last(configs[t])>>]
            /\ configs' = [configs EXCEPT ![t] = Front(@)]
            /\ UNCHANGED want
    /\ UNCHANGED <<ctxVars, regVars, at, call, rc, last_error, ret, left>>

-----------------------------------------------------------------------------
(* The other calls begin with ensure_initialized.                          *)

\* "memory": cudaMalloc, cudaFree, cudaMemcpy.  "sync": cudaDeviceSynchronize,
\* cudaStreamSynchronize.  "stream": cudaStreamCreate, cudaStreamQuery.
Call(t) ==
    /\ Begin(t) /\ got[t] = <<>>
    /\ \E api \in {"memory", "sync", "stream", "memcpyAsync"}, s \in Streams :
         /\ api # "memcpyAsync" => s = "null"
         /\ call' = [call EXCEPT ![t] = [NoCall EXCEPT !.api = api, !.config.stream = s]]
    /\ at' = [at EXCEPT ![t] = "init"]
    /\ UNCHANGED <<ctxVars, regVars, rc, last_error, configs, ret, want, got>>

\* cudaLaunchKernel of a stub, never null, with the configuration the stub
\* popped or, on the legacy path, with none.
CallLaunch(t, f) ==
    /\ Begin(t) /\ want[t] # <<>>
    /\ call' = [call EXCEPT ![t] =
                  [api |-> "launch", fun |-> f,
                   config |-> IF got[t] = <<>> THEN NoConfig ELSE Head(got[t]),
                   meant |-> Last(want[t])]]
    /\ want' = [want EXCEPT ![t] = Front(@)]
    /\ got' = [got EXCEPT ![t] = <<>>]
    /\ at' = [at EXCEPT ![t] = "init"]
    /\ UNCHANGED <<ctxVars, regVars, rc, last_error, configs, ret>>

AfterInit(t) == CASE call[t].api \in {"memory", "sync", "launch"} -> "lock"
                  [] call[t].api = "stream"                       -> "stream"
                  [] call[t].api = "memcpyAsync"                  -> "submit"

\* Mutant: a failed initialisation is tried again.
EnsureInitializedRetries(t) ==
    /\ at[t] = "init" /\ mu = NoThread
    /\ \/ /\ ctx' = "ready" /\ at' = [at EXCEPT ![t] = AfterInit(t)]
          /\ UNCHANGED <<call, rc, last_error, ret>>
       \/ /\ ctx # "ready" /\ ctx' = "fatal"
          /\ Returns(t, "cudaErrorInitializationError", TRUE)
    /\ UNCHANGED <<mu, smu, queues, to_run, regVars, configs, progVars>>

\* Under mu_.  The first call loads the assets; its failure is latched.
EnsureInitialized(t) ==
    /\ at[t] = "init" /\ mu = NoThread
    /\ \/ /\ ctx # "fatal"
          /\ ctx' = "ready" /\ at' = [at EXCEPT ![t] = AfterInit(t)]
          /\ UNCHANGED <<call, rc, last_error, ret>>
       \/ /\ ctx # "ready" /\ ctx' = "fatal"
          /\ Returns(t, "cudaErrorInitializationError", TRUE)
    /\ UNCHANGED <<mu, smu, queues, to_run, regVars, configs, progVars>>

StreamCall(t) ==
    /\ at[t] = "stream"
    /\ \E code \in {"cudaSuccess", "cudaErrorMemoryAllocation"} : Returns(t, code, TRUE)
    /\ UNCHANGED <<ctxVars, regVars, configs, progVars>>

Lock(t) ==
    /\ at[t] = "lock" /\ mu = NoThread
    /\ mu' = t
    /\ at' = [at EXCEPT ![t] = "body"]
    /\ UNCHANGED <<ctx, smu, queues, to_run, regVars, call, rc, last_error, configs, ret, progVars>>

Unlock == mu' = NoThread /\ UNCHANGED <<ctx, smu, queues, to_run>>

\* Errors found by the checks of DeviceMemory (a bad pointer, range or
\* direction) are returned but not recorded; an exception is both.
MemoryErrors == {"cudaErrorInvalidDevicePointer"}
MemoryCodes  == {"cudaSuccess", "cudaErrorUnknown"} \cup MemoryErrors

MemoryBody(t) ==
    /\ at[t] = "body" /\ call[t].api = "memory"
    /\ \E code \in MemoryCodes : Returns(t, code, code \notin MemoryErrors)
    /\ Unlock
    /\ UNCHANGED <<regVars, configs, progVars>>

\* dump_observability writes the trace and the counters, or fails.
DumpCodes == {"cudaSuccess", "cudaErrorUnknown"}

SyncBody(t) ==
    /\ at[t] = "body" /\ call[t].api = "sync"
    /\ \E code \in DumpCodes : Returns(t, code, TRUE)
    /\ Unlock
    /\ UNCHANGED <<regVars, configs, progVars>>

-----------------------------------------------------------------------------
(* cudaLaunchKernel, with mu_ held.                                        *)

\* The configuration is popped when the call came with none.
FallsBack(t) == call[t].config.dims = "zero" /\ configs[t] # <<>>

LaunchConfig(t) == IF FallsBack(t) THEN Last(configs[t]) ELSE call[t].config

\* Is there PTX with the entry the function was registered for?
Launchable(f) ==
    /\ f \in DOMAIN kernels
    /\ kernels[f].module \in DOMAIN modules
    /\ kernels[f].entry \in modules[kernels[f].module]

\* pack_kernel_args_mvp: a null or unsupported argument, or a pointer into no
\* allocation.
PackErrors == {"cudaErrorInvalidValue", "cudaErrorNotSupported", "cudaErrorInvalidDevicePointer"}

\* The last case includes PTX that does not parse.
LaunchErrors(t) ==
    IF LaunchConfig(t).dims # "usable" THEN {"cudaErrorInvalidValue"}
    ELSE IF ~Launchable(call[t].fun) THEN {"cudaErrorInvalidDeviceFunction"}
    ELSE {"cudaErrorUnknown"} \cup PackErrors

LaunchPops(t) ==
    configs' = IF FallsBack(t) THEN [configs EXCEPT ![t] = Front(@)] ELSE configs

LaunchFails(t) ==
    /\ at[t] = "body" /\ call[t].api = "launch"
    /\ LaunchPops(t)
    /\ \E code \in LaunchErrors(t) : Returns(t, code, TRUE)
    /\ Unlock
    /\ UNCHANGED <<regVars, progVars>>

LaunchProceeds(t) ==
    /\ at[t] = "body" /\ call[t].api = "launch"
    /\ LaunchConfig(t).dims = "usable" /\ Launchable(call[t].fun)
    /\ LaunchPops(t)
    /\ call' = [call EXCEPT ![t].config = LaunchConfig(t)]
    /\ at' = [at EXCEPT ![t] = "submit"]
    /\ UNCHANGED <<ctxVars, regVars, rc, last_error, ret, progVars>>

-----------------------------------------------------------------------------
(* StreamScheduler::submit.  A launch comes here with mu_ held, an         *)
(* asynchronous copy without it.                                           *)

\* Mutant: the queue is copied, not swapped.
SubmitCopies(t) ==
    LET s == call[t].config.stream
    IN  /\ at[t] = "submit" /\ smu = NoThread
        /\ smu' = t
        /\ queues' = [queues EXCEPT ![s] = Append(@, t)]
        /\ to_run' = [to_run EXCEPT ![t] = Append(queues[s], t)]
        /\ rc' = [rc EXCEPT ![t] = "none"]
        /\ at' = [at EXCEPT ![t] = "release"]
        /\ UNCHANGED <<ctx, mu, regVars, call, last_error, configs, ret, progVars>>

\* Lock, push the command, swap the queue out.
Submit(t) ==
    LET s == call[t].config.stream
    IN  /\ at[t] = "submit" /\ smu = NoThread
        /\ smu' = t
        /\ queues' = [queues EXCEPT ![s] = <<>>]
        /\ to_run' = [to_run EXCEPT ![t] = Append(queues[s], t)]
        /\ rc' = [rc EXCEPT ![t] = "none"]
        /\ at' = [at EXCEPT ![t] = "release"]
        /\ UNCHANGED <<ctx, mu, regVars, call, last_error, configs, ret, progVars>>

\* Mutant: the scheduler's mutex is not released.
ReleaseNothing(t) ==
    /\ at[t] = "release"
    /\ at' = [at EXCEPT ![t] = "run"]
    /\ UNCHANGED <<ctxVars, regVars, call, rc, last_error, configs, ret, progVars>>

\* Unlock before the commands run.
Release(t) ==
    /\ at[t] = "release"
    /\ smu' = NoThread
    /\ at' = [at EXCEPT ![t] = "run"]
    /\ UNCHANGED <<ctx, mu, queues, to_run, regVars, call, rc, last_error, configs, ret, progVars>>

\* How a command ends: the kernel's run, or the copy.
CommandCodes(api) == IF api = "launch" THEN {"cudaSuccess", "cudaErrorUnknown"} ELSE MemoryCodes

\* The next command taken runs.  A copy locks mu_ for its duration; its
\* result goes to the caller that submitted it.
RunCommand(t) ==
    LET c == Head(to_run[t])
    IN  /\ at[t] = "run" /\ to_run[t] # <<>>
        /\ call[c].api = "memcpyAsync" => mu = NoThread
        /\ \E code \in CommandCodes(call[c].api) : rc' = [rc EXCEPT ![c] = code]
        /\ to_run' = [to_run EXCEPT ![t] = Tail(@)]
        /\ UNCHANGED <<ctx, mu, smu, queues, regVars, at, call, last_error, configs, ret, progVars>>

\* submit has returned; so does the call.
Finish(t) ==
    /\ at[t] = "run" /\ to_run[t] = <<>>
    /\ Returns(t, rc[t], call[t].api = "launch" \/ rc[t] \notin MemoryErrors)
    /\ mu' = IF call[t].api = "launch" THEN NoThread ELSE mu
    /\ UNCHANGED <<ctx, smu, queues, to_run, regVars, configs, progVars>>

-----------------------------------------------------------------------------
Registration ==
    \/ \E E \in SUBSET Entries : RegisterFatBinary(E)
    \/ \E m \in 0 .. MaxModules, f \in HostFuns, e \in Entries : RegisterFunction(m, f, e)
    \/ \E m \in DOMAIN modules : UnregisterFatBinary(m)

Program(t) ==
    \/ GetLastError(t) \/ StreamDestroy(t) \/ PopCallConfiguration(t)
    \/ Call(t)
    \/ \E c \in CallConfigs : PushCallConfiguration(t, c)
    \/ \E f \in HostFuns : CallLaunch(t, f)

InCall(t) ==
    \/ EnsureInitialized(t) \/ StreamCall(t) \/ Lock(t) \/ MemoryBody(t) \/ SyncBody(t)
    \/ LaunchFails(t) \/ LaunchProceeds(t)
    \/ Submit(t) \/ Release(t) \/ RunCommand(t) \/ Finish(t)

Next == Registration \/ \E t \in Threads : Program(t) \/ InCall(t)

Spec == Init /\ [][Next]_vars

\* A thread inside a call runs on.  It needs no fair mutex: the others make
\* only finitely many calls.
FairSpec == Spec /\ \A t \in Threads : WF_vars(InCall(t))

-----------------------------------------------------------------------------
(* Properties.                                                             *)

(* Commands hold references to their caller's locals: a command is queued  *)
(* or taken only while the call that submitted it is still under way, and  *)
(* only that call runs it.                                                 *)
CommandsStayWithCaller ==
    /\ \A s \in Streams : queues[s] = <<>>
    /\ \A t \in Threads : \A i \in 1 .. Len(to_run[t]) :
         to_run[t][i] = t /\ at[t] \in {"release", "run"}

Launched(t) == call[t].api = "launch" /\ at[t] \in {"submit", "release", "run"}

(* A kernel never runs with a configuration that an earlier launch has     *)
(* left behind, on the stack or elsewhere, whatever failed in between: it  *)
(* is its own one, or that of a launch in whose arguments it stands.       *)
NoStaleConfig ==
    \A t \in Threads : Launched(t) => call[t].config \in {call[t].meant} \cup ToSet(want[t])

(* A kernel runs with the configuration written in its own <<<...>>>,      *)
(* whether the stub popped it or the launch fell back to the stack; one    *)
(* with a zero dimension never runs, as the requirements have it.          *)
LaunchUsesOwnConfig ==
    \A t \in Threads : Launched(t) => call[t].config = call[t].meant

(* Each call returns: the two mutexes, taken in either order by launches   *)
(* and copies, never block the threads for good.                           *)
CallsReturn == \A t \in Threads : at[t] # "idle" ~> at[t] = "idle"
=============================================================================
