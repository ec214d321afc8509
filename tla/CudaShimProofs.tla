---------------------------- MODULE CudaShimProofs --------------------------
(***************************************************************************)
(* What the CUDA runtime shim promises its host threads, for every number  *)
(* of threads, calls and kernels.  The inductive invariant says, thread by *)
(* thread, where a call can be, what its command and its stack of launch   *)
(* configurations look like there, and which of the two mutexes it holds.  *)
(***************************************************************************)
EXTENDS CudaShim, SequenceTheorems, TLAPS

Places  == {"idle", "init", "stream", "lock", "body", "submit", "release", "run"}
Codes   == {"cudaSuccess", "cudaErrorUnknown", "cudaErrorInitializationError",
            "cudaErrorMemoryAllocation", "cudaErrorInvalidDeviceFunction"}
             \cup PackErrors
AnyConfig == [dims : Dims \cup {"zero"}, stream : Streams]
Apis    == {"none", "memory", "sync", "stream", "memcpyAsync", "launch"}
AllCalls == [api : Apis, fun : HostFuns \cup {"none"}, config : AnyConfig, meant : AnyConfig]

\* The types of the variables that the proofs are about.
TypeOK ==
    /\ ctx \in {"new", "ready", "fatal"}
    /\ queues = [s \in Streams |-> <<>>]
    /\ to_run \in [Threads -> Seq(Threads)]
    /\ at \in [Threads -> Places]
    /\ call \in [Threads -> AllCalls]
    /\ rc \in [Threads -> Codes \cup {"none"}]
    /\ last_error \in [Threads -> Codes]
    /\ ret \in [Threads -> Codes]
    /\ configs \in [Threads -> Seq(CallConfigs)]
    /\ want \in [Threads -> Seq(CallConfigs)]
    /\ got \in [Threads -> Seq(CallConfigs)]

\* Where each kind of call can be; before initialisation, nobody is past it.
PlaceOK(t) ==
    /\ at[t] = "idle" <=> call[t].api = "none"
    /\ at[t] \in {"lock", "body"} => call[t].api \in {"memory", "sync", "launch"}
    /\ at[t] \in {"submit", "release", "run"} => call[t].api \in {"memcpyAsync", "launch"}
    /\ ctx # "ready" => at[t] \in {"idle", "init"}

\* A command waits in its caller's own hands until it has run.
CommandOK(t) ==
    /\ to_run[t] \in {<<>>, <<t>>}
    /\ to_run[t] = <<t>> => at[t] \in {"release", "run"}
    /\ at[t] \in {"release", "run"} /\ to_run[t] = <<>> => rc[t] # "none"

\* Who holds the mutexes.
HoldsMu(t) ==
    at[t] = "body" \/ (call[t].api = "launch" /\ at[t] \in {"submit", "release", "run"})

LocksOK ==
    /\ \A t \in Threads : mu = t <=> HoldsMu(t)
    /\ \A t \in Threads : smu = t <=> at[t] = "release"

IInv ==
    /\ TypeOK
    /\ \A t \in Threads : PlaceOK(t) /\ CommandOK(t)
    /\ LocksOK

-----------------------------------------------------------------------------
(* Lemmas on the operators of the model.                                   *)

\* ensure_initialized is followed by the step its call needs.
LEMMA AfterInitPlaces ==
    ASSUME NEW t \in Threads
    PROVE  /\ call[t].api \in {"memory", "sync", "launch"} => AfterInit(t) = "lock"
           /\ call[t].api = "stream" => AfterInit(t) = "stream"
           /\ call[t].api = "memcpyAsync" => AfterInit(t) = "submit"
<1>1. ASSUME call[t].api \in {"memory", "sync", "launch"} PROVE AfterInit(t) = "lock"
  <2>1. call[t].api # "stream" /\ call[t].api # "memcpyAsync"
    BY <1>1
  <2> QED BY <1>1, <2>1, Zenon DEF AfterInit
<1>2. ASSUME call[t].api = "stream" PROVE AfterInit(t) = "stream"
  <2>1. call[t].api \notin {"memory", "sync", "launch"} /\ call[t].api # "memcpyAsync"
    BY <1>2
  <2> QED BY <1>2, <2>1, Zenon DEF AfterInit
<1>3. ASSUME call[t].api = "memcpyAsync" PROVE AfterInit(t) = "submit"
  <2>1. call[t].api \notin {"memory", "sync", "launch"} /\ call[t].api # "stream"
    BY <1>3
  <2> QED BY <1>3, <2>1, Zenon DEF AfterInit
<1> QED BY <1>1, <1>2, <1>3

\* The stacks are sequences: what is pushed last is popped first.
LEMMA Stacks ==
    ASSUME NEW S, NEW s \in Seq(S), NEW c \in S
    PROVE  /\ Append(s, c) \in Seq(S) /\ Append(s, c) # <<>>
           /\ Last(Append(s, c)) = c /\ Front(Append(s, c)) = s
           /\ Len(Append(s, c)) = Len(s) + 1 /\ Len(s) \in Nat
<1>1. /\ Append(s, c) \in Seq(S) /\ Len(Append(s, c)) = Len(s) + 1 /\ Len(s) \in Nat
      /\ Append(s, c)[Len(s) + 1] = c
      /\ \A i \in 1 .. Len(s) : Append(s, c)[i] = s[i]
  OBVIOUS
<1>2. Front(Append(s, c)) = SubSeq(Append(s, c), 1, Len(s))
  BY <1>1 DEF Front
<1>3. /\ SubSeq(Append(s, c), 1, Len(s)) \in Seq(S)
      /\ Len(SubSeq(Append(s, c), 1, Len(s))) = Len(s)
      /\ \A i \in 1 .. Len(s) : SubSeq(Append(s, c), 1, Len(s))[i] = s[i]
  BY <1>1
<1>4. SubSeq(Append(s, c), 1, Len(s)) = s
  BY <1>3
<1> QED BY <1>1, <1>2, <1>4 DEF Last

LEMMA Popped ==
    ASSUME NEW S, NEW s \in Seq(S), s # <<>>
    PROVE  /\ Last(s) \in S /\ Front(s) \in Seq(S)
           /\ Len(Front(s)) = Len(s) - 1 /\ Len(s) \in Nat \ {0}
<1>1. Len(s) \in Nat \ {0}
  BY EmptySeq
<1>2. s[Len(s)] \in S
  BY <1>1, ElementOfSeq
<1>3. SubSeq(s, 1, Len(s) - 1) \in Seq(S) /\ Len(SubSeq(s, 1, Len(s) - 1)) = Len(s) - 1
  <2>1. PICK n \in Nat : n = Len(s) - 1
    BY <1>1
  <2>2. \A i \in 1 .. n : s[i] \in S
    BY <2>1, <1>1, ElementOfSeq
  <2>3. SubSeq(s, 1, n) \in Seq(S) /\ Len(SubSeq(s, 1, n)) = IF 1 <= n THEN n - 1 + 1 ELSE 0
    BY <2>2, SubSeqProperties
  <2>4. Len(SubSeq(s, 1, n)) = n
    BY <2>3
  <2> QED BY <2>1, <2>3, <2>4
<1> QED BY <1>1, <1>2, <1>3 DEF Last, Front

-----------------------------------------------------------------------------
(* The inductive step, action by action.                                   *)

LEMMA InitIInv == Init => IInv
<1> SUFFICES ASSUME Init PROVE IInv
  OBVIOUS
<1> USE DEF Init
<1>1. NoCall \in AllCalls /\ NoCall.api = "none"
  BY DEF NoCall, AllCalls, Apis, AnyConfig, NoConfig, Streams
<1>2. <<>> \in Seq(Threads) /\ <<>> \in Seq(CallConfigs)
  OBVIOUS
<1>3. TypeOK
  BY <1>1, <1>2 DEF TypeOK, Places, Codes
<1>4. \A t \in Threads : PlaceOK(t) /\ CommandOK(t)
  BY <1>1 DEF PlaceOK, CommandOK
<1>5. LocksOK
  BY <1>1, CudaShimAssumption DEF LocksOK, HoldsMu
<1> QED BY <1>3, <1>4, <1>5 DEF IInv

\* A call returns: what fail() and the plain returns leave behind.
LEMMA ReturnStep ==
    ASSUME IInv, NEW t \in Threads, NEW code \in Codes, NEW recorded \in BOOLEAN,
           Returns(t, code, recorded), to_run[t] = <<>>,
           UNCHANGED <<smu, queues, to_run, want, got>>,
           configs' \in [Threads -> Seq(CallConfigs)],
           ctx' \in {"new", "ready", "fatal"}, ctx' = ctx \/ ctx = "new",
           at[t] # "release",
           mu' = IF HoldsMu(t) THEN NoThread ELSE mu
    PROVE  IInv'
<1> USE DEF Returns
<1>1. NoCall \in AllCalls /\ NoCall.api = "none"
  BY DEF NoCall, AllCalls, Apis, AnyConfig, NoConfig, Streams
<1>2. /\ at' = [at EXCEPT ![t] = "idle"] /\ call' = [call EXCEPT ![t] = NoCall]
      /\ rc' = [rc EXCEPT ![t] = "none"] /\ ret' = [ret EXCEPT ![t] = code]
      /\ last_error' = IF recorded THEN [last_error EXCEPT ![t] = code] ELSE last_error
  OBVIOUS
<1> HIDE DEF Returns
<1>3. TypeOK'
  BY <1>1, <1>2 DEF IInv, TypeOK, Places
<1>4. ASSUME NEW u \in Threads PROVE PlaceOK(u)' /\ CommandOK(u)'
  <2>1. CASE u = t
    BY <1>1, <1>2, <2>1 DEF IInv, TypeOK, PlaceOK, CommandOK
  <2>2. CASE u # t
    BY <1>2, <2>2 DEF IInv, TypeOK, PlaceOK, CommandOK
  <2> QED BY <2>1, <2>2
<1>5. LocksOK'
  <2>1. ASSUME NEW u \in Threads PROVE (mu = u <=> HoldsMu(u))'
    BY <1>1, <1>2, CudaShimAssumption DEF IInv, TypeOK, LocksOK, HoldsMu
  <2>2. ASSUME NEW u \in Threads PROVE (smu = u <=> at[u] = "release")'
    BY <1>2 DEF IInv, TypeOK, LocksOK
  <2> QED BY <2>1, <2>2 DEF LocksOK
<1> QED BY <1>3, <1>4, <1>5 DEF IInv

\* Steps that neither begin nor end a call, nor touch a mutex.
LEMMA QuietStep ==
    ASSUME IInv,
           UNCHANGED <<ctxVars, at, call, rc>>,
           configs' \in [Threads -> Seq(CallConfigs)],
           want' \in [Threads -> Seq(CallConfigs)],
           got' \in [Threads -> Seq(CallConfigs)],
           \/ UNCHANGED <<last_error, ret>>
           \/ \E t \in Threads :
                /\ last_error' = [last_error EXCEPT ![t] = "cudaSuccess"]
                /\ ret' = [ret EXCEPT ![t] = last_error[t]]
    PROVE  IInv'
<1>1. TypeOK'
  BY DEF IInv, TypeOK, Codes, ctxVars
<1>2. \A u \in Threads : PlaceOK(u)' /\ CommandOK(u)'
  BY DEF IInv, PlaceOK, CommandOK, ctxVars
<1>3. LocksOK'
  BY DEF IInv, LocksOK, HoldsMu, ctxVars
<1> QED BY <1>1, <1>2, <1>3 DEF IInv

\* A call that needs the runtime begins.
LEMMA BeginStep ==
    ASSUME IInv, NEW t \in Threads, NEW new \in AllCalls, new.api # "none",
           at[t] = "idle", at' = [at EXCEPT ![t] = "init"],
           call' = [call EXCEPT ![t] = new],
           UNCHANGED <<ctxVars, rc, last_error, configs, ret>>,
           want' \in [Threads -> Seq(CallConfigs)],
           got' \in [Threads -> Seq(CallConfigs)]
    PROVE  IInv'
<1> USE DEF ctxVars
<1>1. TypeOK'
  BY DEF IInv, TypeOK, Places
<1>2. \A u \in Threads : PlaceOK(u)' /\ CommandOK(u)'
  BY DEF IInv, TypeOK, PlaceOK, CommandOK
<1>3. ASSUME NEW u \in Threads PROVE HoldsMu(u)' <=> HoldsMu(u)
  BY DEF IInv, TypeOK, HoldsMu
<1>4. LocksOK'
  BY <1>3 DEF IInv, TypeOK, LocksOK
<1> QED BY <1>1, <1>2, <1>4 DEF IInv

LEMMA RegistrationStep == ASSUME IInv, Registration PROVE IInv'
<1>1. UNCHANGED <<ctxVars, at, call, rc, last_error, configs, ret, progVars>>
  BY DEF Registration, RegisterFatBinary, RegisterFunction, UnregisterFatBinary
<1> QED BY <1>1, QuietStep DEF progVars, IInv, TypeOK

\* What the program does between the calls that need the runtime.
LEMMA ProgramStep == ASSUME IInv, NEW t \in Threads, Program(t) PROVE IInv'
<1> USE DEF IInv
<1>0. /\ configs[t] \in Seq(CallConfigs) /\ want[t] \in Seq(CallConfigs)
      /\ got[t] \in Seq(CallConfigs)
  BY DEF TypeOK
<1>1. CASE GetLastError(t)
  BY <1>1, QuietStep DEF GetLastError, TypeOK
<1>2. CASE StreamDestroy(t)
  <2>1. PICK code \in {"cudaSuccess", "cudaErrorInvalidValue"} : Returns(t, code, TRUE)
    BY <1>2 DEF StreamDestroy
  <2>2. at[t] = "idle" /\ to_run[t] = <<>> /\ call[t].api = "none"
    BY <1>2 DEF StreamDestroy, Begin, Idle, PlaceOK, CommandOK
  <2>3. ~HoldsMu(t)
    BY <2>2 DEF HoldsMu
  <2>4. UNCHANGED <<ctxVars, regVars, configs, want, got>>
    BY <1>2 DEF StreamDestroy
  <2>5. code \in Codes
    BY DEF Codes, PackErrors
  <2> QED BY <2>1, <2>2, <2>3, <2>4, <2>5, ReturnStep DEF ctxVars, TypeOK
<1>3. CASE PopCallConfiguration(t)
  <2>1. want[t] # <<>> /\ Front(want[t]) \in Seq(CallConfigs)
    BY <1>0, <1>3, Popped DEF PopCallConfiguration
  <2>2. configs[t] # <<>> =>
          Front(configs[t]) \in Seq(CallConfigs) /\ <<Last(configs[t])>> \in Seq(CallConfigs)
    BY <1>0, Popped
  <2>3. UNCHANGED <<ctxVars, regVars, at, call, rc, last_error, ret, left>>
    BY <1>3 DEF PopCallConfiguration
  <2>4. /\ configs' \in [Threads -> Seq(CallConfigs)] /\ want' \in [Threads -> Seq(CallConfigs)]
        /\ got' \in [Threads -> Seq(CallConfigs)]
    BY <1>3, <2>1, <2>2 DEF PopCallConfiguration, TypeOK
  <2> QED BY <2>3, <2>4, QuietStep
<1>4. CASE Call(t)
  <2>1. PICK api \in {"memory", "sync", "stream", "memcpyAsync"}, s \in Streams :
          call' = [call EXCEPT ![t] = [NoCall EXCEPT !.api = api, !.config.stream = s]]
    BY <1>4 DEF Call
  <2> DEFINE new == [NoCall EXCEPT !.api = api, !.config.stream = s]
  <2>2. new \in AllCalls /\ new.api = api
    BY DEF NoCall, NoConfig, AllCalls, Apis, AnyConfig, Streams
  <2>3. call' = [call EXCEPT ![t] = new]
    BY <2>1
  <2> HIDE DEF new
  <2>4. /\ at[t] = "idle" /\ at' = [at EXCEPT ![t] = "init"]
        /\ UNCHANGED <<ctxVars, rc, last_error, configs, ret, want, got>>
    BY <1>4 DEF Call, Begin, Idle
  <2>5. want' \in [Threads -> Seq(CallConfigs)] /\ got' \in [Threads -> Seq(CallConfigs)]
    BY <2>4 DEF TypeOK
  <2> QED BY <2>2, <2>3, <2>4, <2>5, BeginStep
<1>5. ASSUME NEW c \in CallConfigs, PushCallConfiguration(t, c) PROVE IInv'
  <2>1. Append(configs[t], c) \in Seq(CallConfigs) /\ Append(want[t], c) \in Seq(CallConfigs)
    BY <1>0, Stacks
  <2> QED BY <1>5, <2>1, QuietStep DEF PushCallConfiguration, TypeOK
<1>6. ASSUME NEW f \in HostFuns, CallLaunch(t, f) PROVE IInv'
  <2> DEFINE new == [api |-> "launch", fun |-> f,
                     config |-> IF got[t] = <<>> THEN NoConfig ELSE Head(got[t]),
                     meant |-> Last(want[t])]
  <2>1. want[t] # <<>> /\ Front(want[t]) \in Seq(CallConfigs) /\ Last(want[t]) \in CallConfigs
    BY <1>0, <1>6, Popped DEF CallLaunch
  <2>2. got[t] # <<>> => Head(got[t]) \in CallConfigs
    BY <1>0
  <2>3. CallConfigs \subseteq AnyConfig /\ NoConfig \in AnyConfig
    BY DEF CallConfigs, AnyConfig, NoConfig, Streams
  <2>4. new \in AllCalls /\ new.api = "launch"
    BY <2>1, <2>2, <2>3 DEF AllCalls, Apis
  <2>5. call' = [call EXCEPT ![t] = new]
    BY <1>6 DEF CallLaunch
  <2> HIDE DEF new
  <2>6. want' \in [Threads -> Seq(CallConfigs)] /\ got' \in [Threads -> Seq(CallConfigs)]
    BY <1>6, <2>1 DEF CallLaunch, TypeOK
  <2> QED BY <1>6, <2>4, <2>5, <2>6, BeginStep DEF CallLaunch, Begin, Idle, TypeOK
<1> QED BY <1>1, <1>2, <1>3, <1>4, <1>5, <1>6 DEF Program

-----------------------------------------------------------------------------
(* The steps inside a call.                                                *)

LEMMA EnsureInitializedStep ==
    ASSUME IInv, NEW t \in Threads, EnsureInitialized(t) PROVE IInv'
<1>1. at[t] = "init" /\ UNCHANGED <<mu, smu, queues, to_run, regVars, configs, progVars>>
  BY DEF EnsureInitialized
<1>2. to_run[t] = <<>> /\ ~HoldsMu(t)
  BY <1>1 DEF IInv, CommandOK, HoldsMu
<1>3. CASE /\ ctx # "fatal" /\ ctx' = "ready" /\ at' = [at EXCEPT ![t] = AfterInit(t)]
           /\ UNCHANGED <<call, rc, last_error, ret>>
  <2>1. call[t].api # "none"
    BY <1>1 DEF IInv, PlaceOK
  <2>2. call[t].api \in Apis
    BY DEF IInv, TypeOK, AllCalls
  <2>3. AfterInit(t) \in {"lock", "stream", "submit"}
    BY <2>1, <2>2, AfterInitPlaces DEF Apis
  <2>4. TypeOK'
    BY <1>1, <1>3, <2>3 DEF IInv, TypeOK, Places, progVars
  <2>5. ASSUME NEW u \in Threads PROVE PlaceOK(u)' /\ CommandOK(u)'
    <3>1. CASE u = t
      BY <1>1, <1>2, <1>3, <2>1, <2>2, <2>3, <3>1, AfterInitPlaces
         DEF IInv, TypeOK, PlaceOK, CommandOK, Apis
    <3>2. CASE u # t
      BY <1>1, <1>3, <3>2 DEF IInv, TypeOK, PlaceOK, CommandOK
    <3> QED BY <3>1, <3>2
  <2>6. LocksOK'
    <3>1. call[t].api = "launch" => AfterInit(t) = "lock"
      BY AfterInitPlaces
    <3>2. ASSUME NEW u \in Threads PROVE HoldsMu(u)' <=> HoldsMu(u)
      BY <1>1, <1>3, <2>3, <3>1 DEF IInv, TypeOK, HoldsMu
    <3>3. ASSUME NEW u \in Threads PROVE at'[u] = "release" <=> at[u] = "release"
      BY <1>1, <1>3, <2>3 DEF IInv, TypeOK
    <3> QED BY <1>1, <3>2, <3>3 DEF IInv, LocksOK
  <2> QED BY <2>4, <2>5, <2>6 DEF IInv
<1>4. CASE ctx # "ready" /\ ctx' = "fatal" /\ Returns(t, "cudaErrorInitializationError", TRUE)
  <2>1. "cudaErrorInitializationError" \in Codes
    BY DEF Codes
  <2> QED BY <1>1, <1>2, <1>4, <2>1, ReturnStep DEF progVars, IInv, TypeOK
<1> QED BY <1>3, <1>4 DEF EnsureInitialized

\* A call of one step and its way out: stream calls, memory calls, waits.
LEMMA StreamCallStep == ASSUME IInv, NEW t \in Threads, StreamCall(t) PROVE IInv'
<1>1. PICK code \in {"cudaSuccess", "cudaErrorMemoryAllocation"} : Returns(t, code, TRUE)
  BY DEF StreamCall
<1>2. at[t] = "stream" /\ UNCHANGED <<ctxVars, regVars, configs, progVars>>
  BY DEF StreamCall
<1>3. to_run[t] = <<>> /\ ~HoldsMu(t)
  BY <1>2 DEF IInv, CommandOK, HoldsMu
<1>4. code \in Codes
  BY DEF Codes
<1> QED BY <1>1, <1>2, <1>3, <1>4, ReturnStep DEF progVars, ctxVars, IInv, TypeOK

LEMMA BodyStep ==
    ASSUME IInv, NEW t \in Threads, MemoryBody(t) \/ SyncBody(t) \/ LaunchFails(t)
    PROVE  IInv'
<1>1. at[t] = "body" /\ Unlock /\ UNCHANGED <<regVars, progVars>>
  BY DEF MemoryBody, SyncBody, LaunchFails
<1>2. PICK code \in Codes, recorded \in BOOLEAN : Returns(t, code, recorded)
  <2>1. CASE MemoryBody(t)
    <3>1. PICK c \in MemoryCodes : Returns(t, c, c \notin MemoryErrors)
      BY <2>1 DEF MemoryBody
    <3>2. MemoryCodes \subseteq Codes
      BY DEF MemoryCodes, MemoryErrors, Codes, PackErrors
    <3> QED BY <3>1, <3>2
  <2>2. CASE SyncBody(t)
    BY <2>2 DEF SyncBody, DumpCodes, Codes
  <2>3. CASE LaunchFails(t)
    <3>1. PICK c \in LaunchErrors(t) : Returns(t, c, TRUE)
      BY <2>3 DEF LaunchFails
    <3>2. LaunchErrors(t) \subseteq Codes
      BY DEF LaunchErrors, PackErrors, Codes
    <3> QED BY <3>1, <3>2
  <2> QED BY <2>1, <2>2, <2>3
<1>3. configs' \in [Threads -> Seq(CallConfigs)]
  <2>1. CASE UNCHANGED configs
    BY <2>1 DEF IInv, TypeOK
  <2>2. CASE LaunchPops(t)
    <3>1. configs[t] # <<>> => Front(configs[t]) \in Seq(CallConfigs)
      BY Popped DEF IInv, TypeOK
    <3> QED BY <2>2, <3>1 DEF LaunchPops, FallsBack, IInv, TypeOK
  <2> QED BY <2>1, <2>2 DEF MemoryBody, SyncBody, LaunchFails
<1>4. to_run[t] = <<>> /\ HoldsMu(t)
  BY <1>1 DEF IInv, CommandOK, HoldsMu
<1> QED BY <1>1, <1>2, <1>3, <1>4, ReturnStep DEF Unlock, progVars, IInv, TypeOK

LEMMA LockStep == ASSUME IInv, NEW t \in Threads, Lock(t) PROVE IInv'
<1>1. /\ at[t] = "lock" /\ mu = NoThread /\ mu' = t /\ at' = [at EXCEPT ![t] = "body"]
      /\ UNCHANGED <<ctx, smu, queues, to_run, call, rc, last_error, configs, ret, want, got>>
  BY DEF Lock, progVars
<1>2. TypeOK'
  BY <1>1 DEF IInv, TypeOK, Places
<1>3. ASSUME NEW u \in Threads PROVE PlaceOK(u)' /\ CommandOK(u)'
  BY <1>1 DEF IInv, TypeOK, PlaceOK, CommandOK
<1>4. ASSUME NEW u \in Threads PROVE HoldsMu(u)' <=> u = t
  BY <1>1, CudaShimAssumption DEF IInv, TypeOK, HoldsMu, LocksOK
<1>5. LocksOK'
  BY <1>1, <1>4 DEF IInv, TypeOK, LocksOK
<1> QED BY <1>2, <1>3, <1>5 DEF IInv

LEMMA LaunchProceedsStep == ASSUME IInv, NEW t \in Threads, LaunchProceeds(t) PROVE IInv'
<1>1. /\ at[t] = "body" /\ call[t].api = "launch" /\ at' = [at EXCEPT ![t] = "submit"]
      /\ call' = [call EXCEPT ![t].config = LaunchConfig(t)] /\ LaunchPops(t)
      /\ UNCHANGED <<ctxVars, rc, last_error, ret, want, got>>
  BY DEF LaunchProceeds, progVars
<1>2. configs[t] # <<>> =>
        Front(configs[t]) \in Seq(CallConfigs) /\ Last(configs[t]) \in CallConfigs
  BY Popped DEF IInv, TypeOK
<1>3. configs' \in [Threads -> Seq(CallConfigs)]
  BY <1>1, <1>2 DEF LaunchPops, FallsBack, IInv, TypeOK
<1>4. LaunchConfig(t) \in AnyConfig
  BY <1>2 DEF LaunchConfig, FallsBack, AnyConfig, CallConfigs, IInv, TypeOK, AllCalls
<1>5. TypeOK'
  BY <1>1, <1>3, <1>4 DEF IInv, TypeOK, AllCalls, Places, ctxVars
<1>6. ASSUME NEW u \in Threads PROVE PlaceOK(u)' /\ CommandOK(u)'
  BY <1>1 DEF IInv, TypeOK, PlaceOK, CommandOK, ctxVars
<1>7. ASSUME NEW u \in Threads PROVE HoldsMu(u)' <=> HoldsMu(u)
  BY <1>1 DEF IInv, TypeOK, HoldsMu
<1>8. LocksOK'
  BY <1>1, <1>7 DEF IInv, TypeOK, LocksOK, ctxVars
<1> QED BY <1>5, <1>6, <1>8 DEF IInv

\* The scheduler's queues are always empty, so the caller takes its own command.
LEMMA SubmitStep == ASSUME IInv, NEW t \in Threads, Submit(t) PROVE IInv'
<1>1. call[t].config.stream \in Streams
  BY DEF IInv, TypeOK, AllCalls, AnyConfig
<1>2. queues[call[t].config.stream] = <<>>
  BY <1>1 DEF IInv, TypeOK
<1>3. Append(queues[call[t].config.stream], t) = <<t>>
  BY <1>2
<1>4. queues' = queues
  BY <1>1, <1>2 DEF Submit, IInv, TypeOK
<1>5. /\ at[t] = "submit" /\ smu = NoThread /\ smu' = t
      /\ to_run' = [to_run EXCEPT ![t] = <<t>>]
      /\ rc' = [rc EXCEPT ![t] = "none"] /\ at' = [at EXCEPT ![t] = "release"]
      /\ UNCHANGED <<ctx, mu, call, last_error, configs, ret, want, got>>
  BY <1>3 DEF Submit, progVars
<1>6. <<t>> \in Seq(Threads)
  OBVIOUS
<1>7. TypeOK'
  BY <1>4, <1>5, <1>6 DEF IInv, TypeOK, Places
<1>8. ASSUME NEW u \in Threads PROVE PlaceOK(u)' /\ CommandOK(u)'
  BY <1>5 DEF IInv, TypeOK, PlaceOK, CommandOK
<1>9. ASSUME NEW u \in Threads PROVE HoldsMu(u)' <=> HoldsMu(u)
  BY <1>5 DEF IInv, TypeOK, HoldsMu
<1>10. ASSUME NEW u \in Threads PROVE at'[u] = "release" <=> u = t
  BY <1>5, CudaShimAssumption DEF IInv, TypeOK, LocksOK
<1>11. LocksOK'
  BY <1>5, <1>9, <1>10 DEF IInv, LocksOK
<1> QED BY <1>7, <1>8, <1>11 DEF IInv

LEMMA ReleaseStep == ASSUME IInv, NEW t \in Threads, Release(t) PROVE IInv'
<1>1. /\ at[t] = "release" /\ smu' = NoThread /\ at' = [at EXCEPT ![t] = "run"]
      /\ UNCHANGED <<ctx, mu, queues, to_run, call, rc, last_error, configs, ret, want, got>>
  BY DEF Release, progVars
<1>2. TypeOK'
  BY <1>1 DEF IInv, TypeOK, Places
<1>3. ASSUME NEW u \in Threads PROVE PlaceOK(u)' /\ CommandOK(u)'
  BY <1>1 DEF IInv, TypeOK, PlaceOK, CommandOK
<1>4. ASSUME NEW u \in Threads PROVE HoldsMu(u)' <=> HoldsMu(u)
  BY <1>1 DEF IInv, TypeOK, HoldsMu
<1>5. ASSUME NEW u \in Threads PROVE at'[u] # "release"
  BY <1>1 DEF IInv, TypeOK, LocksOK
<1>6. LocksOK'
  BY <1>1, <1>4, <1>5, CudaShimAssumption DEF IInv, LocksOK
<1> QED BY <1>2, <1>3, <1>6 DEF IInv

LEMMA RunCommandStep == ASSUME IInv, NEW t \in Threads, RunCommand(t) PROVE IInv'
<1>1. at[t] = "run" /\ to_run[t] = <<t>>
  BY DEF RunCommand, IInv, CommandOK
<1>2. Head(to_run[t]) = t /\ Tail(to_run[t]) = <<>>
  BY <1>1
<1>3. PICK code \in CommandCodes(call[t].api) : rc' = [rc EXCEPT ![t] = code]
  BY <1>2 DEF RunCommand
<1>4. code \in Codes
  BY DEF CommandCodes, MemoryCodes, MemoryErrors, Codes, PackErrors
<1>5. /\ to_run' = [to_run EXCEPT ![t] = <<>>]
      /\ UNCHANGED <<ctx, mu, smu, queues, at, call, last_error, configs, ret, want, got>>
  BY <1>2 DEF RunCommand, progVars
<1>6. TypeOK'
  BY <1>3, <1>4, <1>5 DEF IInv, TypeOK
<1>7. code # "none"
  BY <1>4 DEF Codes, PackErrors
<1>8. ASSUME NEW u \in Threads PROVE PlaceOK(u)' /\ CommandOK(u)'
  BY <1>3, <1>5, <1>7 DEF IInv, TypeOK, PlaceOK, CommandOK
<1>9. LocksOK'
  BY <1>5 DEF IInv, LocksOK, HoldsMu
<1> QED BY <1>6, <1>8, <1>9 DEF IInv

LEMMA FinishStep == ASSUME IInv, NEW t \in Threads, Finish(t) PROVE IInv'
<1>1. /\ at[t] = "run" /\ to_run[t] = <<>>
      /\ UNCHANGED <<ctx, smu, queues, to_run, configs, want, got>>
  BY DEF Finish, progVars
<1>2. rc[t] \in Codes
  BY <1>1 DEF IInv, TypeOK, CommandOK
<1>3. PICK recorded \in BOOLEAN : Returns(t, rc[t], recorded)
  BY DEF Finish
<1>4. HoldsMu(t) <=> call[t].api = "launch"
  BY <1>1 DEF HoldsMu
<1>5. mu' = IF HoldsMu(t) THEN NoThread ELSE mu
  BY <1>4 DEF Finish
<1> QED BY <1>1, <1>2, <1>3, <1>5, ReturnStep DEF IInv, TypeOK

LEMMA StepIInv == IInv /\ [Next]_vars => IInv'
<1> SUFFICES ASSUME IInv, [Next]_vars PROVE IInv'
  OBVIOUS
<1>1. CASE Registration
  BY <1>1, RegistrationStep
<1>2. ASSUME NEW t \in Threads, Program(t) PROVE IInv'
  BY <1>2, ProgramStep
<1>3. ASSUME NEW t \in Threads, InCall(t) PROVE IInv'
  BY <1>3, EnsureInitializedStep, StreamCallStep, LockStep, BodyStep, LaunchProceedsStep,
     SubmitStep, ReleaseStep, RunCommandStep, FinishStep DEF InCall
<1>4. CASE UNCHANGED vars
  BY <1>4, QuietStep DEF vars, ctxVars, progVars, IInv, TypeOK
<1> QED BY <1>1, <1>2, <1>3, <1>4 DEF Next

-----------------------------------------------------------------------------
(* The theorems.                                                           *)

(* Every reachable state of the shim, with any number of host threads,     *)
(* satisfies the invariant: calls, commands and mutexes agree.     *)
THEOREM Invariance == Spec => []IInv
BY InitIInv, StepIInv, PTL DEF Spec

(* The commands of StreamScheduler refer to their caller's locals; none    *)
(* outlives the call that submitted it, nor is run by another call.        *)
THEOREM CommandsAreLocal == Spec => []CommandsStayWithCaller
<1>1. ASSUME IInv PROVE CommandsStayWithCaller
  <2>1. \A s \in Streams : queues[s] = <<>>
    BY <1>1 DEF IInv, TypeOK
  <2>2. ASSUME NEW t \in Threads, NEW i \in 1 .. Len(to_run[t])
        PROVE  to_run[t][i] = t /\ at[t] \in {"release", "run"}
    <3>1. to_run[t] = <<t>>
      BY <1>1, <2>2 DEF IInv, CommandOK
    <3>2. i = 1
      BY <2>2, <3>1
    <3> QED BY <1>1, <3>1, <3>2 DEF IInv, CommandOK
  <2> QED BY <2>1, <2>2 DEF CommandsStayWithCaller
<1> QED BY <1>1, Invariance, PTL

\* Two threads are never inside the same critical section.
Exclusion ==
    \A t, u \in Threads : t # u =>
      ~(HoldsMu(t) /\ HoldsMu(u)) /\ ~(at[t] = "release" /\ at[u] = "release")

(* RuntimeContext::mu_, kept by a launch while its kernel runs, and the    *)
(* mutex of StreamScheduler each have one holder, though a launch and a    *)
(* copy take them in opposite orders.                                      *)
THEOREM MutexesExclude == Spec => []Exclusion
<1>1. IInv => Exclusion
  BY DEF IInv, LocksOK, Exclusion
<1> QED BY <1>1, Invariance, PTL

-----------------------------------------------------------------------------
(* Launch configurations.                                                  *)

\* A launch inside the arguments of another one finds the outer one's
\* configuration on the stack, and takes it when its own is zero in x.
Disciplined == (\A t \in Threads : MaxNest[t] <= 1) \/ "zero" \notin Dims

\* The stack holds the configurations of the launches still to be made, but
\* for the one the stub has popped; a launch without one has its own on top.
StackOK(t) ==
    /\ got[t] # <<>> => at[t] = "idle"
    /\ IF call[t].api = "launch"
       THEN /\ got[t] = <<>> /\ Len(want[t]) < MaxNest[t] /\ call[t].meant \in CallConfigs
            /\ \/ /\ at[t] \in {"init", "lock", "body"} /\ call[t].config = NoConfig
                  /\ configs[t] = Append(want[t], call[t].meant)
               \/ call[t].config = call[t].meant /\ configs[t] = want[t]
       ELSE /\ Len(want[t]) <= MaxNest[t]
            /\ \/ got[t] = <<>> /\ configs[t] = want[t]
               \/ /\ want[t] # <<>> /\ got[t] = <<Last(want[t])>>
                  /\ configs[t] = Front(want[t])

\* Once initialisation has failed no kernel is ever launched.
StackInv == \A t \in Threads : ctx = "fatal" \/ StackOK(t)

LEMMA Rebuilt ==
    ASSUME NEW S, NEW s \in Seq(S), s # <<>>
    PROVE  s = Append(Front(s), Last(s))
<1>1. Front(s) \in Seq(S) /\ Last(s) \in S /\ Len(s) \in Nat \ {0} /\ Len(Front(s)) = Len(s) - 1
  BY Popped
<1>2. Append(Front(s), Last(s)) \in Seq(S) /\ Len(Append(Front(s), Last(s))) = Len(s)
  BY <1>1
<1>3. ASSUME NEW i \in 1 .. Len(s) PROVE Append(Front(s), Last(s))[i] = s[i]
  <2>1. CASE i = Len(s)
    BY <1>1, <2>1 DEF Last
  <2>2. CASE i < Len(s)
    <3>1. i \in 1 .. Len(Front(s))
      BY <1>1, <2>2
    <3>2. Front(s)[i] = s[i]
      BY <1>1, <3>1 DEF Front
    <3> QED BY <1>1, <3>1, <3>2
  <2> QED BY <1>1, <2>1, <2>2
<1> QED BY <1>2, <1>3, SeqEqual

\* A thread whose own state is untouched.
LEMMA StackKept ==
    ASSUME StackInv, NEW t \in Threads, ctx' = ctx \/ ctx # "fatal",
           at'[t] = at[t], call'[t] = call[t], configs'[t] = configs[t],
           want'[t] = want[t], got'[t] = got[t]
    PROVE  ctx' = "fatal" \/ StackOK(t)'
BY DEF StackInv, StackOK

LEMMA StackProgram ==
    ASSUME IInv, StackInv, NEW t \in Threads, Program(t), ctx # "fatal"
    PROVE  StackOK(t)'
<1> USE DEF IInv
<1>0. /\ configs[t] \in Seq(CallConfigs) /\ want[t] \in Seq(CallConfigs)
      /\ got[t] \in Seq(CallConfigs) /\ StackOK(t) /\ MaxNest[t] \in Nat
      /\ Len(want[t]) \in Nat
  BY CudaShimAssumption DEF TypeOK, StackInv
<1>1. CASE GetLastError(t) \/ StreamDestroy(t)
  <2>1. UNCHANGED <<configs, want, got>> /\ at'[t] = at[t] /\ call'[t].api = call[t].api
        /\ call[t].api = "none"
    BY <1>1 DEF GetLastError, StreamDestroy, Begin, Idle, Returns, TypeOK, PlaceOK, NoCall
  <2> QED BY <1>0, <2>1 DEF StackOK
<1>2. CASE PopCallConfiguration(t)
  <2>1. /\ at[t] = "idle" /\ got[t] = <<>> /\ want[t] # <<>> /\ call[t].api = "none"
        /\ UNCHANGED <<at, call>>
    BY <1>2 DEF PopCallConfiguration, Idle, PlaceOK
  <2>2. configs[t] = want[t]
    BY <1>0, <2>1 DEF StackOK
  <2>3. /\ got' = [got EXCEPT ![t] = <<Last(configs[t])>>]
        /\ configs' = [configs EXCEPT ![t] = Front(@)] /\ want' = want
    BY <1>2, <2>1, <2>2 DEF PopCallConfiguration
  <2> QED BY <1>0, <2>1, <2>2, <2>3 DEF StackOK, TypeOK
<1>3. CASE Call(t)
  <2>1. /\ got[t] = <<>> /\ call[t].api = "none" /\ UNCHANGED <<configs, want, got>>
    BY <1>3 DEF Call, Begin, Idle, PlaceOK
  <2>2. call'[t].api # "launch"
    <3>1. PICK api \in {"memory", "sync", "stream", "memcpyAsync"}, s \in Streams :
            call' = [call EXCEPT ![t] = [NoCall EXCEPT !.api = api, !.config.stream = s]]
      BY <1>3 DEF Call
    <3>2. call'[t] = [NoCall EXCEPT !.api = api, !.config.stream = s]
      BY <3>1 DEF TypeOK
    <3>3. call'[t].api = api
      BY <3>2 DEF NoCall
    <3> QED BY <3>3
  <2> QED BY <1>0, <2>1, <2>2 DEF StackOK
<1>4. ASSUME NEW c \in CallConfigs, PushCallConfiguration(t, c) PROVE StackOK(t)'
  <2>1. /\ got[t] = <<>> /\ call[t].api = "none" /\ Len(want[t]) < MaxNest[t]
        /\ want' = [want EXCEPT ![t] = Append(@, c)]
        /\ configs' = [configs EXCEPT ![t] = Append(@, c)]
        /\ UNCHANGED <<at, call, got>>
    BY <1>4 DEF PushCallConfiguration, Idle, PlaceOK
  <2>2. configs[t] = want[t]
    BY <1>0, <2>1 DEF StackOK
  <2>3. Len(Append(want[t], c)) <= MaxNest[t]
    BY <1>0, <2>1
  <2> QED BY <2>1, <2>2, <2>3 DEF StackOK, TypeOK
<1>5. ASSUME NEW f \in HostFuns, CallLaunch(t, f) PROVE StackOK(t)'
  <2>1. /\ at[t] = "idle" /\ call[t].api = "none" /\ want[t] # <<>>
        /\ call'[t] = [api |-> "launch", fun |-> f,
                       config |-> IF got[t] = <<>> THEN NoConfig ELSE Head(got[t]),
                       meant |-> Last(want[t])]
        /\ want'[t] = Front(want[t]) /\ got'[t] = <<>> /\ at'[t] = "init"
        /\ configs' = configs
    BY <1>5 DEF CallLaunch, Begin, Idle, PlaceOK, TypeOK
  <2>2. /\ Last(want[t]) \in CallConfigs /\ Len(Front(want[t])) < MaxNest[t]
        /\ want[t] = Append(Front(want[t]), Last(want[t]))
    <3>1. Len(want[t]) <= MaxNest[t]
      BY <1>0, <2>1 DEF StackOK
    <3> QED BY <1>0, <2>1, <3>1, Popped, Rebuilt
  <2>3. /\ call'[t].api = "launch" /\ call'[t].meant = Last(want[t])
        /\ call'[t].config = IF got[t] = <<>> THEN NoConfig ELSE Head(got[t])
    BY <2>1
  <2>4. CASE got[t] = <<>>
    <3>1. configs[t] = Append(want'[t], call'[t].meant)
      BY <1>0, <2>1, <2>2, <2>3, <2>4 DEF StackOK
    <3> QED BY <2>1, <2>2, <2>3, <2>4, <3>1 DEF StackOK
  <2>5. CASE got[t] # <<>>
    <3>1. got[t] = <<Last(want[t])>> /\ configs[t] = Front(want[t])
      BY <1>0, <2>1, <2>5 DEF StackOK
    <3>2. call'[t].config = call'[t].meant /\ configs'[t] = want'[t]
      BY <2>1, <2>3, <3>1
    <3> QED BY <2>1, <2>2, <2>3, <3>2 DEF StackOK
  <2> QED BY <2>4, <2>5
<1> QED BY <1>1, <1>2, <1>3, <1>4, <1>5 DEF Program

\* With mu_ held, a launch gets the configuration that was meant for it, and
\* leaves to the others what is theirs.
LEMMA LaunchTakesOwn ==
    ASSUME IInv, StackInv, Disciplined, NEW t \in Threads,
           at[t] = "body", call[t].api = "launch", LaunchPops(t)
    PROVE  LaunchConfig(t) = call[t].meant /\ configs'[t] = want[t] /\ got[t] = <<>>
<1>1. /\ StackOK(t) /\ want[t] \in Seq(CallConfigs) /\ configs \in [Threads -> Seq(CallConfigs)]
      /\ Len(want[t]) \in Nat
  <2>1. ctx = "ready"
    BY DEF IInv, TypeOK, PlaceOK
  <2>2. StackOK(t)
    BY <2>1 DEF StackInv
  <2> QED BY <2>2 DEF IInv, TypeOK
<1>2. got[t] = <<>> /\ Len(want[t]) < MaxNest[t] /\ call[t].meant \in CallConfigs
  BY <1>1 DEF StackOK
<1>3. CASE call[t].config = NoConfig /\ configs[t] = Append(want[t], call[t].meant)
  <2>1. /\ configs[t] # <<>> /\ Last(configs[t]) = call[t].meant
        /\ Front(configs[t]) = want[t]
    BY <1>1, <1>2, <1>3, Stacks
  <2>2. FallsBack(t)
    BY <1>3, <2>1 DEF FallsBack, NoConfig
  <2> QED BY <1>1, <1>2, <2>1, <2>2 DEF LaunchConfig, LaunchPops
<1>4. CASE call[t].config = call[t].meant /\ configs[t] = want[t]
  <2>1. ~FallsBack(t)
    <3>1. call[t].config.dims = "zero" => "zero" \in Dims
      BY <1>2, <1>4 DEF CallConfigs
    <3>2. MaxNest[t] <= 1 => want[t] = <<>>
      BY <1>1, <1>2, CudaShimAssumption, EmptySeq
    <3> QED BY <1>4, <3>1, <3>2 DEF FallsBack, Disciplined
  <2> QED BY <1>2, <1>4, <2>1 DEF LaunchConfig, LaunchPops
<1> QED BY <1>1, <1>2, <1>3, <1>4 DEF StackOK

\* A launch that returns, or another call of the same thread.
LEMMA StackReturn ==
    ASSUME IInv, StackInv, NEW t \in Threads, NEW code, NEW recorded, ctx # "fatal",
           Returns(t, code, recorded), UNCHANGED <<want, got>>,
           configs'[t] = IF call[t].api = "launch" THEN want[t] ELSE configs[t]
    PROVE  StackOK(t)'
<1>1. at'[t] = "idle" /\ call'[t].api = "none"
  BY DEF Returns, IInv, TypeOK, NoCall
<1>2. StackOK(t) /\ MaxNest[t] \in Nat /\ Len(want[t]) \in Nat
  BY CudaShimAssumption DEF StackInv, IInv, TypeOK
<1>3. CASE call[t].api = "launch"
  BY <1>1, <1>2, <1>3 DEF StackOK
<1>4. CASE call[t].api # "launch"
  BY <1>1, <1>2, <1>4 DEF StackOK
<1> QED BY <1>3, <1>4

LEMMA StackInCall ==
    ASSUME IInv, StackInv, Disciplined, NEW t \in Threads, InCall(t), ctx # "fatal"
    PROVE  ctx' = "fatal" \/ StackOK(t)'
<1>0. /\ StackOK(t) /\ call[t] \in AllCalls /\ PlaceOK(t)
      /\ configs[t] \in Seq(CallConfigs) /\ want[t] \in Seq(CallConfigs)
  BY DEF StackInv, IInv, TypeOK
<1>1. CASE EnsureInitialized(t)
  <2>1. CASE ctx' # "fatal"
    <3>1. /\ at[t] = "init" /\ at'[t] = AfterInit(t)
          /\ UNCHANGED <<call, configs, want, got>>
      BY <1>1, <2>1 DEF EnsureInitialized, progVars, IInv, TypeOK
    <3>2. call[t].api = "launch" => AfterInit(t) = "lock"
      BY AfterInitPlaces
    <3>3. got[t] = <<>>
      BY <1>0, <3>1 DEF StackOK
    <3> QED BY <1>0, <3>1, <3>2, <3>3 DEF StackOK
  <2> QED BY <2>1
<1>2. CASE StreamCall(t)
  <2>1. PICK code : Returns(t, code, TRUE)
    BY <1>2 DEF StreamCall
  <2>2. at[t] = "stream" /\ UNCHANGED <<configs, want, got>>
    BY <1>2 DEF StreamCall, progVars
  <2>3. configs'[t] = IF call[t].api = "launch" THEN want[t] ELSE configs[t]
    BY <1>0, <2>2 DEF StackOK
  <2> QED BY <2>1, <2>2, <2>3, StackReturn
<1>3. CASE Lock(t)
  <2>1. at[t] = "lock" /\ at'[t] = "body" /\ UNCHANGED <<call, configs, want, got>>
    BY <1>3 DEF Lock, progVars, IInv, TypeOK
  <2> QED BY <1>0, <2>1 DEF StackOK
<1>4. CASE MemoryBody(t) \/ SyncBody(t)
  <2>1. PICK code, recorded : Returns(t, code, recorded)
    BY <1>4 DEF MemoryBody, SyncBody
  <2>2. call[t].api # "launch" /\ UNCHANGED <<configs, want, got>>
    BY <1>4 DEF MemoryBody, SyncBody, progVars
  <2> QED BY <2>1, <2>2, StackReturn
<1>5. CASE LaunchFails(t)
  <2>1. PICK code : Returns(t, code, TRUE)
    BY <1>5 DEF LaunchFails
  <2>2. /\ at[t] = "body" /\ call[t].api = "launch" /\ LaunchPops(t)
        /\ UNCHANGED <<want, got>>
    BY <1>5 DEF LaunchFails, progVars
  <2>3. configs'[t] = want[t]
    BY <2>2, LaunchTakesOwn
  <2> QED BY <2>1, <2>2, <2>3, StackReturn
<1>6. CASE LaunchProceeds(t)
  <2>1. /\ at[t] = "body" /\ call[t].api = "launch" /\ LaunchPops(t)
        /\ call' = [call EXCEPT ![t].config = LaunchConfig(t)]
        /\ UNCHANGED <<want, got>>
    BY <1>6 DEF LaunchProceeds, progVars
  <2>2. LaunchConfig(t) = call[t].meant /\ configs'[t] = want[t] /\ got[t] = <<>>
    BY <2>1, LaunchTakesOwn
  <2>3. /\ call'[t].api = "launch" /\ call'[t].meant = call[t].meant
        /\ call'[t].config = call[t].meant
    BY <1>0, <2>1, <2>2 DEF IInv, TypeOK, AllCalls
  <2> QED BY <1>0, <2>1, <2>2, <2>3 DEF StackOK
<1>7. CASE Submit(t) \/ Release(t) \/ RunCommand(t)
  <2>1. /\ at[t] \in {"submit", "release", "run"} /\ at'[t] \in {"submit", "release", "run"}
        /\ UNCHANGED <<call, configs, want, got>>
    BY <1>7 DEF Submit, Release, RunCommand, progVars, IInv, TypeOK
  <2> QED BY <1>0, <2>1 DEF StackOK
<1>8. CASE Finish(t)
  <2>1. PICK code, recorded : Returns(t, code, recorded)
    BY <1>8 DEF Finish
  <2>2. at[t] = "run" /\ UNCHANGED <<configs, want, got>>
    BY <1>8 DEF Finish, progVars
  <2>3. configs'[t] = IF call[t].api = "launch" THEN want[t] ELSE configs[t]
    BY <1>0, <2>2 DEF StackOK
  <2> QED BY <2>1, <2>2, <2>3, StackReturn
<1> QED BY <1>1, <1>2, <1>3, <1>4, <1>5, <1>6, <1>7, <1>8 DEF InCall

LEMMA InitStack == Init => StackInv
BY CudaShimAssumption DEF Init, StackInv, StackOK, NoCall

\* A step of one thread leaves the others' own state alone.
LEMMA OthersUntouched ==
    ASSUME IInv, NEW t \in Threads, Program(t) \/ InCall(t), NEW u \in Threads, u # t
    PROVE  /\ at'[u] = at[u] /\ call'[u] = call[u] /\ configs'[u] = configs[u]
           /\ want'[u] = want[u] /\ got'[u] = got[u]
           /\ ctx' = ctx \/ ctx # "fatal"
<1> USE DEF IInv, TypeOK, ctxVars, progVars
<1>1. CASE Program(t)
  BY <1>1 DEF Program, GetLastError, StreamDestroy, PopCallConfiguration, Call,
     PushCallConfiguration, CallLaunch, Returns
<1>2. CASE InCall(t)
  <2>1. CASE EnsureInitialized(t) \/ StreamCall(t) \/ Lock(t) \/ MemoryBody(t) \/ SyncBody(t)
    BY <2>1 DEF EnsureInitialized, StreamCall, Lock, MemoryBody, SyncBody, Returns, Unlock
  <2>2. CASE LaunchFails(t) \/ LaunchProceeds(t)
    BY <2>2 DEF LaunchFails, LaunchProceeds, LaunchPops, Returns, Unlock
  <2>3. CASE Submit(t) \/ Release(t) \/ RunCommand(t) \/ Finish(t)
    BY <2>3 DEF Submit, Release, RunCommand, Finish, Returns
  <2> QED BY <1>2, <2>1, <2>2, <2>3 DEF InCall
<1> QED BY <1>1, <1>2

LEMMA StepStack == Disciplined /\ IInv /\ StackInv /\ [Next]_vars => StackInv'
<1> SUFFICES ASSUME Disciplined, IInv, StackInv, [Next]_vars PROVE StackInv'
  OBVIOUS
<1>1. CASE Registration \/ UNCHANGED vars
  <2>1. UNCHANGED <<ctx, at, call, configs, want, got>>
    BY <1>1 DEF Registration, RegisterFatBinary, RegisterFunction, UnregisterFatBinary, vars,
       ctxVars, progVars
  <2> QED BY <2>1 DEF StackInv, StackOK
<1>2. ASSUME NEW t \in Threads, Program(t) \/ InCall(t) PROVE StackInv'
  <2>1. ASSUME NEW u \in Threads PROVE ctx' = "fatal" \/ StackOK(u)'
    <3>1. CASE u # t
      BY <1>2, <3>1, OthersUntouched, StackKept
    <3>2. CASE u = t /\ ctx # "fatal"
      BY <1>2, <3>2, StackProgram, StackInCall
    <3>3. CASE ctx = "fatal"
      <4>1. ctx' = "fatal"
        BY <1>2, <3>3 DEF Program, InCall, GetLastError, StreamDestroy, PopCallConfiguration,
           Call, PushCallConfiguration, CallLaunch, EnsureInitialized, StreamCall, Lock,
           MemoryBody, SyncBody, LaunchFails, LaunchProceeds, Submit, Release, RunCommand,
           Finish, Unlock, ctxVars, Returns
      <4> QED BY <4>1
    <3> QED BY <3>1, <3>2, <3>3
  <2> QED BY <2>1 DEF StackInv
<1> QED BY <1>1, <1>2 DEF Next

(* However launches and other calls of the threads interleave, a kernel    *)
(* runs with the configuration of its own <<<...>>>, popped by its stub or *)
(* found on the stack by cudaLaunchKernel: for programs that do not nest   *)
(* launches, and for those that do as long as no gridDim or blockDim is    *)
(* zero in x.                                                              *)
THEOREM LaunchesUseOwnConfig == Disciplined => (Spec => []LaunchUsesOwnConfig)
<1> SUFFICES ASSUME Disciplined PROVE Spec => []LaunchUsesOwnConfig
  OBVIOUS
<1>1. IInv /\ StackInv /\ [Next]_vars => StackInv'
  BY StepStack
<1>2. ASSUME IInv, StackInv PROVE LaunchUsesOwnConfig
  <2>1. ASSUME NEW t \in Threads, call[t].api = "launch", at[t] \in {"submit", "release", "run"}
        PROVE  call[t].config = call[t].meant
    <3>1. ctx = "ready"
      BY <1>2, <2>1 DEF IInv, TypeOK, PlaceOK
    <3>2. StackOK(t)
      BY <1>2, <3>1 DEF StackInv
    <3> QED BY <2>1, <3>2 DEF StackOK
  <2> QED BY <2>1 DEF LaunchUsesOwnConfig, Launched
<1>3. IInv /\ StackInv => LaunchUsesOwnConfig
  BY <1>2
<1> QED BY <1>1, <1>3, Invariance, InitStack, PTL DEF Spec

-----------------------------------------------------------------------------
(* Nested launches, whatever their dimensions.                             *)

\* s is what is left of w when some of its elements are dropped.
Within(s, w) ==
    \E f \in [1 .. Len(s) -> 1 .. Len(w)] :
      /\ \A i, j \in 1 .. Len(s) : i < j => f[i] < f[j]
      /\ \A i \in 1 .. Len(s) : s[i] = w[f[i]]

LEMMA WithinEmpty == ASSUME NEW S, NEW w \in Seq(S) PROVE Within(<<>>, w)
<1> DEFINE f == [i \in {} |-> 1]
<1>1. Len(<<>>) = 0 /\ 1 .. 0 = {}
  OBVIOUS
<1>2. f \in [{} -> 1 .. Len(w)]
  OBVIOUS
<1> HIDE DEF f
<1>3. /\ f \in [1 .. Len(<<>>) -> 1 .. Len(w)]
      /\ \A i, j \in 1 .. Len(<<>>) : i < j => f[i] < f[j]
      /\ \A i \in 1 .. Len(<<>>) : <<>>[i] = w[f[i]]
  BY <1>1, <1>2
<1> QED BY <1>3 DEF Within

\* Both are pushed on, or both popped.
LEMMA WithinPush ==
    ASSUME NEW S, NEW s \in Seq(S), NEW w \in Seq(S), NEW c \in S, Within(s, w)
    PROVE  Within(Append(s, c), Append(w, c))
<1>1. PICK f \in [1 .. Len(s) -> 1 .. Len(w)] :
        /\ \A i, j \in 1 .. Len(s) : i < j => f[i] < f[j]
        /\ \A i \in 1 .. Len(s) : s[i] = w[f[i]]
  BY DEF Within
<1> DEFINE n == Len(s)
           m == Len(w)
           g == [i \in 1 .. n + 1 |-> IF i = n + 1 THEN m + 1 ELSE f[i]]
<1>2. /\ n \in Nat /\ m \in Nat /\ Len(Append(s, c)) = n + 1 /\ Len(Append(w, c)) = m + 1
      /\ Append(s, c)[n + 1] = c /\ Append(w, c)[m + 1] = c
      /\ \A i \in 1 .. n : Append(s, c)[i] = s[i]
      /\ \A i \in 1 .. m : Append(w, c)[i] = w[i]
  OBVIOUS
<1> HIDE DEF n, m
<1>3. \A i \in 1 .. n : f[i] \in 1 .. m
  BY <1>1 DEF n, m
<1>4. \A i \in 1 .. n + 1 : g[i] \in 1 .. m + 1
  BY <1>2, <1>3
<1>5. \A i \in 1 .. n : g[i] = f[i]
  BY <1>2
<1>6. g[n + 1] = m + 1
  BY <1>2
<1>7. g \in [1 .. n + 1 -> 1 .. m + 1]
  BY <1>4
<1> HIDE DEF g
<1>8. ASSUME NEW i \in 1 .. n + 1, NEW j \in 1 .. n + 1, i < j PROVE g[i] < g[j]
  <2>1. i \in 1 .. n /\ g[i] = f[i] /\ f[i] \in 1 .. m
    BY <1>2, <1>3, <1>5, <1>8
  <2>2. CASE j = n + 1
    BY <1>2, <1>6, <2>1, <2>2
  <2>3. CASE j \in 1 .. n
    <3>1. f[i] < f[j]
      BY <1>1, <1>8, <2>1, <2>3 DEF n
    <3> QED BY <1>5, <2>1, <2>3, <3>1
  <2> QED BY <1>2, <2>2, <2>3
<1>9. ASSUME NEW i \in 1 .. n + 1 PROVE Append(s, c)[i] = Append(w, c)[g[i]]
  <2>1. CASE i = n + 1
    BY <1>2, <1>6, <2>1
  <2>2. CASE i \in 1 .. n
    <3>1. s[i] = w[f[i]]
      BY <1>1, <2>2 DEF n
    <3> QED BY <1>2, <1>3, <1>5, <2>2, <3>1
  <2>3. n \in Nat
    BY <1>2
  <2>4. i = n + 1 \/ i \in 1 .. n
    BY <2>3
  <2> QED BY <2>1, <2>2, <2>4
<1> QED BY <1>2, <1>7, <1>8, <1>9 DEF Within

LEMMA WithinPop ==
    ASSUME NEW S, NEW s \in Seq(S), NEW w \in Seq(S), Within(s, w), s # <<>>
    PROVE  w # <<>> /\ Within(Front(s), Front(w)) /\ Within(Front(s), w) /\ Last(s) \in ToSet(w)
<1>1. PICK f \in [1 .. Len(s) -> 1 .. Len(w)] :
        /\ \A i, j \in 1 .. Len(s) : i < j => f[i] < f[j]
        /\ \A i \in 1 .. Len(s) : s[i] = w[f[i]]
  BY DEF Within
<1> DEFINE n == Len(s)
           m == Len(w)
           g == [i \in 1 .. n - 1 |-> f[i]]
<1>2. n \in Nat \ {0} /\ m \in Nat /\ Len(Front(s)) = n - 1
  BY Popped
<1>3. f[n] \in 1 .. m /\ s[n] = w[f[n]]
  BY <1>1, <1>2
<1>4. w # <<>> /\ Last(s) \in ToSet(w)
  BY <1>2, <1>3 DEF Last, ToSet
<1>5. Len(Front(w)) = m - 1
  BY <1>4, Popped
<1>6. /\ \A i \in 1 .. n - 1 : Front(s)[i] = s[i]
      /\ \A i \in 1 .. m - 1 : Front(w)[i] = w[i]
  BY <1>2, <1>4 DEF Front
<1> HIDE DEF n, m
<1>7. ASSUME NEW i \in 1 .. n - 1
      PROVE  g[i] = f[i] /\ f[i] \in 1 .. m - 1 /\ i \in 1 .. n /\ s[i] = w[f[i]]
  <2>1. i \in 1 .. n /\ n \in 1 .. n /\ i < n
    BY <1>2
  <2>2. f[i] \in 1 .. m /\ f[i] < f[n] /\ s[i] = w[f[i]]
    BY <1>1, <2>1 DEF n, m
  <2> QED BY <1>2, <1>3, <2>1, <2>2
<1>8. g \in [1 .. n - 1 -> 1 .. m - 1] /\ g \in [1 .. n - 1 -> 1 .. m]
  BY <1>2, <1>7
<1> HIDE DEF g
<1>9. ASSUME NEW i \in 1 .. n - 1, NEW j \in 1 .. n - 1, i < j PROVE g[i] < g[j]
  <2>1. f[i] < f[j]
    BY <1>1, <1>7, <1>9 DEF n
  <2> QED BY <1>7, <2>1
<1>10. ASSUME NEW i \in 1 .. n - 1
       PROVE  Front(s)[i] = w[g[i]] /\ Front(s)[i] = Front(w)[g[i]]
  BY <1>6, <1>7
<1>11. Within(Front(s), Front(w))
  BY <1>2, <1>5, <1>8, <1>9, <1>10 DEF Within
<1>12. Within(Front(s), w)
  BY <1>2, <1>8, <1>9, <1>10 DEF Within, m
<1> QED BY <1>4, <1>11, <1>12

\* The configurations in a stack, one pushed or popped.
LEMMA Pushed ==
    ASSUME NEW S, NEW w \in Seq(S), NEW c \in S
    PROVE  ToSet(Append(w, c)) = ToSet(w) \cup {c}
<1>1. /\ Len(w) \in Nat /\ Len(Append(w, c)) = Len(w) + 1 /\ Append(w, c)[Len(w) + 1] = c
      /\ \A i \in 1 .. Len(w) : Append(w, c)[i] = w[i]
  OBVIOUS
<1>2. ASSUME NEW x \in ToSet(Append(w, c)) PROVE x \in ToSet(w) \cup {c}
  <2>1. PICK i \in 1 .. Len(w) + 1 : x = Append(w, c)[i]
    BY <1>1 DEF ToSet
  <2> QED BY <1>1, <2>1 DEF ToSet
<1>3. c \in ToSet(Append(w, c))
  BY <1>1 DEF ToSet
<1>4. ASSUME NEW x \in ToSet(w) PROVE x \in ToSet(Append(w, c))
  <2>1. PICK i \in 1 .. Len(w) : x = w[i]
    BY DEF ToSet
  <2>2. i \in 1 .. Len(Append(w, c)) /\ x = Append(w, c)[i]
    BY <1>1, <2>1
  <2> QED BY <2>2 DEF ToSet
<1> QED BY <1>2, <1>3, <1>4

\* The thread's own configuration, or one of the launches around it.
Around(t) == {call[t].meant} \cup ToSet(want[t])

\* The stack is what failed launches have left of the configurations of the
\* launches still to be made.
FreshOK(t) ==
    /\ got[t] # <<>> => at[t] = "idle"
    /\ IF call[t].api = "launch"
       THEN /\ got[t] = <<>> /\ call[t].meant \in CallConfigs
            /\ \/ /\ at[t] \in {"init", "lock", "body"} /\ call[t].config = NoConfig
                  /\ Within(configs[t], Append(want[t], call[t].meant))
               \/ call[t].config \in Around(t) /\ Within(configs[t], want[t])
       ELSE \/ got[t] = <<>> /\ Within(configs[t], want[t])
            \/ /\ got[t] # <<>> /\ want[t] # <<>> /\ Head(got[t]) \in ToSet(want[t])
               /\ Within(configs[t], Front(want[t]))

FreshInv == \A t \in Threads : ctx = "fatal" \/ FreshOK(t)

LEMMA FreshKept ==
    ASSUME FreshInv, NEW t \in Threads, ctx' = ctx \/ ctx # "fatal",
           at'[t] = at[t], call'[t] = call[t], configs'[t] = configs[t],
           want'[t] = want[t], got'[t] = got[t]
    PROVE  ctx' = "fatal" \/ FreshOK(t)'
BY DEF FreshInv, FreshOK, Around

LEMMA FreshProgram ==
    ASSUME IInv, FreshInv, NEW t \in Threads, Program(t), ctx # "fatal"
    PROVE  FreshOK(t)'
<1> USE DEF IInv
<1>0. /\ configs[t] \in Seq(CallConfigs) /\ want[t] \in Seq(CallConfigs)
      /\ got[t] \in Seq(CallConfigs) /\ FreshOK(t)
  BY DEF TypeOK, FreshInv
<1>1. CASE GetLastError(t) \/ StreamDestroy(t)
  <2>1. UNCHANGED <<configs, want, got>> /\ at'[t] = at[t] /\ call'[t].api = call[t].api
        /\ call[t].api = "none"
    BY <1>1 DEF GetLastError, StreamDestroy, Begin, Idle, Returns, TypeOK, PlaceOK, NoCall
  <2> QED BY <1>0, <2>1 DEF FreshOK
<1>2. CASE PopCallConfiguration(t)
  <2>1. /\ at[t] = "idle" /\ got[t] = <<>> /\ want[t] # <<>> /\ call[t].api = "none"
        /\ UNCHANGED <<at, call>>
    BY <1>2 DEF PopCallConfiguration, Idle, PlaceOK
  <2>2. CASE configs[t] = <<>>
    <3>1. /\ want'[t] = Front(want[t]) /\ UNCHANGED <<configs, got>>
      BY <1>2, <2>2 DEF PopCallConfiguration, TypeOK
    <3>2. Within(configs[t], Front(want[t])) /\ Within(configs[t], want[t])
      BY <1>0, <2>1, <2>2, Popped, WithinEmpty
    <3> QED BY <2>1, <3>1, <3>2 DEF FreshOK
  <2>3. CASE configs[t] # <<>>
    <3>1. /\ got'[t] = <<Last(configs[t])>> /\ configs'[t] = Front(configs[t])
          /\ want' = want
      BY <1>2, <2>3 DEF PopCallConfiguration, TypeOK
    <3>2. Within(configs[t], want[t])
      BY <1>0, <2>1 DEF FreshOK
    <3>3. /\ Last(configs[t]) \in ToSet(want[t])
          /\ Within(Front(configs[t]), Front(want[t]))
      BY <1>0, <2>3, <3>2, WithinPop
    <3>4. Head(got'[t]) = Last(configs[t])
      BY <3>1
    <3> QED BY <2>1, <3>1, <3>3, <3>4 DEF FreshOK
  <2> QED BY <2>2, <2>3
<1>3. CASE Call(t)
  <2>1. /\ got[t] = <<>> /\ call[t].api = "none" /\ UNCHANGED <<configs, want, got>>
    BY <1>3 DEF Call, Begin, Idle, PlaceOK
  <2>2. call'[t].api # "launch"
    <3>1. PICK api \in {"memory", "sync", "stream", "memcpyAsync"}, s \in Streams :
            call' = [call EXCEPT ![t] = [NoCall EXCEPT !.api = api, !.config.stream = s]]
      BY <1>3 DEF Call
    <3>2. call'[t] = [NoCall EXCEPT !.api = api, !.config.stream = s]
      BY <3>1 DEF TypeOK
    <3>3. call'[t].api = api
      BY <3>2 DEF NoCall
    <3> QED BY <3>3
  <2> QED BY <1>0, <2>1, <2>2 DEF FreshOK
<1>4. ASSUME NEW c \in CallConfigs, PushCallConfiguration(t, c) PROVE FreshOK(t)'
  <2>1. /\ got[t] = <<>> /\ call[t].api = "none"
        /\ want'[t] = Append(want[t], c) /\ configs'[t] = Append(configs[t], c)
        /\ UNCHANGED <<at, call, got>>
    BY <1>4 DEF PushCallConfiguration, Idle, PlaceOK, TypeOK
  <2>2. Within(configs[t], want[t])
    BY <1>0, <2>1 DEF FreshOK
  <2>3. Within(configs'[t], want'[t])
    BY <1>0, <2>1, <2>2, WithinPush
  <2> QED BY <2>1, <2>3 DEF FreshOK
<1>5. ASSUME NEW f \in HostFuns, CallLaunch(t, f) PROVE FreshOK(t)'
  <2>1. /\ at[t] = "idle" /\ call[t].api = "none" /\ want[t] # <<>>
        /\ call'[t] = [api |-> "launch", fun |-> f,
                       config |-> IF got[t] = <<>> THEN NoConfig ELSE Head(got[t]),
                       meant |-> Last(want[t])]
        /\ want'[t] = Front(want[t]) /\ got'[t] = <<>> /\ at'[t] = "init"
        /\ configs' = configs
    BY <1>5 DEF CallLaunch, Begin, Idle, PlaceOK, TypeOK
  <2>2. /\ Last(want[t]) \in CallConfigs /\ Front(want[t]) \in Seq(CallConfigs)
        /\ want[t] = Append(Front(want[t]), Last(want[t]))
    BY <1>0, <2>1, Popped, Rebuilt
  <2>3. ToSet(want[t]) = ToSet(Front(want[t])) \cup {Last(want[t])}
    BY <2>2, Pushed
  <2>4. /\ call'[t].api = "launch" /\ call'[t].meant = Last(want[t])
        /\ call'[t].config = IF got[t] = <<>> THEN NoConfig ELSE Head(got[t])
    BY <2>1
  <2>5. CASE got[t] = <<>> /\ Within(configs[t], want[t])
    <3>1. Within(configs'[t], Append(want'[t], call'[t].meant)) /\ call'[t].config = NoConfig
      BY <2>1, <2>2, <2>4, <2>5
    <3> QED BY <2>1, <2>2, <2>4, <3>1 DEF FreshOK
  <2>6. CASE got[t] # <<>> /\ Head(got[t]) \in ToSet(want[t]) /\ Within(configs[t], Front(want[t]))
    <3>1. call'[t].config \in Around(t)' /\ Within(configs'[t], want'[t])
      BY <2>1, <2>3, <2>4, <2>6 DEF Around
    <3> QED BY <2>1, <2>2, <2>4, <3>1 DEF FreshOK
  <2> QED BY <1>0, <2>1, <2>5, <2>6 DEF FreshOK
<1> QED BY <1>1, <1>2, <1>3, <1>4, <1>5 DEF Program

\* With mu_ held, a launch takes no more than the top of the stack.
LEMMA LaunchTakesAround ==
    ASSUME IInv, FreshInv, NEW t \in Threads,
           at[t] = "body", call[t].api = "launch", LaunchPops(t)
    PROVE  /\ Within(configs'[t], want[t]) /\ got[t] = <<>>
           /\ LaunchConfig(t).dims = "usable" => LaunchConfig(t) \in Around(t)
<1>1. /\ FreshOK(t) /\ want[t] \in Seq(CallConfigs) /\ configs[t] \in Seq(CallConfigs)
      /\ configs'[t] = IF FallsBack(t) THEN Front(configs[t]) ELSE configs[t]
  <2>1. ctx = "ready"
    BY DEF IInv, TypeOK, PlaceOK
  <2>2. FreshOK(t)
    BY <2>1 DEF FreshInv
  <2> QED BY <2>2 DEF IInv, TypeOK, LaunchPops
<1>2. got[t] = <<>> /\ call[t].meant \in CallConfigs
  BY <1>1 DEF FreshOK
<1>3. CASE call[t].config = NoConfig /\ Within(configs[t], Append(want[t], call[t].meant))
  <2>1. call[t].config.dims = "zero"
    BY <1>3 DEF NoConfig
  <2>2. CASE configs[t] = <<>>
    <3>1. LaunchConfig(t).dims = "zero" /\ configs'[t] = <<>>
      BY <1>1, <2>1, <2>2 DEF LaunchConfig, FallsBack
    <3> QED BY <1>1, <1>2, <3>1, WithinEmpty
  <2>3. CASE configs[t] # <<>>
    <3>1. LaunchConfig(t) = Last(configs[t]) /\ configs'[t] = Front(configs[t])
      BY <1>1, <2>1, <2>3 DEF LaunchConfig, FallsBack
    <3>2. /\ Append(want[t], call[t].meant) \in Seq(CallConfigs)
          /\ Front(Append(want[t], call[t].meant)) = want[t]
          /\ ToSet(Append(want[t], call[t].meant)) = ToSet(want[t]) \cup {call[t].meant}
      BY <1>1, <1>2, Stacks, Pushed
    <3>3. /\ Within(Front(configs[t]), want[t])
          /\ Last(configs[t]) \in ToSet(want[t]) \cup {call[t].meant}
      BY <1>1, <1>3, <2>3, <3>2, WithinPop
    <3> QED BY <1>2, <3>1, <3>3 DEF Around
  <2> QED BY <2>2, <2>3
<1>4. CASE call[t].config \in Around(t) /\ Within(configs[t], want[t])
  <2>1. CASE FallsBack(t)
    <3>1. configs[t] # <<>> /\ LaunchConfig(t) = Last(configs[t])
      BY <2>1 DEF FallsBack, LaunchConfig
    <3>2. Within(Front(configs[t]), want[t]) /\ Last(configs[t]) \in ToSet(want[t])
      BY <1>1, <1>4, <3>1, WithinPop
    <3> QED BY <1>1, <1>2, <2>1, <3>1, <3>2 DEF Around
  <2>2. CASE ~FallsBack(t)
    BY <1>1, <1>2, <1>4, <2>2 DEF LaunchConfig
  <2> QED BY <2>1, <2>2
<1> QED BY <1>1, <1>3, <1>4 DEF FreshOK

\* A launch that returns, or another call of the same thread.
LEMMA FreshReturn ==
    ASSUME IInv, FreshInv, NEW t \in Threads, NEW code, NEW recorded, ctx # "fatal",
           Returns(t, code, recorded), UNCHANGED <<want, got>>,
           IF call[t].api = "launch" THEN Within(configs'[t], want[t])
                                     ELSE configs'[t] = configs[t]
    PROVE  FreshOK(t)'
<1>1. at'[t] = "idle" /\ call'[t].api = "none"
  BY DEF Returns, IInv, TypeOK, NoCall
<1>2. FreshOK(t)
  BY DEF FreshInv
<1>3. CASE call[t].api = "launch"
  BY <1>1, <1>2, <1>3 DEF FreshOK
<1>4. CASE call[t].api # "launch"
  BY <1>1, <1>2, <1>4 DEF FreshOK
<1> QED BY <1>3, <1>4

LEMMA FreshInCall ==
    ASSUME IInv, FreshInv, NEW t \in Threads, InCall(t), ctx # "fatal"
    PROVE  ctx' = "fatal" \/ FreshOK(t)'
<1>0. FreshOK(t) /\ call[t] \in AllCalls /\ PlaceOK(t)
  BY DEF FreshInv, IInv, TypeOK
<1>1. CASE EnsureInitialized(t)
  <2>1. CASE ctx' # "fatal"
    <3>1. /\ at[t] = "init" /\ at'[t] = AfterInit(t)
          /\ UNCHANGED <<call, configs, want, got>>
      BY <1>1, <2>1 DEF EnsureInitialized, progVars, IInv, TypeOK
    <3>2. call[t].api = "launch" => AfterInit(t) = "lock"
      BY AfterInitPlaces
    <3>3. got[t] = <<>>
      BY <1>0, <3>1 DEF FreshOK
    <3> QED BY <1>0, <3>1, <3>2, <3>3 DEF FreshOK, Around
  <2> QED BY <2>1
<1>2. CASE StreamCall(t)
  <2>1. PICK code : Returns(t, code, TRUE)
    BY <1>2 DEF StreamCall
  <2>2. at[t] = "stream" /\ UNCHANGED <<configs, want, got>>
    BY <1>2 DEF StreamCall, progVars
  <2>3. call[t].api = "launch" => Within(configs'[t], want[t])
    BY <1>0, <2>2 DEF FreshOK
  <2> QED BY <2>1, <2>2, <2>3, FreshReturn
<1>3. CASE Lock(t)
  <2>1. at[t] = "lock" /\ at'[t] = "body" /\ UNCHANGED <<call, configs, want, got>>
    BY <1>3 DEF Lock, progVars, IInv, TypeOK
  <2> QED BY <1>0, <2>1 DEF FreshOK, Around
<1>4. CASE MemoryBody(t) \/ SyncBody(t)
  <2>1. PICK code, recorded : Returns(t, code, recorded)
    BY <1>4 DEF MemoryBody, SyncBody
  <2>2. call[t].api # "launch" /\ UNCHANGED <<configs, want, got>>
    BY <1>4 DEF MemoryBody, SyncBody, progVars
  <2> QED BY <2>1, <2>2, FreshReturn
<1>5. CASE LaunchFails(t)
  <2>1. PICK code : Returns(t, code, TRUE)
    BY <1>5 DEF LaunchFails
  <2>2. /\ at[t] = "body" /\ call[t].api = "launch" /\ LaunchPops(t)
        /\ UNCHANGED <<want, got>>
    BY <1>5 DEF LaunchFails, progVars
  <2>3. Within(configs'[t], want[t])
    BY <2>2, LaunchTakesAround
  <2> QED BY <2>1, <2>2, <2>3, FreshReturn
<1>6. CASE LaunchProceeds(t)
  <2>1. /\ at[t] = "body" /\ call[t].api = "launch" /\ LaunchPops(t)
        /\ LaunchConfig(t).dims = "usable"
        /\ call' = [call EXCEPT ![t].config = LaunchConfig(t)]
        /\ UNCHANGED <<want, got>>
    BY <1>6 DEF LaunchProceeds, progVars
  <2>2. /\ Within(configs'[t], want[t]) /\ got[t] = <<>>
        /\ LaunchConfig(t) \in Around(t)
    BY <2>1, LaunchTakesAround
  <2>3. /\ call'[t].api = "launch" /\ call'[t].meant = call[t].meant
        /\ call'[t].config = LaunchConfig(t)
    BY <1>0, <2>1 DEF IInv, TypeOK, AllCalls
  <2> QED BY <1>0, <2>1, <2>2, <2>3 DEF FreshOK, Around
<1>7. CASE Submit(t) \/ Release(t) \/ RunCommand(t)
  <2>1. /\ at[t] \in {"submit", "release", "run"} /\ at'[t] \in {"submit", "release", "run"}
        /\ UNCHANGED <<call, configs, want, got>>
    BY <1>7 DEF Submit, Release, RunCommand, progVars, IInv, TypeOK
  <2> QED BY <1>0, <2>1 DEF FreshOK, Around
<1>8. CASE Finish(t)
  <2>1. PICK code, recorded : Returns(t, code, recorded)
    BY <1>8 DEF Finish
  <2>2. at[t] = "run" /\ UNCHANGED <<configs, want, got>>
    BY <1>8 DEF Finish, progVars
  <2>3. call[t].api = "launch" => Within(configs'[t], want[t])
    BY <1>0, <2>2 DEF FreshOK
  <2> QED BY <2>1, <2>2, <2>3, FreshReturn
<1> QED BY <1>1, <1>2, <1>3, <1>4, <1>5, <1>6, <1>7, <1>8 DEF InCall

LEMMA InitFresh == Init => FreshInv
<1> SUFFICES ASSUME Init, NEW t \in Threads PROVE FreshOK(t)
  BY DEF FreshInv
<1>1. /\ got[t] = <<>> /\ configs[t] = <<>> /\ want[t] = <<>> /\ call[t].api = "none"
  BY DEF Init, NoCall
<1>2. Within(configs[t], want[t])
  <2>1. <<>> \in Seq(CallConfigs)
    OBVIOUS
  <2> QED BY <1>1, <2>1, WithinEmpty
<1> QED BY <1>1, <1>2 DEF FreshOK

LEMMA StepFresh == IInv /\ FreshInv /\ [Next]_vars => FreshInv'
<1> SUFFICES ASSUME IInv, FreshInv, [Next]_vars PROVE FreshInv'
  OBVIOUS
<1>1. CASE Registration \/ UNCHANGED vars
  <2>1. UNCHANGED <<ctx, at, call, configs, want, got>>
    BY <1>1 DEF Registration, RegisterFatBinary, RegisterFunction, UnregisterFatBinary, vars,
       ctxVars, progVars
  <2> QED BY <2>1 DEF FreshInv, FreshOK, Around
<1>2. ASSUME NEW t \in Threads, Program(t) \/ InCall(t) PROVE FreshInv'
  <2>1. ASSUME NEW u \in Threads PROVE ctx' = "fatal" \/ FreshOK(u)'
    <3>1. CASE u # t
      BY <1>2, <3>1, OthersUntouched, FreshKept
    <3>2. CASE u = t /\ ctx # "fatal"
      BY <1>2, <3>2, FreshProgram, FreshInCall
    <3>3. CASE ctx = "fatal"
      <4>1. ctx' = "fatal"
        BY <1>2, <3>3 DEF Program, InCall, GetLastError, StreamDestroy, PopCallConfiguration,
           Call, PushCallConfiguration, CallLaunch, EnsureInitialized, StreamCall, Lock,
           MemoryBody, SyncBody, LaunchFails, LaunchProceeds, Submit, Release, RunCommand,
           Finish, Unlock, ctxVars, Returns
      <4> QED BY <4>1
    <3> QED BY <3>1, <3>2, <3>3
  <2> QED BY <2>1 DEF FreshInv
<1> QED BY <1>1, <1>2 DEF Next

(* However launches nest, fail and fall back, and whatever dimensions they *)
(* have: a kernel runs with the configuration of its own <<<...>>> or with *)
(* that of a launch in whose arguments it stands, never with one that an   *)
(* earlier launch left on the thread's stack.                              *)
THEOREM NoLaunchIsStale == Spec => []NoStaleConfig
<1>1. ASSUME IInv, FreshInv PROVE NoStaleConfig
  <2>1. ASSUME NEW t \in Threads, Launched(t)
        PROVE  call[t].config \in {call[t].meant} \cup ToSet(want[t])
    <3>1. ctx = "ready"
      BY <1>1, <2>1 DEF IInv, TypeOK, PlaceOK, Launched
    <3>2. FreshOK(t)
      BY <1>1, <3>1 DEF FreshInv
    <3> QED BY <2>1, <3>2 DEF FreshOK, Around, Launched
  <2> QED BY <2>1 DEF NoStaleConfig
<1>2. IInv /\ FreshInv => NoStaleConfig
  BY <1>1
<1>3. IInv /\ FreshInv /\ [Next]_vars => FreshInv'
  BY StepFresh
<1> QED BY <1>2, <1>3, Invariance, InitFresh, PTL DEF Spec

=============================================================================
