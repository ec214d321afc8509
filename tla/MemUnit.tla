------------------------------ MODULE MemUnit -------------------------------
(***************************************************************************)
(* MemUnit::step (src/src/units/mem_unit.cpp): the LD and ST micro-ops of  *)
(* the warps of one launch, run by the worker threads of several SMs that  *)
(* share one MemUnit object.                                               *)
(*                                                                         *)
(* A micro-op serves the lanes of its mask one after the other.  Global    *)
(* memory and the parameters are behind the mutex of AddrSpaceManager      *)
(* (src/src/memory/memory.cpp), so one lane's access is one step.  Local   *)
(* memory is the member local_, a std::unordered_map without a lock: a     *)
(* lane's access is entered and left in two steps, and accesses of two     *)
(* workers that overlap, one of them a store, are a data race.  Of what a  *)
(* race can do the model has two outcomes: a new entry is lost when another *)
(* worker inserts at the same time, and a load misses its bytes while the  *)
(* table is rehashed.                                                      *)
(*                                                                         *)
(* Addresses and values come from registers, whose contents are arbitrary. *)
(* Sizes, bytes and the local window are scaled down: a byte is a number   *)
(* below ByteBase, type_size gives a member of Sizes.                      *)
(***************************************************************************)
EXTENDS LaunchGrid, Sequences, FiniteSets

CONSTANTS SmCount,     \* worker threads
          Launches,    \* the launches to try
          MaxOps,      \* bound: micro-ops explored for each launch (0: only its geometry)
          ByteBase,    \* 256
          Sizes,       \* results of type_size: {4, 8}
          Values,      \* contents of the registers stored
          GlobalBase, GlobalSize, \* the allocated range of global memory
          GlobalAddrs, \* addresses the lanes compute for global memory
          LocalAddrs,  \* addresses the lanes compute for local memory
          Params       \* name -> [offset, value, size]: layout and arguments

Sms  == Below(SmCount)

ASSUME MemUnitAssumption ==
    /\ {SmCount, ByteBase} \subseteq Nat \ {0} /\ {GlobalBase, GlobalSize} \subseteq Nat
    /\ Sizes \subseteq Nat \ {0} /\ Values \subseteq Nat
    /\ GlobalAddrs \subseteq Nat /\ LocalAddrs \subseteq Nat
    /\ MaxOps \in [Launches -> Nat]
    /\ \A l \in Launches : /\ {l.grid_dim, l.block_dim} \subseteq Dim3(Nat, Nat, Nat)
                           /\ l.warp_size \in Nat
                           /\ l.cta_scheduler \in {"fifo", "sm_round_robin"}

VARIABLES launch,  \* grid_dim, block_dim, warp_size
          mode,    \* "launching", "running", "refused" or "endless"
          todo,    \* the CTAs in the queues of the CTA scheduler
          cur,     \* the number of the CTA each worker runs
          op,      \* the micro-op each worker executes
          got,     \* what a lane's destination register last received
          global,  \* the bytes of the allocated range of global_
          local,   \* local_
          ops,     \* micro-ops started
          mine,    \* history: what each thread has stored in its local window
          stored,  \* history: the values stored in global memory, with size
          raced    \* history: a data race on local_ has happened

vars == <<launch, mode, todo, cur, op, got, global, local, ops, mine, stored, raced>>

-----------------------------------------------------------------------------
(* Bytes.                                                                  *)

\* The weight of a byte by its place: 1, ByteBase, ByteBase squared, ...
Weight[i \in Nat] == IF i = 0 THEN 1 ELSE ByteBase * Weight[i - 1]

PackLe(v, n) == [i \in 1 .. n |-> (v \div Weight[i - 1]) % ByteBase]

UnpackLe(bytes) ==
    LET sum[i \in 0 .. Len(bytes)] ==
          IF i = 0 THEN 0 ELSE sum[i - 1] + bytes[i] * Weight[i - 1]
    IN  sum[Len(bytes)]

\* Bytes never written read as zero.
ByteAt(mem, a) == IF a \in DOMAIN mem THEN mem[a] ELSE 0

ReadSparse(mem, a, n) == [i \in 1 .. n |-> ByteAt(mem, a + i - 1)]

WriteSparse(mem, a, bytes) ==
    LET range == a .. a + Len(bytes) - 1
    IN  [i \in DOMAIN mem \cup range |-> IF i \in range THEN bytes[i - a + 1] ELSE mem[i]]

\* Mutant: no address is misaligned.
AlignedAlways(a, n) == TRUE

Aligned(a, n) == a % n = 0

\* global_range_allocated_nolock, for one allocation.
Allocated(a, n) == GlobalBase <= a /\ a + n <= GlobalBase + GlobalSize

\* param_blob_, as the launch has packed it.
ParamByte(i) ==
    IF \E p \in DOMAIN Params : i \in Params[p].offset .. Params[p].offset + Params[p].size - 1
    THEN LET p == CHOOSE p \in DOMAIN Params :
                    i \in Params[p].offset .. Params[p].offset + Params[p].size - 1
         IN  PackLe(Params[p].value, Params[p].size)[i - Params[p].offset + 1]
    ELSE 0

BlobEnds == {Params[p].offset + Params[p].size : p \in DOMAIN Params}
BlobSize == CHOOSE n \in BlobEnds \cup {0} : \A m \in BlobEnds : m <= n

\* read_param_symbol finds the symbol, and the blob is long enough.
ParamFound(p, n) == p \in DOMAIN Params /\ Params[p].offset + n <= BlobSize

ReadParam(p, n) == [i \in 1 .. n |-> ParamByte(Params[p].offset + i - 1)]

-----------------------------------------------------------------------------
(* Threads, CTAs and micro-ops.                                            *)

NumCtas == Volume(launch.grid_dim)
NoCta   == -1    \* before a worker's first acquire; NumCtas after its last

HasCta(s) == cur[s] \in Below(NumCtas)

\* The coordinates of the n-th CTA submitted.
CtaId(n) == CHOOSE id \in Inside(launch.grid_dim) : CtaLinear(launch, id) = n

\* Every lane that has a thread, by CTA, warp and lane.
Threads ==
    {t \in Below(NumCtas) \X WarpIds(launch) \X Below(launch.warp_size) :
       t[3] \in ActiveLanes(launch, t[2])}

LocalAddr(t, a) == LocalEffectiveAddr(launch, CtaId(t[1]), t[2], t[3], a)

NoOp     == [kind |-> "none"]
Faulted  == [kind |-> "fault"]
NoAccess == [off |-> -1]
NoLoad   == [space |-> "none"]
Unknown  == -1    \* the value of an unknown special register

Idle(s)    == mode = "running" /\ op[s] = NoOp
In(s, spc) == op[s].kind \in {"ld", "st"} /\ op[s].space = spc

\* The lane whose turn it is, and its thread.
Lane(s)   == CHOOSE l \in op[s].lanes : \A m \in op[s].lanes : l <= m
Thread(s) == <<cur[s], op[s].warp, Lane(s)>>

Fault(s) == op' = [op EXCEPT ![s] = Faulted]

\* The lane is served; the loop goes on with the next one.
ServeLane(s) ==
    op' = [op EXCEPT ![s].lanes = @ \ {Lane(s)}, ![s].access = NoAccess]

Receive(s, bytes) ==
    got' = [got EXCEPT ![s] = [space |-> op[s].space, thread |-> Thread(s),
                               value |-> UnpackLe(bytes), size |-> Len(bytes)]]

-----------------------------------------------------------------------------
Init ==
    /\ launch \in Launches
    /\ mode = "launching"
    /\ todo = {} /\ cur = [s \in Sms |-> NoCta]
    /\ op = [s \in Sms |-> NoOp]
    /\ got = [s \in Sms |-> NoLoad]
    /\ global = [a \in {} |-> 0] /\ local = [a \in {} |-> 0]
    /\ ops = 0
    /\ mine = [t \in {} |-> 0] /\ stored = {} /\ raced = FALSE

\* run refuses the launch, or submits its CTAs and starts the workers; none of
\* them gets past the set-up of its first CTA when that does not end.
Launch ==
    /\ mode = "launching"
    /\ IF LaunchDiag(launch) # "none"
       THEN mode' = "refused" /\ UNCHANGED <<todo, mine>>
       ELSE IF ~SetUpEnds(launch)
       THEN mode' = "endless" /\ UNCHANGED <<todo, mine>>
       ELSE /\ mode' = "running"
            /\ todo' = Below(NumCtas)
            /\ mine' = [t \in Threads |-> [k \in Below(LocalStride) |-> 0]]
    /\ UNCHANGED <<launch, cur, op, got, global, local, ops, stored, raced>>

\* The CTAs a worker may get: any with the scheduler fifo, those dealt out to
\* it with sm_round_robin.
Queue(s) ==
    IF launch.cta_scheduler = "fifo" THEN todo ELSE {n \in todo : n % SmCount = s}

Faults == {s \in Sms : op[s] = Faulted}

\* A worker is through with a CTA, if it had one, and acquires the first in its
\* queue.  It gets none when the queue is empty or a fault has stopped the run.
NextCta(s) ==
    /\ Idle(s) /\ cur[s] # NumCtas
    /\ \/ \E n \in Queue(s) : /\ \A m \in Queue(s) : n <= m
                              /\ cur' = [cur EXCEPT ![s] = n] /\ todo' = todo \ {n}
       \/ /\ Queue(s) = {} \/ Faults # {}
          /\ cur' = [cur EXCEPT ![s] = NumCtas] /\ UNCHANGED todo
    /\ UNCHANGED <<launch, mode, op, got, global, local, ops, mine, stored, raced>>

\* A warp issues an LD or ST for some of its lanes.
Begin(s) ==
    /\ Idle(s) /\ HasCta(s)
    /\ ops < MaxOps[launch]
    /\ ops' = ops + 1
    /\ \E kind \in {"ld", "st"}, space \in {"param", "global", "local"}, n \in Sizes,
          w \in WarpIds(launch) : \E mask \in SUBSET ActiveLanes(launch, w) :
         op' = [op EXCEPT ![s] = [kind |-> kind, space |-> space, size |-> n,
                                  warp |-> w, lanes |-> mask, access |-> NoAccess]]
    /\ got' = [got EXCEPT ![s] = NoLoad]
    /\ UNCHANGED <<launch, mode, todo, cur, global, local, mine, stored, raced>>

\* A micro-op that fits no case: wrong arity, wrong kind of operand, a store
\* to the parameters or another operation.
Malformed(s) ==
    /\ \/ Idle(s) /\ HasCta(s) /\ ops < MaxOps[launch]
       \/ In(s, "param") /\ op[s].kind = "st"
    /\ Fault(s)
    /\ UNCHANGED <<launch, mode, todo, cur, got, global, local, ops, mine, stored, raced>>

\* ld.param reads the symbol once, whatever the mask, and gives it to the lanes.
LoadParam(s) ==
    /\ In(s, "param") /\ op[s].kind = "ld"
    /\ \E p \in DOMAIN Params \cup {"unknown"} :
         IF ParamFound(p, op[s].size)
         THEN /\ IF op[s].lanes = {} THEN UNCHANGED got
                                     ELSE Receive(s, ReadParam(p, op[s].size))
              /\ op' = [op EXCEPT ![s] = NoOp]
         ELSE Fault(s) /\ UNCHANGED got
    /\ UNCHANGED <<launch, mode, todo, cur, global, local, ops, mine, stored, raced>>

\* A lane's access to global memory fails: misaligned, a value that cannot be
\* read, or not allocated.  The lanes before it have had their access.
GlobalFault(s) ==
    /\ In(s, "global") /\ op[s].lanes # {}
    /\ \E a \in GlobalAddrs, v \in Values \cup {Unknown} :
         ~Aligned(a, op[s].size) \/ (op[s].kind = "st" /\ v = Unknown) \/ ~Allocated(a, op[s].size)
    /\ Fault(s)
    /\ UNCHANGED <<launch, mode, todo, cur, got, global, local, ops, mine, stored, raced>>

GlobalLoad(s) ==
    /\ In(s, "global") /\ op[s].kind = "ld" /\ op[s].lanes # {}
    /\ \E a \in GlobalAddrs :
         /\ Aligned(a, op[s].size) /\ Allocated(a, op[s].size)
         /\ Receive(s, ReadSparse(global, a, op[s].size))
    /\ ServeLane(s)
    /\ UNCHANGED <<launch, mode, todo, cur, global, local, ops, mine, stored, raced>>

GlobalStore(s) ==
    /\ In(s, "global") /\ op[s].kind = "st" /\ op[s].lanes # {}
    /\ \E a \in GlobalAddrs, v \in Values :
         /\ Aligned(a, op[s].size) /\ Allocated(a, op[s].size)
         /\ global' = WriteSparse(global, a, PackLe(v, op[s].size))
         /\ stored' = stored \cup {[value |-> v, size |-> op[s].size]}
    /\ ServeLane(s)
    /\ UNCHANGED <<launch, mode, todo, cur, got, local, ops, mine, raced>>

-----------------------------------------------------------------------------
(* Local memory: no check but that the value can be read, and no lock.     *)

LocalFault(s) ==
    /\ In(s, "local") /\ op[s].kind = "st" /\ op[s].lanes # {} /\ op[s].access = NoAccess
    /\ Fault(s)
    /\ UNCHANGED <<launch, mode, todo, cur, got, global, local, ops, mine, stored, raced>>

\* The other workers in the middle of an access of kind k.
Accessing(s, k) ==
    {o \in Sms \ {s} : In(o, "local") /\ op[o].access # NoAccess /\ op[o].kind = k}

\* The worker calls read_sparse or write_sparse.  An access that overlaps
\* with a store of another worker is disturbed by it.
LocalEnter(s) ==
    /\ In(s, "local") /\ op[s].lanes # {} /\ op[s].access = NoAccess
    /\ LET stores == Accessing(s, "st")
           hit    == IF op[s].kind = "st" THEN stores \cup Accessing(s, "ld") ELSE {}
       IN  /\ \E a \in LocalAddrs, v \in Values :
                /\ a + op[s].size <= LocalStride
                /\ op' = [o \in Sms |->
                     IF o = s THEN [op[s] EXCEPT !.access = [off |-> a, value |-> v, race |-> stores # {}]]
                     ELSE IF o \in hit THEN [op[o] EXCEPT !.access.race = TRUE]
                     ELSE op[o]]
           /\ raced' = (raced \/ stores \cup hit # {})
    /\ UNCHANGED <<launch, mode, todo, cur, got, global, local, ops, mine, stored>>

LocalLoad(s) ==
    /\ In(s, "local") /\ op[s].kind = "ld" /\ op[s].access # NoAccess
    /\ LET a == LocalAddr(Thread(s), op[s].access.off) IN
         \/ Receive(s, ReadSparse(local, a, op[s].size))
         \/ op[s].access.race /\ Receive(s, PackLe(0, op[s].size))
    /\ ServeLane(s)
    /\ UNCHANGED <<launch, mode, todo, cur, global, local, ops, mine, stored, raced>>

LocalStore(s) ==
    /\ In(s, "local") /\ op[s].kind = "st" /\ op[s].access # NoAccess
    /\ LET off   == op[s].access.off
           bytes == PackLe(op[s].access.value, op[s].size)
       IN  /\ \/ local' = WriteSparse(local, LocalAddr(Thread(s), off), bytes)
              \/ /\ op[s].access.race
                 /\ LocalAddr(Thread(s), off) \notin DOMAIN local
                 /\ UNCHANGED local
           /\ mine' = [mine EXCEPT ![Thread(s)] = WriteSparse(@, off, bytes)]
    /\ ServeLane(s)
    /\ UNCHANGED <<launch, mode, todo, cur, got, global, ops, stored, raced>>

\* All lanes are served.
EndUop(s) ==
    /\ In(s, "global") \/ In(s, "local")
    /\ op[s].lanes = {}
    /\ op' = [op EXCEPT ![s] = NoOp]
    /\ UNCHANGED <<launch, mode, todo, cur, got, global, local, ops, mine, stored, raced>>

-----------------------------------------------------------------------------
Worker(s) == \/ NextCta(s) \/ Begin(s) \/ Malformed(s) \/ LoadParam(s)
             \/ GlobalFault(s) \/ GlobalLoad(s) \/ GlobalStore(s)
             \/ LocalFault(s) \/ LocalEnter(s) \/ LocalLoad(s) \/ LocalStore(s)
             \/ EndUop(s)

Ended(s) == op[s] = Faulted \/ (op[s] = NoOp /\ cur[s] = NumCtas)

Terminated ==
    /\ mode \in {"refused", "endless"} \/ (mode = "running" /\ \A s \in Sms : Ended(s))
    /\ UNCHANGED vars

Next == Launch \/ (\E s \in Sms : Worker(s)) \/ Terminated

Spec == Init /\ [][Next]_vars

-----------------------------------------------------------------------------
(* Properties.                                                             *)

Loads == {got[s] : s \in Sms} \ {NoLoad}

\* The name of a thread: ctaid and tid as the special registers give them.
Name(t) == <<CtaId(t[1]), Tid(launch, t[2], t[3])>>

EachThreadOnce ==
    /\ {Name(t) : t \in Threads} = Inside(launch.grid_dim) \X Inside(launch.block_dim)
    /\ \A t, u \in Threads : Name(t) = Name(u) => t = u

\* The launch is accepted and no worker has begun.
Submitted == mode = "running" /\ todo = Below(NumCtas)

\* A thread's place in its block fits the 32 bits it is kept in.
NarrowBlock == ThreadsPerBlock(launch) <= LaneBaseLimit

(* The lanes of all warps of all CTAs are the threads of the launch, each  *)
(* exactly once: ctaid and tid run through the whole grid and the whole    *)
(* block, also when the last warp is not full, as long as the places of    *)
(* the threads of a block fit 32 bits.                                     *)
ThreadsCoverGrid ==
    Submitted /\ NarrowBlock => EachThreadOnce

\* The parts of a value that the smallest accesses store.
SmallSize == CHOOSE n \in Sizes : \A m \in Sizes : n <= m
Parts(v, n) ==
    {(v \div Weight[SmallSize * i]) % Weight[SmallSize] : i \in Below(n \div SmallSize)}

(* Loads from global memory never see a torn value, whatever the workers   *)
(* do and whatever sizes they mix: each word of it is a word of a value    *)
(* somebody stored, or zero.  Likewise the words of a parameter load are   *)
(* words of the arguments packed for the launch.                           *)
LoadsAreWhole ==
    \A r \in Loads :
      /\ r.space = "global" =>
           Parts(r.value, r.size) \subseteq {0} \cup UNION {Parts(x.value, x.size) : x \in stored}
      /\ r.space = "param" =>
           Parts(r.value, r.size)
             \subseteq UNION {Parts(Params[p].value, Params[p].size) : p \in DOMAIN Params}

\* What makes words of it: sizes are multiples of the smallest one, and so are
\* the places and sizes of the parameters, which do not overlap.
WordSizes == \A n \in Sizes : n % SmallSize = 0
ParamsApart ==
    \A p \in DOMAIN Params :
      /\ {Params[p].offset, Params[p].value, Params[p].size} \subseteq Nat
      /\ Params[p].offset % SmallSize = 0 /\ Params[p].size % SmallSize = 0
      /\ \A q \in DOMAIN Params \ {p} :
           \/ Params[p].offset + Params[p].size <= Params[q].offset
           \/ Params[q].offset + Params[q].size <= Params[p].offset

\* A load may be wider than the parameter it names; it then sees what follows,
\* which is a word of another parameter unless the layout has left a gap.
NoPadding ==
    BlobSize \in Nat /\ \A j \in 0 .. BlobSize : SmallSize * (j + 1) <= BlobSize =>
      \E p \in DOMAIN Params :
        /\ Params[p].offset <= SmallSize * j
        /\ SmallSize * (j + 1) <= Params[p].offset + Params[p].size

\* Every thread's window holds what the thread stored, and its loads return it.
WindowsKept ==
    /\ \A t \in DOMAIN mine : \A k \in Below(LocalStride) :
         ByteAt(local, LocalAddr(t, k)) = mine[t][k]
    /\ \A r \in Loads : r.space = "local" =>
         \E k \in LocalAddrs : /\ k + r.size <= LocalStride
                               /\ r.value = UnpackLe(ReadSparse(mine[r.thread], k, r.size))

(* Local memory is private: as long as no accesses of two workers have     *)
(* raced, no store of any thread shows up in another thread's window.      *)
LocalIsPrivate == NarrowBlock /\ ~raced => WindowsKept

(* The same without the exception, as the design documents have it: with   *)
(* several SMs a thread's local memory still holds what it stored.         *)
LocalKeptInParallel == WindowsKept
=============================================================================
