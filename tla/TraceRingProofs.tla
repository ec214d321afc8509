-------------------------- MODULE TraceRingProofs ---------------------------
(***************************************************************************)
(* For every capacity, number of workers and number of kernels: the ring   *)
(* of trace events is a log of the newest ones, a snapshot of it keeps the *)
(* order in which each worker emitted, and once nobody is between an event *)
(* and its count the counters agree with the events.                       *)
(***************************************************************************)
EXTENDS TraceRing, FiniteSetTheorems, TLAPS

\* The ring is never longer than its capacity, and starts to wrap only when it
\* is full; the slot to overwrite next is one of its slots.
RingOK ==
    /\ ring_ \in Seq(Event) /\ Len(ring_) <= capacity_ /\ size_ = Len(ring_)
    /\ head_ \in Nat /\ (head_ < capacity_ \/ head_ = 0)
    /\ Len(ring_) < capacity_ => head_ = 0
    /\ ~cfg_.enabled => ring_ = <<>>

\* What the events to come are made of.
StampsOK ==
    /\ run \in Nat /\ clock \in Nat
    /\ at \in [Workers -> [kind : Kinds, step : {"stamp", "emit", "count"}, ts : Nat]]

IInv == cfg_ \in Cfgs /\ RingOK /\ StampsOK

\* Sums of two slots, as the ring takes them.
LEMMA ModBelowTwice ==
    ASSUME NEW c \in Nat \ {0}, NEW x \in 0 .. 2 * c - 1
    PROVE  x % c = IF x < c THEN x ELSE x - c
<1>1. CASE x < c
  BY <1>1
<1>2. CASE x >= c
  BY <1>2
<1> QED BY <1>1, <1>2

\* Pushing an event keeps the ring in shape.
LEMMA PushKeepsRing ==
    ASSUME cfg_ \in Cfgs, RingOK, NEW e \in Event, Emit(e), UNCHANGED cfg_
    PROVE  RingOK'
<1> USE TraceRingAssumption DEF RingOK, capacity_
<1>1. CASE ~cfg_.enabled \/ capacity_ = 0
  BY <1>1 DEF Emit, Push, ring
<1>2. CASE cfg_.enabled /\ capacity_ # 0 /\ Len(ring_) < capacity_
  BY <1>2 DEF Emit, Push
<1>3. CASE cfg_.enabled /\ capacity_ # 0 /\ Len(ring_) = capacity_
  <2>1. ring_' = [ring_ EXCEPT ![head_ + 1] = e] /\ head_' = (head_ + 1) % capacity_ /\ size_' = capacity_
    BY <1>3 DEF Emit, Push
  <2>2. head_' \in Nat /\ head_' < capacity_
    <3>1. PICK x \in 0 .. 2 * capacity_ - 1 : x = head_ + 1
      BY <1>3
    <3>2. x % capacity_ = IF x < capacity_ THEN x ELSE x - capacity_
      BY <1>3, ModBelowTwice
    <3> QED BY <1>3, <2>1, <3>1, <3>2
  <2>3. ring_' \in Seq(Event) /\ Len(ring_') = Len(ring_)
    BY <1>3, <2>1
  <2> QED BY <1>3, <2>1, <2>2, <2>3
<1> QED BY <1>1, <1>2, <1>3

\* A full ring of c slots whose oldest event is at slot h + 1, read in order.
ReadRing(c, h, R) == [k \in 1 .. c |-> R[((h + k - 1) % c) + 1]]

\* The ring with another event in slot i.
Overwrite(R, i, e) == [R EXCEPT ![i] = e]

\* Without its oldest event, and with e after the others.
Shifted(c, s, e) == [k \in 1 .. c |-> IF k = c THEN e ELSE s[k + 1]]

\* The slot of the k-th oldest event.
LEMMA SlotOf ==
    ASSUME NEW c \in Nat \ {0}, NEW h \in 0 .. c - 1, NEW k \in 1 .. c
    PROVE  ((h + k - 1) % c) + 1 = IF h + k <= c THEN h + k ELSE h + k - c
<1>1. PICK x \in 0 .. 2 * c - 1 : x = h + k - 1
  OBVIOUS
<1>2. x % c = IF x < c THEN x ELSE x - c
  BY ModBelowTwice
<1> QED BY <1>1, <1>2

\* Overwriting the oldest event shifts what is read by one.
LEMMA OverwriteShifts ==
    ASSUME NEW c \in Nat \ {0}, NEW h \in 0 .. c - 1, NEW R \in [1 .. c -> Event],
           NEW e \in Event, NEW g, g = (h + 1) % c, NEW Q, Q = Overwrite(R, h + 1, e)
    PROVE  /\ ReadRing(c, h, R) \in [1 .. c -> Event]
           /\ ReadRing(c, g, Q) = Shifted(c, ReadRing(c, h, R), e)
<1> USE DEF Overwrite
<1>1. g \in 0 .. c - 1 /\ g = IF h + 1 < c THEN h + 1 ELSE 0
  <2>1. PICK x \in 0 .. 2 * c - 1 : x = h + 1
    OBVIOUS
  <2>2. x % c = IF x < c THEN x ELSE x - c
    BY ModBelowTwice
  <2> QED BY <2>1, <2>2
<1>2. Q \in [1 .. c -> Event]
  OBVIOUS
<1>3. \A k \in 1 .. c : ReadRing(c, h, R)[k] = R[IF h + k <= c THEN h + k ELSE h + k - c]
  BY SlotOf DEF ReadRing
<1>4. \A k \in 1 .. c : ReadRing(c, g, Q)[k] = Q[IF g + k <= c THEN g + k ELSE g + k - c]
  BY <1>1, SlotOf DEF ReadRing
<1>5. ReadRing(c, h, R) \in [1 .. c -> Event]
  <2>1. ASSUME NEW k \in 1 .. c
        PROVE  R[((h + k - 1) % c) + 1] \in Event
    <3>1. (IF h + k <= c THEN h + k ELSE h + k - c) \in 1 .. c
      OBVIOUS
    <3> QED BY <3>1, SlotOf
  <2> QED BY <2>1 DEF ReadRing
<1>6. ASSUME NEW k \in 1 .. c
      PROVE  ReadRing(c, g, Q)[k] = IF k = c THEN e ELSE ReadRing(c, h, R)[k + 1]
  <2>1. CASE k = c
    <3>1. (IF g + k <= c THEN g + k ELSE g + k - c) = h + 1
      BY <1>1, <2>1
    <3>2. Q[h + 1] = e
      OBVIOUS
    <3> QED BY <1>4, <2>1, <3>1, <3>2
  <2>2. CASE k # c
    <3> DEFINE n == IF h + (k + 1) <= c THEN h + (k + 1) ELSE h + (k + 1) - c
    <3>1. (IF g + k <= c THEN g + k ELSE g + k - c) = n /\ n \in 1 .. c /\ n # h + 1
      BY <1>1, <2>2
    <3>2. k + 1 \in 1 .. c
      BY <2>2
    <3>3. Q[n] = R[n]
      BY <3>1
    <3>4. ReadRing(c, h, R)[k + 1] = R[n]
      BY <1>3, <3>2
    <3> QED BY <1>4, <2>2, <3>1, <3>3, <3>4
  <2> QED BY <2>1, <2>2
<1>7. ReadRing(c, g, Q) = [k \in 1 .. c |-> IF k = c THEN e ELSE ReadRing(c, h, R)[k + 1]]
  <2>1. ReadRing(c, g, Q) = [k \in 1 .. c |-> ReadRing(c, g, Q)[k]]
    BY DEF ReadRing
  <2> HIDE DEF ReadRing
  <2> QED BY <1>6, <2>1
<1> QED BY <1>5, <1>7 DEF Shifted

\* Reading a ring from its first slot gives the ring.
LEMMA ReadFromFirst ==
    ASSUME NEW R \in Seq(Event), R # <<>>
    PROVE  ReadRing(Len(R), 0, R) = R
<1> DEFINE c == Len(R)
<1>1. c \in Nat \ {0} /\ R = [k \in 1 .. c |-> R[k]]
  OBVIOUS
<1>2. \A k \in 1 .. c : ((0 + k - 1) % c) + 1 = k
  <2> HIDE DEF c
  <2>1. 0 \in 0 .. c - 1 /\ \A k \in 1 .. c : 0 + k <= c
    BY <1>1
  <2> QED BY <1>1, <2>1, SlotOf
<1> HIDE DEF c
<1>3. ReadRing(c, 0, R) = [k \in 1 .. c |-> R[k]]
  BY <1>2 DEF ReadRing
<1> QED BY <1>1, <1>3 DEF c

\* A log with room keeps all of its events; a full one loses the oldest.
LEMMA NewestFits ==
    ASSUME NEW s \in Seq(Event), NEW n \in Nat, Len(s) <= n
    PROVE  Log!Newest(n, s) = s
<1>1. Log!Newest(n, s) = [i \in 1 .. Len(s) |-> s[Len(s) - Len(s) + i]]
  BY DEF Log!Newest
<1>2. \A i \in 1 .. Len(s) : Len(s) - Len(s) + i = i
  OBVIOUS
<1>3. [i \in 1 .. Len(s) |-> s[Len(s) - Len(s) + i]] = [i \in 1 .. Len(s) |-> s[i]]
  BY <1>2
<1> QED BY <1>1, <1>3

LEMMA NewestOfFull ==
    ASSUME NEW n \in Nat \ {0}, NEW s \in [1 .. n -> Event], NEW e \in Event
    PROVE  Log!Newest(n, Append(s, e)) = [k \in 1 .. n |-> IF k = n THEN e ELSE s[k + 1]]
<1>1. s \in Seq(Event) /\ Len(s) = n
  OBVIOUS
<1>2. Len(Append(s, e)) = n + 1
  BY <1>1
<1>3. Log!Newest(n, Append(s, e)) = [k \in 1 .. n |-> Append(s, e)[(n + 1) - n + k]]
  BY <1>2 DEF Log!Newest
<1>4. ASSUME NEW k \in 1 .. n
      PROVE  Append(s, e)[(n + 1) - n + k] = IF k = n THEN e ELSE s[k + 1]
  <2>1. (n + 1) - n + k = k + 1
    OBVIOUS
  <2> QED BY <1>1, <2>1
<1> QED BY <1>3, <1>4

\* Pushing an event into a ring with room puts it last ...
LEMMA PushIntoRoom ==
    ASSUME cfg_ \in Cfgs, RingOK, NEW e \in Event, Emit(e), UNCHANGED cfg_,
           cfg_.enabled, capacity_ # 0, Len(ring_) < capacity_
    PROVE  Snapshot = ring_ /\ Snapshot' = Append(ring_, e) /\ ring_ \in Seq(Event)
<1> USE TraceRingAssumption
<1>0. capacity_ \in Nat /\ capacity_' = capacity_
  BY DEF capacity_
<1>1. ring_' = Append(ring_, e) /\ size_' = Len(ring_) + 1 /\ head_' = 0
  BY DEF Emit, Push
<1>2. ring_ \in Seq(Event) /\ ring_' \in Seq(Event) /\ ring_' # <<>> /\ Len(ring_') = Len(ring_) + 1
  BY <1>1 DEF RingOK
<1>3. Snapshot = ring_
  BY DEF Snapshot
<1>4. Snapshot' = ring_'
  <2>1. CASE Len(ring_') < capacity_
    BY <1>0, <2>1 DEF Snapshot
  <2>2. CASE Len(ring_') = capacity_
    <3>1. ~ (ring_' = <<>> \/ Len(ring_') < capacity_') /\ size_' = Len(ring_')
      BY <1>0, <1>1, <1>2, <2>2
    <3>2. Snapshot' = [k \in 1 .. Len(ring_') |-> ring_'[((0 + k - 1) % Len(ring_')) + 1]]
      BY <1>0, <1>1, <2>2, <3>1, Zenon DEF Snapshot
    <3> QED BY <1>2, <3>2, ReadFromFirst, Zenon DEF ReadRing
  <2> QED BY <1>0, <1>2, <2>1, <2>2
<1> QED BY <1>1, <1>2, <1>3, <1>4

\* ... and into a full one, in the place of the oldest.
LEMMA PushIntoFull ==
    ASSUME cfg_ \in Cfgs, RingOK, NEW e \in Event, Emit(e), UNCHANGED cfg_,
           cfg_.enabled, capacity_ # 0, Len(ring_) = capacity_
    PROVE  /\ Snapshot \in [1 .. capacity_ -> Event]
           /\ Snapshot' = [k \in 1 .. capacity_ |-> IF k = capacity_ THEN e ELSE Snapshot[k + 1]]
<1> USE TraceRingAssumption
<1>0. capacity_ \in Nat /\ capacity_' = capacity_
  BY DEF capacity_
<1>1. ring_' = [ring_ EXCEPT ![head_ + 1] = e] /\ head_' = (head_ + 1) % capacity_ /\ size_' = capacity_
  BY DEF Emit, Push
<1>2. capacity_ \in Nat \ {0} /\ head_ \in 0 .. capacity_ - 1 /\ ring_ \in [1 .. capacity_ -> Event]
  BY <1>0 DEF RingOK
<1>3. Len(ring_') = capacity_ /\ ring_ # <<>> /\ ring_' # <<>>
  BY <1>1, <1>2 DEF RingOK
<1>4. /\ Snapshot = ReadRing(capacity_, head_, ring_)
      /\ Snapshot' = ReadRing(capacity_, head_', ring_')
  BY <1>0, <1>1, <1>3 DEF Snapshot, ReadRing, RingOK
<1>5. ring_' = Overwrite(ring_, head_ + 1, e)
  BY <1>1 DEF Overwrite
<1>6. \A g, Q : g = (head_ + 1) % capacity_ /\ Q = Overwrite(ring_, head_ + 1, e) =>
        /\ ReadRing(capacity_, head_, ring_) \in [1 .. capacity_ -> Event]
        /\ ReadRing(capacity_, g, Q) = Shifted(capacity_, ReadRing(capacity_, head_, ring_), e)
  BY <1>2, OverwriteShifts
<1>7. ReadRing(capacity_, head_', ring_') = Shifted(capacity_, ReadRing(capacity_, head_, ring_), e)
  BY <1>1, <1>5, <1>6, Zenon
<1> QED BY <1>4, <1>5, <1>6, <1>7, Zenon DEF Shifted

\* Pushing an event adds it to the log, or leaves an empty log alone.
LEMMA PushAdds ==
    ASSUME cfg_ \in Cfgs, RingOK, NEW e \in Event, Emit(e), UNCHANGED cfg_
    PROVE  [Log!Next]_<<IF cfg_.enabled THEN capacity_ ELSE 0, Snapshot>>
<1> USE TraceRingAssumption
<1>0. capacity_ \in Nat /\ capacity_' = capacity_
  BY DEF capacity_
<1>1. CASE ~cfg_.enabled \/ capacity_ = 0
  <2>1. UNCHANGED <<ring_, head_, size_>>
    BY <1>1 DEF Emit, Push, ring
  <2> QED BY <1>0, <2>1 DEF Snapshot
<1>2. CASE cfg_.enabled /\ capacity_ # 0 /\ Len(ring_) < capacity_
  <2>1. Snapshot = ring_ /\ Snapshot' = Append(ring_, e) /\ ring_ \in Seq(Event)
    BY <1>2, PushIntoRoom
  <2>2. Append(ring_, e) \in Seq(Event) /\ Len(Append(ring_, e)) <= capacity_
    BY <1>0, <1>2, <2>1
  <2>3. Log!Newest(capacity_, Append(ring_, e)) = Append(ring_, e)
    BY <1>0, <2>2, NewestFits, Zenon
  <2>4. Append(ring_, e)[Len(Append(ring_, e))] = e /\ Append(ring_, e) # <<>>
    BY <2>1
  <2> QED BY <1>0, <1>2, <2>1, <2>3, <2>4 DEF Log!Next, Log!Add
<1>3. CASE cfg_.enabled /\ capacity_ # 0 /\ Len(ring_) = capacity_
  <2>1. /\ Snapshot \in [1 .. capacity_ -> Event]
        /\ Snapshot' = [k \in 1 .. capacity_ |-> IF k = capacity_ THEN e ELSE Snapshot[k + 1]]
    BY <1>3, PushIntoFull
  <2>2. capacity_ \in Nat \ {0}
    BY <1>0, <1>3
  <2>3. Snapshot' = Log!Newest(capacity_, Append(Snapshot, e))
    <3>1. Log!Newest(capacity_, Append(Snapshot, e))
            = [k \in 1 .. capacity_ |-> IF k = capacity_ THEN e ELSE Snapshot[k + 1]]
      BY <2>1, <2>2, NewestOfFull
    <3> QED BY <2>1, <3>1, Zenon
  <2>4. Snapshot' # <<>> /\ Snapshot'[Len(Snapshot')] = e
    <3>1. Snapshot' \in [1 .. capacity_ -> Event]
      BY <2>1, <2>2
    <3>2. Len(Snapshot') = capacity_ /\ Snapshot'[capacity_] = e
      BY <2>1, <2>2, <3>1
    <3> QED BY <2>2, <3>2
  <2> QED BY <1>0, <1>3, <2>3, <2>4 DEF Log!Next, Log!Add
<1> QED BY <1>0, <1>1, <1>2, <1>3 DEF RingOK

\* The log with e after it and without its first d events.
Moved(d, s, e) ==
    [k \in 1 .. Len(s) + 1 - d |-> IF k = Len(s) + 1 - d THEN e ELSE s[k + d]]

\* Reading it.
LEMMA MovedReads ==
    ASSUME NEW s \in Seq(Event), NEW e \in Event, NEW d \in {0, 1}, d <= Len(s)
    PROVE  /\ Moved(d, s, e) \in Seq(Event)
           /\ Len(Moved(d, s, e)) = Len(s) + 1 - d
           /\ DOMAIN Moved(d, s, e) = 1 .. Len(s) + 1 - d
           /\ Moved(d, s, e)[Len(s) + 1 - d] = e
           /\ \A k \in 1 .. Len(s) - d : Moved(d, s, e)[k] = s[k + d]
<1> DEFINE n == Len(s) + 1 - d
<1>1. n \in Nat \ {0} /\ n - 1 = Len(s) - d
  OBVIOUS
<1>2. \A k \in 1 .. n : Moved(d, s, e)[k] = IF k = n THEN e ELSE s[k + d]
  BY DEF Moved
<1>3. \A k \in 1 .. n - 1 : k # n /\ k + d \in DOMAIN s
  BY <1>1
<1>4. Moved(d, s, e) \in [1 .. n -> Event]
  <2>1. \A k \in 1 .. n : (IF k = n THEN e ELSE s[k + d]) \in Event
    BY <1>1, <1>3
  <2> QED BY <2>1 DEF Moved
<1> HIDE DEF n
<1>5. Moved(d, s, e) \in Seq(Event) /\ Len(Moved(d, s, e)) = n /\ DOMAIN Moved(d, s, e) = 1 .. n
  BY <1>1, <1>4
<1>6. Moved(d, s, e)[n] = e /\ \A k \in 1 .. n - 1 : Moved(d, s, e)[k] = s[k + d]
  BY <1>1, <1>2, <1>3
<1> QED BY <1>1, <1>5, <1>6 DEF n

LEMMA AppendMoves ==
    ASSUME NEW s \in Seq(Event), NEW e \in Event
    PROVE  Append(s, e) = Moved(0, s, e)
<1>1. Append(s, e) = [k \in 1 .. Len(s) + 1 |-> Append(s, e)[k]]
  <2>1. \A t \in Seq(Event) : t = [k \in 1 .. Len(t) |-> t[k]]
    OBVIOUS
  <2>2. Append(s, e) \in Seq(Event) /\ Len(Append(s, e)) = Len(s) + 1
    OBVIOUS
  <2> QED BY <2>1, <2>2, Zenon
<1>2. \A k \in 1 .. Len(s) + 1 : Append(s, e)[k] = IF k = Len(s) + 1 THEN e ELSE s[k]
  OBVIOUS
<1>3. Moved(0, s, e) = [k \in 1 .. Len(s) + 1 |-> IF k = Len(s) + 1 THEN e ELSE s[k]]
  BY DEF Moved
<1> QED BY <1>1, <1>2, <1>3

\* What a push does to what snapshot() returns.
LEMMA PushMoves ==
    ASSUME cfg_ \in Cfgs, RingOK, NEW e \in Event, Emit(e), UNCHANGED cfg_
    PROVE  /\ Snapshot \in Seq(Event)
           /\ \/ Snapshot = <<>> /\ Snapshot' = <<>>
              \/ \E d \in {0, 1} : d <= Len(Snapshot) /\ Snapshot' = Moved(d, Snapshot, e)
<1> USE TraceRingAssumption
<1>0. capacity_ \in Nat /\ capacity_' = capacity_
  BY DEF capacity_
<1>1. CASE ~cfg_.enabled \/ capacity_ = 0
  <2>1. UNCHANGED <<ring_, head_, size_>> /\ ring_ = <<>>
    BY <1>0, <1>1 DEF Emit, Push, ring, RingOK
  <2> QED BY <2>1 DEF Snapshot
<1>2. CASE cfg_.enabled /\ capacity_ # 0 /\ Len(ring_) < capacity_
  <2>1. Snapshot = ring_ /\ Snapshot' = Append(ring_, e) /\ ring_ \in Seq(Event)
    BY <1>2, PushIntoRoom
  <2>2. Append(ring_, e) = Moved(0, ring_, e)
    BY <2>1, AppendMoves
  <2> QED BY <2>1, <2>2
<1>3. CASE cfg_.enabled /\ capacity_ # 0 /\ Len(ring_) = capacity_
  <2>1. /\ Snapshot \in [1 .. capacity_ -> Event]
        /\ Snapshot' = [k \in 1 .. capacity_ |-> IF k = capacity_ THEN e ELSE Snapshot[k + 1]]
    BY <1>3, PushIntoFull
  <2>2. capacity_ \in Nat \ {0}
    BY <1>0, <1>3
  <2>3. Snapshot \in Seq(Event) /\ Len(Snapshot) = capacity_
    BY <2>1, <2>2
  <2>4. Snapshot' = Moved(1, Snapshot, e)
    BY <2>1, <2>2, <2>3 DEF Moved
  <2> QED BY <2>2, <2>3, <2>4
<1> QED BY <1>0, <1>1, <1>2, <1>3 DEF RingOK

-----------------------------------------------------------------------------
(* Counting.                                                               *)

LEMMA Bijected ==
    ASSUME NEW S, NEW T, IsFiniteSet(S), NEW f \in [S -> T],
           \A x, y \in S : f[x] = f[y] => x = y, \A z \in T : \E x \in S : f[x] = z
    PROVE  IsFiniteSet(T) /\ Cardinality(T) = Cardinality(S)
<1>1. f \in Bijection(S, T)
  BY DEF Bijection, Injection, Surjection, IsInjective
<1> QED BY <1>1, FS_Bijection DEF ExistsBijection

LEMMA Injected ==
    ASSUME NEW S, NEW T, IsFiniteSet(T), NEW f \in [S -> T],
           \A x, y \in S : f[x] = f[y] => x = y
    PROVE  IsFiniteSet(S) /\ Cardinality(S) <= Cardinality(T)
<1>1. f \in Injection(S, T)
  BY DEF Injection, IsInjective
<1> QED BY <1>1, FS_Injection

\* What Since counts, and that there are finitely many.
After(s, i) == {j \in DOMAIN s : j > i /\ s[j].by = s[i].by}

LEMMA SinceCounts ==
    ASSUME NEW s \in Seq(Event), NEW i
    PROVE  IsFiniteSet(After(s, i)) /\ Since(s, i) = Cardinality(After(s, i)) /\ Since(s, i) \in Nat
<1>1. IsFiniteSet(DOMAIN s)
  <2>1. DOMAIN s = 1 .. Len(s) /\ Len(s) \in Int
    OBVIOUS
  <2> QED BY <2>1, FS_Interval
<1>2. After(s, i) \subseteq DOMAIN s
  BY DEF After
<1>3. IsFiniteSet(After(s, i))
  BY <1>1, <1>2, FS_Subset
<1>4. Since(s, i) = Cardinality(After(s, i))
  BY DEF Since, After
<1> QED BY <1>3, <1>4, FS_CardinalityType

\* After a push, the newest event has none of its thread after it, and an older
\* one has one more of them when the new one is of its thread.
LEMMA SinceMoved ==
    ASSUME NEW s \in Seq(Event), NEW e \in Event, NEW d \in {0, 1}, d <= Len(s),
           NEW t, t = Moved(d, s, e)
    PROVE  /\ Since(t, Len(s) + 1 - d) = 0
           /\ \A i \in 1 .. Len(s) - d :
                Since(t, i) = IF s[i + d].by = e.by THEN Since(s, i + d) + 1 ELSE Since(s, i + d)
<1> DEFINE n == Len(s) + 1 - d
<1>0. n \in Nat \ {0} /\ n - 1 = Len(s) - d /\ DOMAIN s = 1 .. n - 1 + d
  OBVIOUS
<1>1. /\ t \in Seq(Event) /\ DOMAIN t = 1 .. n /\ t[n] = e
      /\ \A k \in 1 .. n - 1 : t[k] = s[k + d]
  <2>1. /\ t \in Seq(Event) /\ DOMAIN t = 1 .. Len(s) + 1 - d /\ t[Len(s) + 1 - d] = e
        /\ \A k \in 1 .. Len(s) - d : t[k] = s[k + d]
    BY MovedReads, Zenon
  <2> QED BY <1>0, <2>1, Zenon
<1> HIDE DEF n
<1>2. Since(t, n) = 0
  <2>1. After(t, n) = {}
    BY <1>0, <1>1 DEF After
  <2> QED BY <1>1, <2>1, SinceCounts, FS_EmptySet
<1>3. ASSUME NEW i \in 1 .. n - 1
      PROVE  Since(t, i) = IF s[i + d].by = e.by THEN Since(s, i + d) + 1 ELSE Since(s, i + d)
  <2> DEFINE Old == After(s, i + d)
             New == {j \in 1 .. n - 1 : j > i /\ t[j].by = t[i].by}
             f   == [j \in Old |-> j - d]
  <2>1. Old = {j \in 1 .. n - 1 + d : j > i + d /\ s[j].by = s[i + d].by}
    BY <1>0 DEF After
  <2>2. t[i] = s[i + d] /\ \A j \in 1 .. n - 1 : j + d \in 1 .. n - 1 + d /\ t[j] = s[j + d]
    <3>1. \A j \in 1 .. n - 1 : j + d \in 1 .. n - 1 + d
      BY <1>0
    <3> QED BY <1>1, <3>1, Zenon
  <2>3. \A j \in Old : j - d \in 1 .. n - 1 /\ j - d > i /\ t[j - d] = s[j]
    <3>1. ASSUME NEW j \in Old
          PROVE  j - d \in 1 .. n - 1 /\ j - d > i /\ (j - d) + d = j
      BY <1>0, <2>1
    <3> QED BY <2>2, <3>1
  <2>4. f \in [Old -> New]
    <3>1. \A j \in Old : j - d \in New
      BY <2>1, <2>2, <2>3
    <3> QED BY <3>1
  <2>5. \A x, y \in Old : f[x] = f[y] => x = y
    BY <1>0, <2>1
  <2>6. \A z \in New : \E x \in Old : f[x] = z
    <3>1. ASSUME NEW z \in New
          PROVE  z + d \in Old /\ (z + d) - d = z
      <4>1. z \in 1 .. n - 1 /\ z > i /\ s[z + d].by = s[i + d].by
        BY <2>2
      <4>2. z + d \in 1 .. n - 1 + d /\ z + d > i + d /\ (z + d) - d = z
        BY <1>0, <4>1
      <4> QED BY <2>1, <4>1, <4>2
    <3> QED BY <3>1
  <2>7. IsFiniteSet(New) /\ Cardinality(New) = Since(s, i + d) /\ Since(s, i + d) \in Nat
    <3>1. IsFiniteSet(Old) /\ Since(s, i + d) = Cardinality(Old) /\ Since(s, i + d) \in Nat
      BY SinceCounts
    <3> HIDE DEF Old, New, f
    <3> QED BY <2>4, <2>5, <2>6, <3>1, Bijected
  <2>8. After(t, i) = IF s[i + d].by = e.by THEN New \cup {n} ELSE New
    <3>1. After(t, i) = {j \in 1 .. n : j > i /\ t[j].by = t[i].by}
      BY <1>1 DEF After
    <3>2. n > i /\ \A j : j \in 1 .. n <=> j \in 1 .. n - 1 \/ j = n
      BY <1>0
    <3>3. t[n].by = t[i].by <=> s[i + d].by = e.by
      BY <1>1, <2>2
    <3> QED BY <3>1, <3>2, <3>3
  <2>9. n \notin New
    BY <1>0
  <2>10. Since(t, i) = Cardinality(After(t, i))
    BY <1>1, SinceCounts
  <2>11. Cardinality(New \cup {n}) = Cardinality(New) + 1
    <3> HIDE DEF Old, New, f
    <3> QED BY <2>7, <2>9, FS_AddElement
  <2> QED BY <2>7, <2>8, <2>10, <2>11, Zenon
<1> QED BY <1>0, <1>2, <1>3 DEF n

-----------------------------------------------------------------------------
(* The order of what snapshot() returns.                                   *)

\* Of two events, the one that was pushed first.
Earlier(x, y) ==
    \/ x.run < y.run
    \/ x.run = y.run /\ x.ts # y.ts /\ (x.by = y.by => x.ts < y.ts)

\* A log s holds the ends of what the threads emitted, by hist.
HoldsEnds(s, hist) ==
    \A i \in DOMAIN s : LET own == hist[s[i].by]  k == Len(own) - Since(s, i)
                        IN  k >= 1 /\ own[k] = s[i]

InOrder(s) == \A i, j \in DOMAIN s : i < j => Earlier(s[i], s[j])

\* What a worker that has taken its time stamp will push.
Pending(w) == [run |-> run, ts |-> at[w].ts, by |-> w, kind |-> at[w].kind]

\* The clock is ahead of every stamp it gave, and a worker's stamp is new.
TimeOK ==
    /\ ~running => \A w \in Workers : at[w] = Rest
    /\ \A x \in Range(Snapshot) : x.run <= run /\ (x.run = run => x.ts < clock)
    /\ \A w \in Workers : at[w].step = "emit" =>
         /\ at[w].ts < clock
         /\ \A x \in Range(Snapshot) : Earlier(x, Pending(w))
         /\ \A v \in Workers \ {w} : at[v].step = "emit" => at[v].ts # at[w].ts

OrderOK ==
    /\ emitted \in [Threads -> Seq(Event)]
    /\ HoldsEnds(Snapshot, emitted) /\ InOrder(Snapshot) /\ TimeOK

LEMMA MovedEnds ==
    ASSUME NEW s \in Seq(Event), NEW e \in Event, NEW d \in {0, 1}, d <= Len(s),
           NEW hist \in [Threads -> Seq(Event)], HoldsEnds(s, hist)
    PROVE  HoldsEnds(Moved(d, s, e), [hist EXCEPT ![e.by] = Append(@, e)])
<1> DEFINE n == Len(s) + 1 - d
           h == [hist EXCEPT ![e.by] = Append(@, e)]
<1>0. e.by \in Threads /\ \A i \in DOMAIN s : s[i].by \in Threads
  <2>1. \A x \in Event : x.by \in Threads
    BY DEF Event
  <2>2. \A i \in DOMAIN s : s[i] \in Event
    OBVIOUS
  <2> QED BY <2>1, <2>2, Zenon
<1>1. PICK t : t = Moved(d, s, e)
  OBVIOUS
<1>2. /\ DOMAIN t = 1 .. n /\ t[n] = e /\ \A k \in 1 .. n - 1 : t[k] = s[k + d]
  <2>1. /\ DOMAIN t = 1 .. Len(s) + 1 - d /\ t[Len(s) + 1 - d] = e
        /\ \A k \in 1 .. Len(s) - d : t[k] = s[k + d]
    BY <1>1, MovedReads, Zenon
  <2>2. n - 1 = Len(s) - d
    OBVIOUS
  <2> QED BY <2>1, <2>2, Zenon
<1>3. /\ Since(t, n) = 0
      /\ \A i \in 1 .. n - 1 :
           Since(t, i) = IF s[i + d].by = e.by THEN Since(s, i + d) + 1 ELSE Since(s, i + d)
  <2>1. n - 1 = Len(s) - d
    OBVIOUS
  <2>2. /\ Since(t, Len(s) + 1 - d) = 0
        /\ \A i \in 1 .. Len(s) - d :
             Since(t, i) = IF s[i + d].by = e.by THEN Since(s, i + d) + 1 ELSE Since(s, i + d)
    BY <1>1, SinceMoved, SMTT(30)
  <2> QED BY <2>1, <2>2, Zenon
<1>4. /\ Len(h[e.by]) = Len(hist[e.by]) + 1 /\ h[e.by][Len(hist[e.by]) + 1] = e
      /\ \A k \in 1 .. Len(hist[e.by]) : h[e.by][k] = hist[e.by][k]
      /\ \A b \in Threads : b # e.by => h[b] = hist[b]
  <2>1. hist[e.by] \in Seq(Event) /\ h[e.by] = Append(hist[e.by], e)
    BY <1>0
  <2> QED BY <1>0, <2>1
<1>n. n \in Nat \ {0} /\ DOMAIN s = 1 .. n - 1 + d
  OBVIOUS
<1> HIDE DEF n, h
<1>5. ASSUME NEW i \in DOMAIN t
      PROVE  Len(h[t[i].by]) - Since(t, i) >= 1 /\ h[t[i].by][Len(h[t[i].by]) - Since(t, i)] = t[i]
  <2>1. CASE i = n
    BY <1>2, <1>3, <1>4, <2>1
  <2>2. CASE i # n
    <3>1. i \in 1 .. n - 1 /\ i + d \in DOMAIN s /\ t[i] = s[i + d]
      BY <1>2, <1>n, <2>2
    <3>2. PICK b, m, q, k :
                  b \in Threads /\ b = s[i + d].by /\ m = Len(hist[b]) /\ q = Since(s, i + d) /\ k = m - q
      BY <1>0, <3>1
    <3>3. k >= 1 /\ hist[b][k] = s[i + d]
      BY <3>1, <3>2, Zenon DEF HoldsEnds
    <3>4. m \in Nat /\ q \in Nat /\ k \in 1 .. m
      <4>1. q \in Nat
        BY <3>2, SinceCounts
      <4>2. m \in Nat
        BY <3>2
      <4> QED BY <3>2, <3>3, <4>1, <4>2
    <3>5. CASE b = e.by
      <4>1. Len(h[b]) = m + 1 /\ Since(t, i) = q + 1
        BY <1>3, <1>4, <3>1, <3>2, <3>5
      <4>2. Len(h[b]) - Since(t, i) = k
        BY <3>2, <3>4, <4>1, SMTT(30)
      <4>3. t[i].by = b /\ t[i] = hist[b][k] /\ h[b][k] = hist[b][k]
        BY <1>4, <3>1, <3>2, <3>3, <3>4, <3>5
      <4> QED BY <3>3, <4>2, <4>3
    <3>6. CASE b # e.by
      <4>1. h[b] = hist[b] /\ Since(t, i) = Since(s, i + d)
        BY <1>3, <1>4, <3>1, <3>2, <3>6
      <4> QED BY <3>1, <3>2, <3>3, <4>1
    <3> QED BY <3>5, <3>6
  <2> QED BY <2>1, <2>2
<1> QED BY <1>1, <1>5 DEF HoldsEnds, h

LEMMA MovedOrder ==
    ASSUME NEW s \in Seq(Event), NEW e \in Event, NEW d \in {0, 1}, d <= Len(s),
           InOrder(s), \A x \in Range(s) : Earlier(x, e)
    PROVE  InOrder(Moved(d, s, e)) /\ Range(Moved(d, s, e)) \subseteq Range(s) \cup {e}
<1> DEFINE n == Len(s) + 1 - d
<1>1. PICK t : t = Moved(d, s, e)
  OBVIOUS
<1>2. /\ DOMAIN t = 1 .. n /\ t[n] = e
      /\ \A k \in 1 .. n - 1 : t[k] = s[k + d] /\ k + d \in DOMAIN s
  <2>1. /\ DOMAIN t = 1 .. Len(s) + 1 - d /\ t[Len(s) + 1 - d] = e
        /\ \A k \in 1 .. Len(s) - d : t[k] = s[k + d]
    BY <1>1, MovedReads, Zenon
  <2>2. n - 1 = Len(s) - d /\ \A k \in 1 .. n - 1 : k + d \in DOMAIN s
    OBVIOUS
  <2> QED BY <2>1, <2>2, Zenon
<1>3. n \in Nat
  OBVIOUS
<1> HIDE DEF n
<1>4. ASSUME NEW i \in DOMAIN t, NEW j \in DOMAIN t, i < j
      PROVE  Earlier(t[i], t[j])
  <2>1. i \in 1 .. n - 1 /\ t[i] = s[i + d] /\ i + d \in DOMAIN s
    BY <1>2, <1>3, <1>4
  <2>2. CASE j = n
    BY <1>2, <2>1, <2>2 DEF Range
  <2>3. CASE j # n
    <3>1. j \in 1 .. n - 1 /\ i + d < j + d
      BY <1>2, <1>3, <1>4, <2>3
    <3>2. t[j] = s[j + d] /\ j + d \in DOMAIN s
      BY <1>2, <3>1
    <3> QED BY <2>1, <3>1, <3>2, Zenon DEF InOrder
  <2> QED BY <2>2, <2>3
<1>5. ASSUME NEW i \in DOMAIN t
      PROVE  t[i] = e \/ \E j \in DOMAIN s : t[i] = s[j]
  <2>1. i = n \/ i \in 1 .. n - 1
    BY <1>2, <1>3
  <2> QED BY <1>2, <2>1
<1>6. Range(t) \subseteq Range(s) \cup {e}
  BY <1>5 DEF Range
<1> QED BY <1>1, <1>4, <1>6 DEF InOrder

-----------------------------------------------------------------------------
LEMMA InitHolds == Init => IInv
BY TraceRingAssumption DEF Init, IInv, RingOK, StampsOK, capacity_, Rest, Kinds

\* The steps that emit an event: which one, and that they leave the rest in shape.
LEMMA StepEmits ==
    ASSUME IInv, Next
    PROVE  /\ UNCHANGED cfg_ /\ StampsOK'
           /\ UNCHANGED ring \/ \E e \in Event : Emit(e)
<1> USE DEF IInv
<1>1. CASE RunStart
  <2>1. [run |-> run + 1, ts |-> 0, by |-> Main, kind |-> "RUN_START"] \in Event
    BY DEF StampsOK, Event, Threads
  <2>2. Emit([run |-> run + 1, ts |-> 0, by |-> Main, kind |-> "RUN_START"])
    BY <1>1 DEF RunStart
  <2>3. UNCHANGED cfg_ /\ StampsOK'
    BY <1>1 DEF RunStart, StampsOK
  <2> QED BY <2>1, <2>2, <2>3
<1>2. CASE RunEnd \/ Terminated
  BY <1>2 DEF RunEnd, Terminated, StampsOK, vars, ring
<1>3. ASSUME NEW w \in Workers, Stamp(w)
      PROVE  UNCHANGED cfg_ /\ StampsOK' /\ UNCHANGED ring
  <2>1. clock' \in Nat /\ run' = run /\ UNCHANGED <<cfg_, ring>>
    BY <1>3 DEF Stamp, StampsOK
  <2>2. at' \in [Workers -> [kind : Kinds, step : {"stamp", "emit", "count"}, ts : Nat]]
    <3>1. at' = [at EXCEPT ![w] = [at[w] EXCEPT !.step = "emit", !.ts = clock]]
      BY <1>3 DEF Stamp, StampsOK
    <3>2. [at[w] EXCEPT !.step = "emit", !.ts = clock]
            \in [kind : Kinds, step : {"stamp", "emit", "count"}, ts : Nat]
      BY DEF StampsOK
    <3> QED BY <3>1, <3>2 DEF StampsOK
  <2> QED BY <2>1, <2>2 DEF StampsOK
<1>4. ASSUME NEW w \in Workers, EmitEvent(w)
      PROVE  UNCHANGED cfg_ /\ StampsOK' /\ \E e \in Event : Emit(e)
  <2>1. [run |-> run, ts |-> at[w].ts, by |-> w, kind |-> at[w].kind] \in Event
    BY DEF StampsOK, Event, Threads
  <2>2. Emit([run |-> run, ts |-> at[w].ts, by |-> w, kind |-> at[w].kind])
    BY <1>4 DEF EmitEvent
  <2>3. UNCHANGED cfg_ /\ StampsOK'
    BY <1>4 DEF EmitEvent, StampsOK
  <2> QED BY <2>1, <2>2, <2>3
<1>5. ASSUME NEW w \in Workers, Count(w)
      PROVE  UNCHANGED cfg_ /\ StampsOK' /\ UNCHANGED ring
  <2>1. KindAfter(at[w].kind) \in Kinds
    BY DEF KindAfter, Kinds
  <2> QED BY <1>5, <2>1 DEF Count, StampsOK, Rest
<1>6. ASSUME NEW w \in Workers, Fault(w)
      PROVE  UNCHANGED cfg_ /\ StampsOK' /\ UNCHANGED ring
  BY <1>6 DEF Fault, StampsOK, Rest, Kinds
<1>7. ASSUME NEW w \in Workers, SkipCount(w)
      PROVE  UNCHANGED cfg_ /\ StampsOK' /\ UNCHANGED ring
  BY <1>7 DEF SkipCount, StampsOK, Rest, Kinds
<1> QED BY <1>1, <1>2, <1>3, <1>4, <1>5, <1>6, <1>7 DEF Next

LEMMA StepKeeps ==
    ASSUME IInv, [Next]_vars
    PROVE  IInv' /\ [Log!Next]_<<IF cfg_.enabled THEN capacity_ ELSE 0, Snapshot>>
<1>1. CASE UNCHANGED vars
  BY <1>1 DEF IInv, RingOK, StampsOK, vars, ring, capacity_, Snapshot
<1>2. CASE Next
  <2>1. UNCHANGED cfg_ /\ StampsOK'
    BY <1>2, StepEmits
  <2>2. CASE UNCHANGED ring
    BY <2>1, <2>2 DEF IInv, RingOK, ring, capacity_, Snapshot
  <2>3. CASE \E e \in Event : Emit(e)
    BY <2>1, <2>3, PushKeepsRing, PushAdds DEF IInv
  <2> QED BY <1>2, <2>2, <2>3, StepEmits
<1> QED BY <1>1, <1>2

(* The ring is in shape in every reachable state: TraceBuffer::push never   *)
(* grows it past its capacity, and head_ and size_ agree with what it holds. *)
THEOREM RingInShape == Spec => []IInv
<1>1. IInv /\ [Next]_vars => IInv'
  BY StepKeeps
<1> QED BY InitHolds, <1>1, PTL DEF Spec

(* TraceBuffer implements the bounded log: what snapshot() returns is at    *)
(* every moment the newest events in the order of their pushes, whatever    *)
(* the capacity, and however many workers, instructions and kernels push.   *)
THEOREM RingIsALog == Spec => KeepsNewest
<1>1. Init => Log!Init
  BY TraceRingAssumption DEF Init, Log!Init, Snapshot, capacity_
<1>2. IInv /\ [Next]_vars => [Log!Next]_<<IF cfg_.enabled THEN capacity_ ELSE 0, Snapshot>>
  BY StepKeeps
<1> QED BY <1>1, <1>2, RingInShape, PTL DEF Spec, Log!Spec, KeepsNewest

-----------------------------------------------------------------------------
(* The order is kept by every step.                                        *)

\* An event later than all that are held, pushed and noted down.
LEMMA EmitOrdered ==
    ASSUME IInv, OrderOK, NEW e \in Event, Emit(e), UNCHANGED cfg_,
           emitted' = [emitted EXCEPT ![e.by] = Append(@, e)],
           \A x \in Range(Snapshot) : Earlier(x, e)
    PROVE  /\ emitted' \in [Threads -> Seq(Event)]
           /\ HoldsEnds(Snapshot', emitted') /\ InOrder(Snapshot')
           /\ Range(Snapshot') \subseteq Range(Snapshot) \cup {e}
<1>1. PICK s, t, hist, h : s = Snapshot /\ t = Snapshot' /\ hist = emitted /\ h = emitted'
  OBVIOUS
<1>2. /\ hist \in [Threads -> Seq(Event)] /\ HoldsEnds(s, hist) /\ InOrder(s)
      /\ h = [hist EXCEPT ![e.by] = Append(@, e)]
      /\ \A x \in Range(s) : Earlier(x, e)
  BY <1>1 DEF OrderOK
<1>3. /\ s \in Seq(Event)
      /\ (s = <<>> /\ t = <<>>) \/ \E d \in {0, 1} : d <= Len(s) /\ t = Moved(d, s, e)
  BY <1>1, PushMoves DEF IInv
<1>4. h \in [Threads -> Seq(Event)]
  <2>1. e.by \in Threads
    BY DEF Event
  <2> QED BY <1>2, <2>1
<1>5. CASE s = <<>> /\ t = <<>>
  <2>1. HoldsEnds(t, h) /\ InOrder(t) /\ Range(t) = {}
    BY <1>5 DEF HoldsEnds, InOrder, Range
  <2> QED BY <1>1, <1>4, <2>1
<1>6. CASE \E d \in {0, 1} : d <= Len(s) /\ t = Moved(d, s, e)
  <2>1. PICK d \in {0, 1} : d <= Len(s) /\ t = Moved(d, s, e)
    BY <1>6
  <2>2. HoldsEnds(t, h)
    BY <1>2, <1>3, <2>1, MovedEnds
  <2>3. InOrder(t) /\ Range(t) \subseteq Range(s) \cup {e}
    BY <1>2, <1>3, <2>1, MovedOrder
  <2> QED BY <1>1, <1>4, <2>2, <2>3
<1> QED BY <1>3, <1>5, <1>6

\* What is held is events.
LEMMA HeldAreEvents ==
    ASSUME IInv
    PROVE  Range(Snapshot) \subseteq Event
<1> USE TraceRingAssumption DEF IInv, RingOK, capacity_
<1>1. CASE ring_ = <<>> \/ Len(ring_) < capacity_
  <2>1. Snapshot = ring_
    BY <1>1 DEF Snapshot
  <2> QED BY <2>1 DEF Range
<1>2. CASE ~ (ring_ = <<>> \/ Len(ring_) < capacity_)
  <2>1. PICK c, h, R : c = capacity_ /\ h = head_ /\ R = ring_
    OBVIOUS
  <2>2. c \in Nat \ {0} /\ h \in 0 .. c - 1 /\ R \in [1 .. c -> Event] /\ Snapshot = ReadRing(c, h, R)
    BY <1>2, <2>1 DEF Snapshot, ReadRing
  <2>3. ASSUME NEW e \in Event
        PROVE  ReadRing(c, h, R) \in [1 .. c -> Event]
    <3>1. PICK g, Q : g = (h + 1) % c /\ Q = Overwrite(R, h + 1, e)
      OBVIOUS
    <3> QED BY <2>2, <3>1, OverwriteShifts
  <2>4. R[1] \in Event
    BY <2>2
  <2> QED BY <2>2, <2>3, <2>4 DEF Range
<1> QED BY <1>1, <1>2

\* Steps that emit nothing: the workers that hold a stamp are those from before,
\* and the clock does not go back.
LEMMA QuietOrdered ==
    ASSUME IInv, OrderOK, UNCHANGED <<cfg_, ring, emitted, run>>, clock' \in Nat, clock <= clock',
           ~running' => \A w \in Workers : at'[w] = Rest,
           \A w \in Workers : at'[w].step = "emit" => at'[w] = at[w]
    PROVE  OrderOK'
<1>1. Snapshot' = Snapshot
  BY DEF Snapshot, ring, capacity_
<1>2. \A x \in Range(Snapshot) : x.ts \in Nat
  BY HeldAreEvents DEF Event
<1>3. \A w \in Workers : at'[w].step = "emit" => at[w].step = "emit" /\ at'[w].ts = at[w].ts /\ Pending(w)' = Pending(w)
  BY DEF Pending
<1>4. \A w \in Workers : at[w].ts \in Nat
  BY DEF IInv, StampsOK
<1>5. TimeOK'
  <2>1. \A x \in Range(Snapshot) : x.run <= run /\ (x.run = run => x.ts < clock')
    BY <1>2 DEF IInv, StampsOK, OrderOK, TimeOK
  <2>2. \A w \in Workers : at'[w].step = "emit" => at'[w].ts < clock'
    BY <1>3, <1>4 DEF IInv, StampsOK, OrderOK, TimeOK
  <2>3. \A w \in Workers : at'[w].step = "emit" =>
          /\ \A x \in Range(Snapshot) : Earlier(x, Pending(w)')
          /\ \A v \in Workers \ {w} : at'[v].step = "emit" => at'[v].ts # at'[w].ts
    BY <1>3 DEF OrderOK, TimeOK
  <2> QED BY <1>1, <2>1, <2>2, <2>3 DEF TimeOK, Earlier
<1>6. HoldsEnds(Snapshot, emitted)' <=> HoldsEnds(Snapshot', emitted')
  BY Zenon DEF HoldsEnds, Since
<1>7. InOrder(Snapshot)' <=> InOrder(Snapshot')
  BY Zenon DEF InOrder
<1>8. HoldsEnds(Snapshot', emitted') /\ InOrder(Snapshot') /\ emitted' = emitted
  <2>1. HoldsEnds(Snapshot, emitted) /\ InOrder(Snapshot) /\ emitted' = emitted
    BY DEF OrderOK
  <2> QED BY <1>1, <2>1, Zenon
<1> QED BY <1>5, <1>6, <1>7, <1>8 DEF OrderOK

\* Steps that emit an event: the rest of what they do keeps the clock ahead.
LEMMA LoudOrdered ==
    ASSUME IInv, OrderOK, NEW e \in Event, Emit(e), UNCHANGED cfg_,
           emitted' = [emitted EXCEPT ![e.by] = Append(@, e)],
           \A x \in Range(Snapshot) : Earlier(x, e),
           TimeOK' \/ ~ (Range(Snapshot') \subseteq Range(Snapshot) \cup {e})
    PROVE  OrderOK'
<1>1. HoldsEnds(Snapshot, emitted)' <=> HoldsEnds(Snapshot', emitted')
  BY Zenon DEF HoldsEnds, Since
<1>2. InOrder(Snapshot)' <=> InOrder(Snapshot')
  BY Zenon DEF InOrder
<1>3. /\ emitted' \in [Threads -> Seq(Event)]
      /\ HoldsEnds(Snapshot', emitted') /\ InOrder(Snapshot')
      /\ Range(Snapshot') \subseteq Range(Snapshot) \cup {e}
  BY EmitOrdered
<1> QED BY <1>1, <1>2, <1>3 DEF OrderOK

LEMMA StepOrders ==
    ASSUME IInv, OrderOK, [Next]_vars
    PROVE  OrderOK'
<1>0. /\ run \in Nat /\ clock \in Nat /\ cfg_ \in Cfgs
      /\ \A w \in Workers : at[w].kind \in Kinds /\ at[w].ts \in Nat
      /\ at \in [Workers -> [kind : Kinds, step : {"stamp", "emit", "count"}, ts : Nat]]
      /\ \A x \in Range(Snapshot) : x.run \in Nat /\ x.ts \in Nat /\ x.by \in Threads
  BY HeldAreEvents DEF IInv, StampsOK, Event
<1>t. TimeOK
  BY DEF OrderOK
<1>1. CASE RunStart
  <2>1. PICK e : e = [run |-> run + 1, ts |-> 0, by |-> Main, kind |-> "RUN_START"]
    OBVIOUS
  <2>2. e \in Event /\ e.by = Main /\ e.run = run + 1 /\ e.ts = 0
    BY <1>0, <2>1 DEF Event, Threads
  <2>3. /\ Emit(e) /\ emitted' = [emitted EXCEPT ![e.by] = Append(@, e)]
        /\ UNCHANGED <<cfg_, at>> /\ ~running /\ running' /\ run' = run + 1 /\ clock' = 1
    BY <1>1, <2>1, <2>2 DEF RunStart
  <2>4. \A x \in Range(Snapshot) : x.run < run + 1
    BY <1>0, <1>t DEF TimeOK
  <2>5. \A x \in Range(Snapshot) : Earlier(x, e)
    BY <2>2, <2>4 DEF Earlier
  <2>6. ASSUME Range(Snapshot') \subseteq Range(Snapshot) \cup {e}
        PROVE  TimeOK'
    <3>1. \A x \in Range(Snapshot') : x.run <= run' /\ (x.run = run' => x.ts < clock')
      BY <1>0, <2>2, <2>3, <2>4, <2>6
    <3>2. \A w \in Workers : at'[w].step # "emit"
      BY <1>t, <2>3 DEF TimeOK, Rest
    <3> QED BY <2>3, <3>1, <3>2 DEF TimeOK, Range
  <2> QED BY <2>2, <2>3, <2>5, <2>6, LoudOrdered
<1>2. CASE RunEnd \/ Terminated \/ UNCHANGED vars
  <2>1. UNCHANGED <<cfg_, ring, emitted, run>> /\ clock' = clock /\ at' = at
    BY <1>2 DEF RunEnd, Terminated, vars, ring
  <2>2. ~running' => \A w \in Workers : at'[w] = Rest
    BY <1>2, <1>t DEF RunEnd, Terminated, vars, TimeOK
  <2> QED BY <1>0, <2>1, <2>2, QuietOrdered
<1>3. ASSUME NEW w \in Workers, Stamp(w)
      PROVE  OrderOK'
  <2>1. /\ UNCHANGED <<cfg_, ring, emitted, run, running>> /\ running /\ clock' = clock + 1
        /\ at' = [at EXCEPT ![w] = [at[w] EXCEPT !.step = "emit", !.ts = clock]]
    BY <1>0, <1>3 DEF Stamp
  <2>2. at'[w].step = "emit" /\ at'[w].ts = clock /\ \A v \in Workers \ {w} : at'[v] = at[v]
    BY <1>0, <2>1
  <2>3. Snapshot' = Snapshot
    BY <2>1 DEF Snapshot, ring, capacity_
  <2>4. \A x \in Range(Snapshot) : x.run <= run /\ (x.run = run => x.ts < clock)
    BY <1>t DEF TimeOK
  <2>5. \A x \in Range(Snapshot) : Earlier(x, Pending(w)')
    <3>1. Pending(w)'.run = run /\ Pending(w)'.ts = clock
      BY <2>1, <2>2 DEF Pending
    <3> QED BY <1>0, <2>4, <3>1 DEF Earlier
  <2>6. ASSUME NEW v \in Workers \ {w}
        PROVE  Pending(v)' = Pending(v)
    BY <2>1, <2>2 DEF Pending
  <2>7. TimeOK'
    <3>1. \A x \in Range(Snapshot) : x.run <= run /\ (x.run = run => x.ts < clock')
      BY <1>0, <2>1, <2>4
    <3>2. ASSUME NEW v \in Workers, at'[v].step = "emit"
          PROVE  /\ at'[v].ts < clock'
                 /\ \A x \in Range(Snapshot) : Earlier(x, Pending(v)')
                 /\ \A u \in Workers \ {v} : at'[u].step = "emit" => at'[u].ts # at'[v].ts
      <4>1. \A u \in Workers \ {w} : at[u].step = "emit" => at[u].ts < clock
        BY <1>t DEF TimeOK
      <4>2. CASE v = w
        BY <1>0, <2>1, <2>2, <2>5, <4>1, <4>2
      <4>3. CASE v # w
        <5>1. at[v].step = "emit" /\ at'[v] = at[v] /\ at[v].ts < clock
          BY <2>2, <3>2, <4>1, <4>3
        <5>2. \A x \in Range(Snapshot) : Earlier(x, Pending(v)')
          BY <1>t, <2>6, <4>3, <5>1 DEF TimeOK
        <5>3. \A u \in Workers \ {v} : at'[u].step = "emit" => at'[u].ts # at'[v].ts
          BY <1>t, <1>0, <2>2, <5>1 DEF TimeOK
        <5> QED BY <1>0, <2>1, <5>1, <5>2, <5>3
      <4> QED BY <4>2, <4>3
    <3> QED BY <2>1, <2>3, <3>1, <3>2 DEF TimeOK, Earlier
  <2>8. HoldsEnds(Snapshot, emitted)' <=> HoldsEnds(Snapshot', emitted')
    BY Zenon DEF HoldsEnds, Since
  <2>9. InOrder(Snapshot)' <=> InOrder(Snapshot')
    BY Zenon DEF InOrder
  <2>10. HoldsEnds(Snapshot', emitted') /\ InOrder(Snapshot') /\ emitted' = emitted
    <3>1. HoldsEnds(Snapshot, emitted) /\ InOrder(Snapshot) /\ emitted' = emitted
      BY <2>1 DEF OrderOK
    <3> QED BY <2>3, <3>1, Zenon
  <2> QED BY <2>7, <2>8, <2>9, <2>10 DEF OrderOK
<1>4. ASSUME NEW w \in Workers, EmitEvent(w)
      PROVE  OrderOK'
  <2>1. PICK e : e = Pending(w)
    OBVIOUS
  <2>2. e \in Event /\ e.by = w /\ e.run = run /\ e.ts = at[w].ts
    BY <1>0, <2>1 DEF Event, Threads, Pending
  <2>3. /\ Emit(e) /\ emitted' = [emitted EXCEPT ![e.by] = Append(@, e)]
        /\ UNCHANGED <<cfg_, clock, run, running>> /\ at[w].step = "emit"
        /\ at' = [at EXCEPT ![w].step = "count"]
    BY <1>4, <2>1, <2>2 DEF EmitEvent, Pending
  <2>4. running /\ e.ts < clock /\ \A x \in Range(Snapshot) : Earlier(x, e)
    BY <1>t, <2>1, <2>2, <2>3 DEF TimeOK, Rest
  <2>5. at'[w].step = "count" /\ \A v \in Workers \ {w} : at'[v] = at[v] /\ Pending(v)' = Pending(v)
    BY <1>0, <2>3 DEF Pending
  <2>6. ASSUME Range(Snapshot') \subseteq Range(Snapshot) \cup {e}
        PROVE  TimeOK'
    <3>1. \A x \in Range(Snapshot') : x.run <= run' /\ (x.run = run' => x.ts < clock')
      BY <1>0, <1>t, <2>2, <2>3, <2>4, <2>6 DEF TimeOK
    <3>2. ASSUME NEW v \in Workers, at'[v].step = "emit"
          PROVE  /\ at'[v].ts < clock'
                 /\ \A x \in Range(Snapshot') : Earlier(x, Pending(v)')
                 /\ \A u \in Workers \ {v} : at'[u].step = "emit" => at'[u].ts # at'[v].ts
      <4>1. v # w /\ at'[v] = at[v] /\ Pending(v)' = Pending(v) /\ at[v].step = "emit"
        BY <2>5, <3>2
      <4>2. at[v].ts < clock /\ \A x \in Range(Snapshot) : Earlier(x, Pending(v))
        BY <1>t, <4>1 DEF TimeOK
      <4>3. Earlier(e, Pending(v))
        <5>1. at[v].ts # at[w].ts /\ Pending(v).run = run /\ Pending(v).ts = at[v].ts /\ Pending(v).by = v
          BY <1>t, <2>3, <4>1 DEF TimeOK, Pending
        <5> QED BY <2>2, <4>1, <5>1 DEF Earlier
      <4>4. \A u \in Workers \ {v} : at'[u].step = "emit" => at'[u].ts # at'[v].ts
        <5>1. ASSUME NEW u \in Workers \ {v}, at'[u].step = "emit"
              PROVE  at'[u].ts # at'[v].ts
          <6>1. u # w /\ at'[u] = at[u]
            BY <2>5, <5>1
          <6> QED BY <1>t, <4>1, <5>1, <6>1 DEF TimeOK
        <5> QED BY <5>1
      <4> QED BY <2>3, <2>6, <4>1, <4>2, <4>3, <4>4
    <3> QED BY <2>3, <2>4, <3>1, <3>2 DEF TimeOK, Range, Earlier
  <2> QED BY <2>2, <2>3, <2>4, <2>6, LoudOrdered
<1>5. ASSUME NEW w \in Workers, Count(w) \/ SkipCount(w) \/ Fault(w)
      PROVE  OrderOK'
  <2>1. /\ UNCHANGED <<cfg_, ring, emitted, run, running>> /\ clock' = clock
        /\ at[w].step # "emit" /\ at[w] # Rest
        /\ \A v \in Workers \ {w} : at'[v] = at[v]
    BY <1>0, <1>5 DEF Count, SkipCount, Fault, Rest
  <2>2. at'[w].step = "stamp"
    BY <1>0, <1>5 DEF Count, SkipCount, Fault, Rest
  <2>3. running
    BY <1>t, <2>1 DEF TimeOK
  <2> QED BY <1>0, <2>1, <2>2, <2>3, QuietOrdered
<1> QED BY <1>1, <1>2, <1>3, <1>4, <1>5 DEF Next

\* The empty log of the beginning.
LEMMA InitOrdered == Init => OrderOK
<1> SUFFICES ASSUME Init PROVE OrderOK
  OBVIOUS
<1>1. Snapshot = <<>> /\ DOMAIN Snapshot = {} /\ emitted \in [Threads -> Seq(Event)]
  BY DEF Init, Snapshot
<1>2. Range(Snapshot) = {} /\ HoldsEnds(Snapshot, emitted) /\ InOrder(Snapshot)
  BY <1>1 DEF Range, HoldsEnds, InOrder
<1>3. \A w \in Workers : at[w] = Rest /\ at[w].step # "emit"
  BY DEF Init, Rest
<1> QED BY <1>1, <1>2, <1>3 DEF OrderOK, TimeOK

(* However many workers push and whatever the ring has overwritten, what    *)
(* snapshot() returns of a thread is the end of what it emitted, without a  *)
(* gap; kernels follow each other, and the stamps of next_ts_local are      *)
(* unique within a kernel and ascend within a thread.                       *)
THEOREM SnapshotsAreOrdered == Spec => []EachWorkerInOrder
<1>1. IInv /\ OrderOK /\ [Next]_vars => OrderOK'
  BY StepOrders
<1>2. OrderOK => EachWorkerInOrder
  BY DEF OrderOK, HoldsEnds, InOrder, Earlier, EachWorkerInOrder
<1> QED BY InitOrdered, <1>1, <1>2, RingInShape, PTL DEF Spec

-----------------------------------------------------------------------------
(* The counters.                                                           *)

EventsIn(hist, kind) ==
    UNION {{t} \X {i \in DOMAIN hist[t] : hist[t][i].kind = kind} : t \in Threads}

FlyingIn(place, kind) == {w \in Workers : place[w].kind = kind /\ place[w].step = "count"}

Slots(items, key) == {i \in DOMAIN items : items[i][1] = key}

CountedIn(items, key) == IF Slots(items, key) = {} THEN 0 ELSE items[Min(Slots(items, key))][2]

\* No key is there twice.
Tidy(items) ==
    /\ items \in Seq(Kinds \X Nat)
    /\ \A i, j \in DOMAIN items : items[i][1] = items[j][1] => i = j

LEMMA MinOfOne ==
    ASSUME NEW i \in Int
    PROVE  Min({i}) = i
BY DEF Min

LEMMA SecondOfPair ==
    ASSUME NEW p, NEW a \in Kinds, NEW b \in Nat, p = <<a, b>>, NEW c \in Nat
    PROVE  [p EXCEPT ![2] = c] = <<a, c>>
<1>1. p \in Seq(Kinds \cup Nat) /\ Len(p) = 2
  OBVIOUS
<1>2. [p EXCEPT ![2] = c] \in Seq(Kinds \cup Nat) /\ Len([p EXCEPT ![2] = c]) = 2
  BY <1>1
<1>3. [p EXCEPT ![2] = c][1] = a /\ [p EXCEPT ![2] = c][2] = c
  BY <1>1
<1> QED BY <1>2, <1>3

\* Counters::inc adds one to one counter.
LEMMA IncCounts ==
    ASSUME NEW items, Tidy(items), NEW key \in Kinds
    PROVE  /\ Tidy(Inc(items, key))
           /\ \A k \in Kinds :
                /\ CountedIn(items, k) \in Nat
                /\ CountedIn(Inc(items, key), k)
                     = IF k = key THEN CountedIn(items, k) + 1 ELSE CountedIn(items, k)
<1> DEFINE new == Inc(items, key)
<1>0. /\ DOMAIN items = 1 .. Len(items) /\ Len(items) \in Nat
      /\ \A i \in DOMAIN items : items[i] = <<items[i][1], items[i][2]>> /\ items[i][2] \in Nat /\ items[i][1] \in Kinds
  BY DEF Tidy
<1>1. \A k, i : i \in Slots(items, k) => Slots(items, k) = {i} /\ Min(Slots(items, k)) = i
  <2>1. ASSUME NEW k, NEW i \in Slots(items, k)
        PROVE  Slots(items, k) = {i} /\ Min(Slots(items, k)) = i
    <3>1. Slots(items, k) = {i} /\ i \in Int
      BY <1>0 DEF Slots, Tidy
    <3> QED BY <3>1, MinOfOne
  <2> QED BY <2>1
<1>2. \A k, i : i \in Slots(items, k) => CountedIn(items, k) = items[i][2] /\ CountedIn(items, k) \in Nat
  BY <1>0, <1>1 DEF CountedIn, Slots
<1>3. \A k : Slots(items, k) = {} => CountedIn(items, k) = 0
  BY DEF CountedIn
<1>4. CASE Slots(items, key) = {}
  <2>1. new = Append(items, <<key, 1>>)
    BY <1>4 DEF Inc, Slots
  <2> DEFINE n == Len(items) + 1
  <2>2. /\ new \in Seq(Kinds \X Nat) /\ DOMAIN new = 1 .. n /\ new[n] = <<key, 1>>
        /\ \A i \in DOMAIN items : i \in 1 .. n /\ i # n /\ new[i] = items[i]
        /\ \A i \in 1 .. n : i = n \/ i \in DOMAIN items
    <3>1. items \in Seq(Kinds \X Nat) /\ <<key, 1>> \in Kinds \X Nat
      BY DEF Tidy
    <3> QED BY <2>1, <3>1
  <2> HIDE DEF new
  <2>3. Tidy(new)
    BY <1>0, <1>4, <2>2, SMTT(30) DEF Tidy, Slots
  <2>4. n \in Int /\ Slots(new, key) = {n} /\ \A k \in Kinds \ {key} : Slots(new, k) = Slots(items, k)
    <3>1. new[n][1] = key /\ \A i \in DOMAIN items : new[i][1] = items[i][1] /\ items[i][1] # key
      BY <1>4, <2>2 DEF Slots
    <3>2. n \in Int /\ Slots(new, key) = {n}
      BY <1>0, <2>2, <3>1 DEF Slots
    <3>3. ASSUME NEW k \in Kinds \ {key}
          PROVE  Slots(new, k) = Slots(items, k)
      BY <1>0, <2>2, <3>1 DEF Slots
    <3> QED BY <3>2, <3>3
  <2>5. CountedIn(new, key) = 1
    BY <2>2, <2>4, MinOfOne DEF CountedIn
  <2>6. ASSUME NEW k \in Kinds \ {key}
        PROVE  CountedIn(new, k) = CountedIn(items, k)
    <3>1. CASE Slots(items, k) = {}
      BY <2>4, <3>1 DEF CountedIn
    <3>2. ASSUME NEW i \in Slots(items, k)
          PROVE  CountedIn(new, k) = CountedIn(items, k)
      <4>1. Min(Slots(items, k)) = i /\ new[i] = items[i]
        BY <1>1, <2>2 DEF Slots
      <4> QED BY <2>4, <4>1 DEF CountedIn
    <3> QED BY <3>1, <3>2
  <2> QED BY <1>2, <1>3, <1>4, <2>3, <2>5, <2>6 DEF new
<1>5. ASSUME NEW i \in Slots(items, key)
      PROVE  /\ Tidy(new)
             /\ \A k \in Kinds :
                  CountedIn(new, k) = IF k = key THEN CountedIn(items, k) + 1 ELSE CountedIn(items, k)
  <2>1. new = [items EXCEPT ![i][2] = items[i][2] + 1]
    <3>1. Slots(items, key) # {} /\ Min(Slots(items, key)) = i
      BY <1>1
    <3> QED BY <3>1 DEF Inc, Slots
  <2>2. i \in DOMAIN items /\ items[i][1] = key
    BY DEF Slots
  <2>3. /\ new \in Seq(Kinds \X Nat) /\ DOMAIN new = DOMAIN items
        /\ new[i] = <<key, items[i][2] + 1>>
        /\ \A j \in DOMAIN items \ {i} : new[j] = items[j]
    <3>1. items \in Seq(Kinds \X Nat) /\ items[i] = <<key, items[i][2]>> /\ items[i][2] \in Nat
      BY <1>0, <2>2 DEF Tidy
    <3>2. [items[i] EXCEPT ![2] = items[i][2] + 1] = <<key, items[i][2] + 1>>
      BY <3>1, SecondOfPair
    <3>3. new = [items EXCEPT ![i] = <<key, items[i][2] + 1>>]
      BY <2>1, <3>2
    <3>4. <<key, items[i][2] + 1>> \in Kinds \X Nat
      BY <3>1
    <3> QED BY <2>2, <3>1, <3>3, <3>4
  <2> HIDE DEF new
  <2>4. Tidy(new)
    <3>1. \A j \in DOMAIN new : new[j][1] = items[j][1]
      BY <2>2, <2>3
    <3> QED BY <2>3, <3>1 DEF Tidy
  <2>5. \A k : Slots(new, k) = Slots(items, k)
    <3>1. \A j \in DOMAIN items : new[j][1] = items[j][1]
      BY <2>2, <2>3
    <3> QED BY <2>3, <3>1, Zenon DEF Slots
  <2>6. CountedIn(new, key) = CountedIn(items, key) + 1
    <3>1. CountedIn(new, key) = new[i][2] /\ CountedIn(items, key) = items[i][2]
      BY <1>1, <1>2, <2>5 DEF CountedIn
    <3> QED BY <2>3, <3>1
  <2>7. ASSUME NEW k \in Kinds \ {key}
        PROVE  CountedIn(new, k) = CountedIn(items, k)
    <3>1. CASE Slots(items, k) = {}
      BY <2>5, <3>1 DEF CountedIn
    <3>2. ASSUME NEW j \in Slots(items, k)
          PROVE  CountedIn(new, k) = CountedIn(items, k)
      <4>1. Min(Slots(items, k)) = j /\ new[j] = items[j]
        BY <1>1, <2>2, <2>3 DEF Slots
      <4> QED BY <2>5, <4>1 DEF CountedIn
    <3> QED BY <3>1, <3>2
  <2> QED BY <2>4, <2>6, <2>7
<1> QED BY <1>2, <1>3, <1>4, <1>5

LEMMA EventsHave ==
    ASSUME NEW hist, NEW kind
    PROVE  /\ \A t \in Threads : \A i \in DOMAIN hist[t] :
                hist[t][i].kind = kind => <<t, i>> \in EventsIn(hist, kind)
           /\ \A x \in EventsIn(hist, kind) :
                /\ x = <<x[1], x[2]>> /\ x[1] \in Threads /\ x[2] \in DOMAIN hist[x[1]]
                /\ hist[x[1]][x[2]].kind = kind
BY DEF EventsIn

\* An event more.
LEMMA EventsGrow ==
    ASSUME NEW hist \in [Threads -> Seq(Event)], NEW e \in Event, NEW kind \in Kinds,
           IsFiniteSet(EventsIn(hist, kind))
    PROVE  \A h : h = [hist EXCEPT ![e.by] = Append(hist[e.by], e)] =>
             /\ IsFiniteSet(EventsIn(h, kind))
             /\ Cardinality(EventsIn(h, kind))
                  = IF e.kind = kind THEN Cardinality(EventsIn(hist, kind)) + 1
                                     ELSE Cardinality(EventsIn(hist, kind))
<1> SUFFICES ASSUME NEW h, h = [hist EXCEPT ![e.by] = Append(hist[e.by], e)]
             PROVE  /\ IsFiniteSet(EventsIn(h, kind))
                    /\ Cardinality(EventsIn(h, kind))
                         = IF e.kind = kind THEN Cardinality(EventsIn(hist, kind)) + 1
                                            ELSE Cardinality(EventsIn(hist, kind))
  OBVIOUS
<1>1. PICK b, n : b = e.by /\ n = Len(hist[b]) + 1
  OBVIOUS
<1>2. b \in Threads
  BY <1>1 DEF Event
<1>3. /\ \A t \in Threads \ {b} : h[t] = hist[t]
      /\ n \in Nat \ {0} /\ DOMAIN h[b] = 1 .. n /\ h[b][n] = e
      /\ DOMAIN hist[b] = 1 .. n - 1 /\ \A i \in 1 .. n - 1 : h[b][i] = hist[b][i]
  <2>1. hist[b] \in Seq(Event) /\ h[b] = Append(hist[b], e)
    BY <1>1, <1>2
  <2> QED BY <1>1, <1>2, <2>1
<1>4. ASSUME NEW t \in Threads
      PROVE  {i \in DOMAIN h[t] : h[t][i].kind = kind}
               = {i \in DOMAIN hist[t] : hist[t][i].kind = kind}
                   \cup (IF t = b /\ e.kind = kind THEN {n} ELSE {})
  <2>1. CASE t # b
    BY <1>3, <2>1
  <2>2. CASE t = b
    <3>1. \A i : i \in 1 .. n <=> i \in 1 .. n - 1 \/ i = n
      BY <1>3
    <3> QED BY <1>3, <2>2, <3>1
  <2> QED BY <2>1, <2>2
<1>5. <<b, n>> \notin EventsIn(hist, kind)
  <2>1. n \notin DOMAIN hist[b]
    BY <1>3
  <2>2. ASSUME <<b, n>> \in EventsIn(hist, kind)
        PROVE  FALSE
    <3>1. <<b, n>>[2] \in DOMAIN hist[<<b, n>>[1]]
      BY <2>2, EventsHave
    <3> QED BY <2>1, <3>1
  <2> QED BY <2>2
<1>6. CASE e.kind = kind
  <2>1. EventsIn(h, kind) = EventsIn(hist, kind) \cup {<<b, n>>}
    <3>1. \A x : x \in EventsIn(h, kind) => x \in EventsIn(hist, kind) \cup {<<b, n>>}
      BY <1>4, <1>6 DEF EventsIn
    <3>2. \A x : x \in EventsIn(hist, kind) => x \in EventsIn(h, kind)
      BY <1>4, <1>6 DEF EventsIn
    <3>3. <<b, n>> \in EventsIn(h, kind)
      <4>1. n \in DOMAIN h[b] /\ h[b][n].kind = kind
        BY <1>3, <1>6
      <4> QED BY <1>2, <4>1, EventsHave
    <3> QED BY <3>1, <3>2, <3>3
  <2>2. /\ IsFiniteSet(EventsIn(hist, kind) \cup {<<b, n>>})
        /\ Cardinality(EventsIn(hist, kind) \cup {<<b, n>>}) = Cardinality(EventsIn(hist, kind)) + 1
    BY <1>5, FS_AddElement
  <2> QED BY <1>6, <2>1, <2>2
<1>7. CASE e.kind # kind
  <2>1. EventsIn(h, kind) = EventsIn(hist, kind)
    BY <1>4, <1>7 DEF EventsIn
  <2> QED BY <1>7, <2>1
<1> QED BY <1>6, <1>7

\* Every commit has its micro-op before it and every micro-op its fetch, and a
\* worker knows what it emitted last.
LastIs(w, kind) == emitted[w] # <<>> /\ emitted[w][Len(emitted[w])].kind = kind

ChainOK ==
    /\ \A t \in Threads : \A i \in DOMAIN emitted[t] :
         /\ emitted[t][i].kind = "COMMIT" => i > 1 /\ emitted[t][i - 1].kind = "UOP"
         /\ emitted[t][i].kind = "UOP"    => i > 1 /\ emitted[t][i - 1].kind = "FETCH"
    /\ \A w \in Workers :
         /\ at[w].kind = "FETCH" /\ at[w].step = "count"  => LastIs(w, "FETCH")
         /\ at[w].kind = "UOP" /\ at[w].step # "count"    => LastIs(w, "FETCH")
         /\ at[w].kind = "UOP" /\ at[w].step = "count"    => LastIs(w, "UOP")
         /\ at[w].kind = "COMMIT" /\ at[w].step # "count" => LastIs(w, "UOP")

\* The counters and the events that are not counted yet make up the events.
CountOK ==
    /\ Tidy(items_) /\ \A k \in Kinds : IsFiniteSet(EventsIn(emitted, k))
    /\ ~cfg_.enabled => items_ = <<>>
    /\ cfg_.enabled =>
         /\ \A k \in {"FETCH", "COMMIT"} :
              CountedIn(items_, k) + Cardinality(FlyingIn(at, k)) = Cardinality(EventsIn(emitted, k))
         /\ CountedIn(items_, "UOP") + Cardinality(FlyingIn(at, "UOP")) <= Cardinality(EventsIn(emitted, "UOP"))

LEMMA FlyingIsFinite ==
    ASSUME NEW place, NEW kind
    PROVE  IsFiniteSet(FlyingIn(place, kind)) /\ Cardinality(FlyingIn(place, kind)) \in Nat
<1>1. FlyingIn(place, kind) \subseteq Workers /\ IsFiniteSet(Workers)
  BY TraceRingAssumption DEF FlyingIn
<1> QED BY <1>1, FS_Subset, FS_CardinalityType

\* A worker that comes to its count, and one that leaves it.
LEMMA FlyingChanges ==
    ASSUME NEW w \in Workers, NEW a, NEW b, NEW kind, \A v \in Workers \ {w} : a[v] = b[v]
    PROVE  Cardinality(FlyingIn(b, kind))
             = Cardinality(FlyingIn(a, kind))
                 + (IF b[w].kind = kind /\ b[w].step = "count" THEN 1 ELSE 0)
                 - (IF a[w].kind = kind /\ a[w].step = "count" THEN 1 ELSE 0)
<1> DEFINE Rest_ == {v \in Workers \ {w} : a[v].kind = kind /\ a[v].step = "count"}
<1>1. /\ FlyingIn(a, kind) = IF a[w].kind = kind /\ a[w].step = "count" THEN Rest_ \cup {w} ELSE Rest_
      /\ FlyingIn(b, kind) = IF b[w].kind = kind /\ b[w].step = "count" THEN Rest_ \cup {w} ELSE Rest_
  BY DEF FlyingIn
<1>2. IsFiniteSet(Rest_) /\ w \notin Rest_
  <2>1. Rest_ \subseteq Workers
    OBVIOUS
  <2> QED BY <2>1, TraceRingAssumption, FS_Subset
<1> HIDE DEF Rest_
<1>3. Cardinality(Rest_ \cup {w}) = Cardinality(Rest_) + 1 /\ Cardinality(Rest_) \in Nat
  BY <1>2, FS_AddElement, FS_CardinalityType
<1> QED BY <1>1, <1>3

LEMMA KindsFollow ==
    KindAfter("FETCH") = "UOP" /\ KindAfter("UOP") = "COMMIT" /\ KindAfter("COMMIT") = "FETCH"
BY Zenon DEF KindAfter

\* What the steps of one worker do to its place, apart from taking a stamp.
LEMMA WorkerMoves ==
    ASSUME IInv, NEW w \in Workers, Count(w) \/ SkipCount(w) \/ Fault(w)
    PROVE  /\ UNCHANGED <<cfg_, emitted>> /\ \A v \in Workers \ {w} : at'[v] = at[v]
           /\ at'[w].step = "stamp"
           /\ \/ at[w].step = "count" /\ at[w].kind = "FETCH" /\ at'[w].kind = "UOP"
              \/ at[w].step = "count" /\ at[w].kind = "UOP" /\ at'[w].kind = "COMMIT"
              \/ at'[w].kind = "FETCH"
<1>1. /\ at[w].kind \in Kinds
      /\ at \in [Workers -> [kind : Kinds, step : {"stamp", "emit", "count"}, ts : Nat]]
  BY DEF IInv, StampsOK
<1>2. CASE Count(w)
  BY <1>1, <1>2, KindsFollow DEF Count, Rest, Kinds
<1>3. CASE SkipCount(w)
  BY <1>1, <1>3 DEF SkipCount, Rest
<1>4. CASE Fault(w)
  BY <1>1, <1>4 DEF Fault, Rest
<1> QED BY <1>2, <1>3, <1>4

LEMMA StepChains ==
    ASSUME IInv, OrderOK, ChainOK, [Next]_vars
    PROVE  ChainOK'
<1>0. /\ emitted \in [Threads -> Seq(Event)] /\ Main \in Threads /\ Workers \subseteq Threads
      /\ at \in [Workers -> [kind : Kinds, step : {"stamp", "emit", "count"}, ts : Nat]]
  BY DEF OrderOK, IInv, StampsOK, Threads
<1>1. CASE RunStart
  <2>1. PICK e : e = [run |-> run + 1, ts |-> 0, by |-> Main, kind |-> "RUN_START"]
    OBVIOUS
  <2>2. emitted' = [emitted EXCEPT ![Main] = Append(@, e)] /\ at' = at /\ e.kind = "RUN_START"
    BY <1>1, <2>1 DEF RunStart
  <2>3. \A w \in Workers : at'[w].kind = "FETCH" /\ at'[w].step = "stamp"
    BY <1>1, <2>2 DEF RunStart, OrderOK, TimeOK, Rest
  <2>4. ASSUME NEW t \in Threads, NEW i \in DOMAIN emitted'[t]
        PROVE  /\ emitted'[t][i].kind = "COMMIT" => i > 1 /\ emitted'[t][i - 1].kind = "UOP"
               /\ emitted'[t][i].kind = "UOP"    => i > 1 /\ emitted'[t][i - 1].kind = "FETCH"
    <3>1. CASE t # Main
      BY <1>0, <2>2, <3>1 DEF ChainOK
    <3>2. CASE t = Main
      <4>1. PICK s \in Seq(Event) : s = emitted[t] /\ emitted'[t] = Append(s, e)
        BY <1>0, <2>2, <3>2
      <4>2. \A j \in DOMAIN s : /\ s[j].kind = "COMMIT" => j > 1 /\ s[j - 1].kind = "UOP"
                                /\ s[j].kind = "UOP"    => j > 1 /\ s[j - 1].kind = "FETCH"
        BY <4>1 DEF ChainOK
      <4>3. CASE i = Len(s) + 1
        BY <2>2, <4>1, <4>3
      <4>4. CASE i # Len(s) + 1
        <5>1. i \in DOMAIN s /\ (i > 1 => i - 1 \in DOMAIN s)
          BY <4>1, <4>4
        <5>2. \A j \in DOMAIN s : Append(s, e)[j] = s[j]
          OBVIOUS
        <5> QED BY <4>1, <4>2, <5>1, <5>2
      <4> QED BY <4>3, <4>4
    <3> QED BY <3>1, <3>2
  <2> QED BY <2>3, <2>4 DEF ChainOK, LastIs
<1>2. CASE RunEnd \/ Terminated \/ UNCHANGED vars
  BY <1>2 DEF RunEnd, Terminated, vars, ChainOK, LastIs
<1>3. ASSUME NEW w \in Workers, Stamp(w)
      PROVE  ChainOK'
  <2>1. /\ emitted' = emitted /\ at[w].step = "stamp" /\ at'[w].kind = at[w].kind /\ at'[w].step = "emit"
        /\ \A v \in Workers \ {w} : at'[v] = at[v]
    BY <1>0, <1>3 DEF Stamp
  <2> QED BY <2>1 DEF ChainOK, LastIs
<1>4. ASSUME NEW w \in Workers, EmitEvent(w)
      PROVE  ChainOK'
  <2>1. PICK e : e = Pending(w)
    OBVIOUS
  <2>2. /\ emitted' = [emitted EXCEPT ![w] = Append(@, e)] /\ e.kind = at[w].kind /\ at[w].kind \in Kinds
        /\ at[w].step = "emit" /\ at'[w].kind = at[w].kind /\ at'[w].step = "count"
        /\ \A v \in Workers \ {w} : at'[v] = at[v]
    BY <1>0, <1>4, <2>1 DEF EmitEvent, Pending
  <2>3. PICK s \in Seq(Event) : s = emitted[w] /\ emitted'[w] = Append(s, e)
    BY <1>0, <2>2
  <2>4. /\ \A j \in DOMAIN s : s[j].kind = "COMMIT" => j > 1 /\ s[j - 1].kind = "UOP"
        /\ \A j \in DOMAIN s : s[j].kind = "UOP"    => j > 1 /\ s[j - 1].kind = "FETCH"
        /\ e.kind = "COMMIT" => s # <<>> /\ s[Len(s)].kind = "UOP"
        /\ e.kind = "UOP" => s # <<>> /\ s[Len(s)].kind = "FETCH"
    BY <1>0, <2>2, <2>3 DEF ChainOK, LastIs
  <2>5. /\ Len(s) \in Nat /\ DOMAIN s = 1 .. Len(s) /\ DOMAIN Append(s, e) = 1 .. Len(s) + 1
        /\ Append(s, e)[Len(s) + 1] = e /\ \A j \in DOMAIN s : Append(s, e)[j] = s[j]
        /\ Len(Append(s, e)) = Len(s) + 1 /\ Append(s, e) # <<>> /\ (s # <<>> => Len(s) > 0)
    OBVIOUS
  <2>6. ASSUME NEW i \in DOMAIN emitted'[w]
        PROVE  /\ emitted'[w][i].kind = "COMMIT" => i > 1 /\ emitted'[w][i - 1].kind = "UOP"
               /\ emitted'[w][i].kind = "UOP"    => i > 1 /\ emitted'[w][i - 1].kind = "FETCH"
    <3>1. CASE i = Len(s) + 1
      <4>1. i - 1 = Len(s) /\ (s # <<>> => i - 1 \in DOMAIN s /\ i > 1)
        BY <2>5, <3>1
      <4> QED BY <2>3, <2>4, <2>5, <3>1, <4>1
    <3>2. CASE i # Len(s) + 1
      <4>1. i \in DOMAIN s /\ (i > 1 => i - 1 \in DOMAIN s)
        BY <2>3, <2>5, <3>2
      <4> QED BY <2>3, <2>4, <2>5, <4>1
    <3> QED BY <3>1, <3>2
  <2>7. \A t \in Threads \ {w} : emitted'[t] = emitted[t]
    BY <1>0, <2>2
  <2>8. emitted'[w] # <<>> /\ emitted'[w][Len(emitted'[w])].kind = at[w].kind
    BY <2>2, <2>3, <2>5
  <2>9. ASSUME NEW v \in Workers
        PROVE  /\ at'[v].kind = "FETCH" /\ at'[v].step = "count"  => LastIs(v, "FETCH")'
               /\ at'[v].kind = "UOP" /\ at'[v].step # "count"    => LastIs(v, "FETCH")'
               /\ at'[v].kind = "UOP" /\ at'[v].step = "count"    => LastIs(v, "UOP")'
               /\ at'[v].kind = "COMMIT" /\ at'[v].step # "count" => LastIs(v, "UOP")'
    <3>1. CASE v = w
      BY <2>2, <2>8, <3>1 DEF LastIs
    <3>2. CASE v # w
      BY <1>0, <2>2, <2>7, <3>2 DEF ChainOK, LastIs
    <3> QED BY <3>1, <3>2
  <2>10. ASSUME NEW t \in Threads, NEW i \in DOMAIN emitted'[t]
         PROVE  /\ emitted'[t][i].kind = "COMMIT" => i > 1 /\ emitted'[t][i - 1].kind = "UOP"
                /\ emitted'[t][i].kind = "UOP"    => i > 1 /\ emitted'[t][i - 1].kind = "FETCH"
    <3>1. CASE t = w
      BY <2>6, <3>1
    <3>2. CASE t # w
      BY <2>7, <3>2 DEF ChainOK
    <3> QED BY <3>1, <3>2
  <2> QED BY <2>9, <2>10 DEF ChainOK
<1>5. ASSUME NEW w \in Workers, Count(w) \/ SkipCount(w) \/ Fault(w)
      PROVE  ChainOK'
  BY <1>5, WorkerMoves DEF ChainOK, LastIs
<1> QED BY <1>1, <1>2, <1>3, <1>4, <1>5 DEF Next

\* What an emitted event adds to the events of each kind.
LEMMA EventsCount ==
    ASSUME CountOK, NEW e \in Event, emitted \in [Threads -> Seq(Event)],
           emitted' = [emitted EXCEPT ![e.by] = Append(@, e)], NEW k \in Kinds
    PROVE  /\ IsFiniteSet(EventsIn(emitted', k))
           /\ Cardinality(EventsIn(emitted, k)) \in Nat
           /\ Cardinality(EventsIn(emitted', k)) = Cardinality(EventsIn(emitted, k)) + (IF e.kind = k THEN 1 ELSE 0)
<1>1. PICK hist, h : hist = emitted /\ h = emitted'
  OBVIOUS
<1>2. IsFiniteSet(EventsIn(hist, k)) /\ Cardinality(EventsIn(hist, k)) \in Nat
  BY <1>1, FS_CardinalityType DEF CountOK
<1>h. hist \in [Threads -> Seq(Event)] /\ h = [hist EXCEPT ![e.by] = Append(@, e)]
  BY <1>1
<1>3. /\ IsFiniteSet(EventsIn(h, k))
      /\ Cardinality(EventsIn(h, k)) = IF e.kind = k THEN Cardinality(EventsIn(hist, k)) + 1
                                      ELSE Cardinality(EventsIn(hist, k))
  <2>1. IsFiniteSet(EventsIn(hist, k))
    BY <1>2
  <2>2. \A g : g = [hist EXCEPT ![e.by] = Append(hist[e.by], e)] =>
             /\ IsFiniteSet(EventsIn(g, k))
             /\ Cardinality(EventsIn(g, k)) = IF e.kind = k THEN Cardinality(EventsIn(hist, k)) + 1
                                             ELSE Cardinality(EventsIn(hist, k))
    BY <1>h, <2>1, EventsGrow
  <2> QED BY <1>h, <2>2, Zenon
<1> QED BY <1>1, <1>2, <1>3

LEMMA StepCounts ==
    ASSUME IInv, OrderOK, CountOK, [Next]_vars
    PROVE  CountOK'
<1>0. /\ emitted \in [Threads -> Seq(Event)] /\ Main \in Threads /\ Workers \subseteq Threads
      /\ at \in [Workers -> [kind : Kinds, step : {"stamp", "emit", "count"}, ts : Nat]] /\ run \in Nat
  BY DEF OrderOK, IInv, StampsOK, Threads
<1>1. CASE RunStart
  <2>1. PICK e : e = [run |-> run + 1, ts |-> 0, by |-> Main, kind |-> "RUN_START"]
    OBVIOUS
  <2>2. e \in Event /\ e.by = Main /\ e.kind = "RUN_START"
    BY <1>0, <2>1 DEF Event
  <2>3. emitted' = [emitted EXCEPT ![e.by] = Append(@, e)] /\ UNCHANGED <<at, items_, cfg_>>
    BY <1>1, <2>1, <2>2 DEF RunStart
  <2>4. \A k \in Kinds : /\ IsFiniteSet(EventsIn(emitted', k))
                         /\ Cardinality(EventsIn(emitted', k)) = Cardinality(EventsIn(emitted, k))
    <3>1. \A k \in Kinds :
            /\ IsFiniteSet(EventsIn(emitted', k))
            /\ Cardinality(EventsIn(emitted, k)) \in Nat
            /\ Cardinality(EventsIn(emitted', k)) = Cardinality(EventsIn(emitted, k)) + (IF e.kind = k THEN 1 ELSE 0)
      BY <1>0, <2>2, <2>3, EventsCount
    <3>2. \A k \in Kinds : e.kind # k
      BY <2>2 DEF Kinds
    <3> QED BY <3>1, <3>2
  <2> QED BY <2>3, <2>4 DEF CountOK, Kinds
<1>2. CASE RunEnd \/ Terminated \/ UNCHANGED vars
  BY <1>2 DEF RunEnd, Terminated, vars, CountOK
<1>3. ASSUME NEW w \in Workers, Stamp(w)
      PROVE  CountOK'
  <2>1. UNCHANGED <<cfg_, items_, emitted>> /\ at[w].step = "stamp" /\ at'[w].step = "emit"
        /\ \A v \in Workers \ {w} : at'[v] = at[v]
    BY <1>0, <1>3 DEF Stamp
  <2>2. \A k : FlyingIn(at', k) = FlyingIn(at, k)
    BY <2>1 DEF FlyingIn
  <2> QED BY <2>1, <2>2 DEF CountOK
<1>4. ASSUME NEW w \in Workers, EmitEvent(w)
      PROVE  CountOK'
  <2>1. PICK e : e = Pending(w)
    OBVIOUS
  <2>2. e \in Event /\ e.by = w /\ e.kind = at[w].kind
    BY <1>0, <2>1 DEF Event, Threads, Pending
  <2>3. /\ emitted' = [emitted EXCEPT ![e.by] = Append(@, e)] /\ UNCHANGED <<cfg_, items_>>
        /\ at[w].step = "emit" /\ at'[w].step = "count" /\ at'[w].kind = e.kind
        /\ \A v \in Workers \ {w} : at'[v] = at[v]
    BY <1>0, <1>4, <2>1, <2>2 DEF EmitEvent, Pending
  <2>4. \A k \in Kinds :
          /\ IsFiniteSet(EventsIn(emitted', k))
          /\ Cardinality(EventsIn(emitted, k)) \in Nat
          /\ Cardinality(EventsIn(emitted', k)) = Cardinality(EventsIn(emitted, k)) + (IF e.kind = k THEN 1 ELSE 0)
    BY <1>0, <2>2, <2>3, EventsCount
  <2>5. \A k \in Kinds :
          /\ Cardinality(FlyingIn(at, k)) \in Nat
          /\ Cardinality(FlyingIn(at', k)) = Cardinality(FlyingIn(at, k)) + (IF e.kind = k THEN 1 ELSE 0)
    <3>1. ASSUME NEW k \in Kinds
          PROVE  /\ Cardinality(FlyingIn(at, k)) \in Nat
                 /\ Cardinality(FlyingIn(at', k)) = Cardinality(FlyingIn(at, k)) + (IF e.kind = k THEN 1 ELSE 0)
      <4>1. PICK a, b : a = at /\ b = at'
        OBVIOUS
      <4>2. Cardinality(FlyingIn(b, k))
              = Cardinality(FlyingIn(a, k))
                  + (IF b[w].kind = k /\ b[w].step = "count" THEN 1 ELSE 0)
                  - (IF a[w].kind = k /\ a[w].step = "count" THEN 1 ELSE 0)
        BY <2>3, <4>1, FlyingChanges
      <4>3. Cardinality(FlyingIn(a, k)) \in Nat
        BY FlyingIsFinite
      <4> QED BY <2>3, <4>1, <4>2, <4>3
    <3> QED BY <3>1
  <2>6. \A k \in Kinds : CountedIn(items_, k) \in Nat
    BY IncCounts DEF CountOK
  <2> QED BY <2>3, <2>4, <2>5, <2>6 DEF CountOK, Kinds
<1>5. ASSUME NEW w \in Workers, Count(w) \/ SkipCount(w) \/ Fault(w)
      PROVE  CountOK'
  <2>1. /\ UNCHANGED <<cfg_, emitted>> /\ at'[w].step = "stamp" /\ \A v \in Workers \ {w} : at'[v] = at[v]
        /\ at[w].kind \in Kinds
    BY <1>0, <1>5, WorkerMoves
  <2>2. \A k \in Kinds :
          /\ Cardinality(FlyingIn(at, k)) \in Nat
          /\ Cardinality(FlyingIn(at', k))
               = Cardinality(FlyingIn(at, k)) - (IF at[w].kind = k /\ at[w].step = "count" THEN 1 ELSE 0)
    <3>1. ASSUME NEW k \in Kinds
          PROVE  /\ Cardinality(FlyingIn(at, k)) \in Nat
                 /\ Cardinality(FlyingIn(at', k))
                      = Cardinality(FlyingIn(at, k)) - (IF at[w].kind = k /\ at[w].step = "count" THEN 1 ELSE 0)
      <4>1. PICK a, b : a = at /\ b = at'
        OBVIOUS
      <4>2. Cardinality(FlyingIn(b, k))
              = Cardinality(FlyingIn(a, k))
                  + (IF b[w].kind = k /\ b[w].step = "count" THEN 1 ELSE 0)
                  - (IF a[w].kind = k /\ a[w].step = "count" THEN 1 ELSE 0)
        BY <2>1, <4>1, FlyingChanges
      <4>3. Cardinality(FlyingIn(a, k)) \in Nat
        BY FlyingIsFinite
      <4> QED BY <2>1, <4>1, <4>2, <4>3
    <3> QED BY <3>1
  <2>3. \A k \in Kinds : CountedIn(items_, k) \in Nat /\ Cardinality(EventsIn(emitted, k)) \in Nat
    BY IncCounts, FS_CardinalityType DEF CountOK
  <2>4. CASE Count(w)
    <3>1. at[w].step = "count" /\ items_' = IF cfg_.enabled THEN Inc(items_, at[w].kind) ELSE items_
      BY <2>4 DEF Count
    <3>2. Tidy(items_') /\ (~cfg_.enabled => items_' = <<>>)
      BY <2>1, <3>1, IncCounts DEF CountOK
    <3>3. cfg_.enabled => \A k \in Kinds :
            CountedIn(items_', k) = CountedIn(items_, k) + (IF at[w].kind = k THEN 1 ELSE 0)
      <4>1. PICK items, new : items = items_ /\ new = Inc(items, at[w].kind)
        OBVIOUS
      <4>2. \A k \in Kinds : /\ CountedIn(items, k) \in Nat
                             /\ CountedIn(new, k) = IF k = at[w].kind THEN CountedIn(items, k) + 1 ELSE CountedIn(items, k)
        BY <2>1, <4>1, IncCounts DEF CountOK
      <4> QED BY <3>1, <4>1, <4>2
    <3>4. cfg_.enabled => \A k \in Kinds :
            CountedIn(items_', k) + Cardinality(FlyingIn(at', k))
              = CountedIn(items_, k) + Cardinality(FlyingIn(at, k))
      BY <2>2, <2>3, <3>1, <3>3
    <3>5. /\ "FETCH" \in Kinds /\ "COMMIT" \in Kinds /\ "UOP" \in Kinds
          /\ \A k : EventsIn(emitted', k) = EventsIn(emitted, k)
      BY <2>1 DEF Kinds
    <3> QED BY <2>1, <3>2, <3>4, <3>5 DEF CountOK
  <2>5. CASE SkipCount(w) \/ Fault(w)
    <3>1. items_' = items_ /\ (at[w].step = "count" => at[w].kind = "UOP")
      BY <2>5 DEF SkipCount, Fault
    <3>2. \A k \in Kinds :
            /\ CountedIn(items_', k) + Cardinality(FlyingIn(at', k))
                 <= CountedIn(items_, k) + Cardinality(FlyingIn(at, k))
            /\ k # "UOP" =>
                 CountedIn(items_', k) + Cardinality(FlyingIn(at', k))
                   = CountedIn(items_, k) + Cardinality(FlyingIn(at, k))
      BY <2>2, <2>3, <3>1
    <3>3. /\ "FETCH" \in Kinds /\ "COMMIT" \in Kinds /\ "UOP" \in Kinds
          /\ \A k : EventsIn(emitted', k) = EventsIn(emitted, k)
      BY <2>1 DEF Kinds
    <3>4. /\ Tidy(items_') /\ (~cfg_'.enabled => items_' = <<>>)
          /\ \A k \in Kinds : IsFiniteSet(EventsIn(emitted', k))
      BY <2>1, <3>1, <3>3 DEF CountOK
    <3>5. cfg_.enabled =>
            CountedIn(items_', "UOP") + Cardinality(FlyingIn(at', "UOP")) <= Cardinality(EventsIn(emitted, "UOP"))
      <4>1. /\ CountedIn(items_', "UOP") \in Nat /\ CountedIn(items_, "UOP") \in Nat
            /\ Cardinality(EventsIn(emitted, "UOP")) \in Nat
        BY <2>3, <3>1, <3>3
      <4>2. Cardinality(FlyingIn(at', "UOP")) \in Nat /\ Cardinality(FlyingIn(at, "UOP")) \in Nat
        BY FlyingIsFinite
      <4> QED BY <3>2, <3>3, <4>1, <4>2 DEF CountOK
    <3> QED BY <2>1, <3>2, <3>3, <3>4, <3>5 DEF CountOK
  <2> QED BY <1>5, <2>4, <2>5
<1> QED BY <1>1, <1>2, <1>3, <1>4, <1>5 DEF Next

\* Each commit event is owed to a micro-op event of its own, each micro-op event
\* and each worker about to count a fetch to a fetch event of its own.
LEMMA ChainsCount ==
    ASSUME IInv, OrderOK, ChainOK, CountOK
    PROVE  /\ Cardinality(EventsIn(emitted, "COMMIT")) <= Cardinality(EventsIn(emitted, "UOP"))
           /\ Cardinality(EventsIn(emitted, "UOP")) + Cardinality(FlyingIn(at, "FETCH"))
                <= Cardinality(EventsIn(emitted, "FETCH"))
<1> DEFINE Commits == EventsIn(emitted, "COMMIT")
           Uops    == EventsIn(emitted, "UOP")
           Fetches == EventsIn(emitted, "FETCH")
           Flying  == FlyingIn(at, "FETCH")
           Before(x) == <<x[1], x[2] - 1>>
<1>0. emitted \in [Threads -> Seq(Event)] /\ Workers \subseteq Threads
  BY DEF OrderOK, Threads
<1>1. /\ IsFiniteSet(Uops) /\ IsFiniteSet(Fetches) /\ IsFiniteSet(Commits) /\ IsFiniteSet(Flying)
      /\ Cardinality(Uops) \in Nat /\ Cardinality(Fetches) \in Nat /\ Cardinality(Flying) \in Nat
  <2>1. IsFiniteSet(Uops) /\ IsFiniteSet(Fetches) /\ IsFiniteSet(Commits)
    BY DEF CountOK, Kinds
  <2> QED BY <2>1, FS_CardinalityType, FlyingIsFinite
<1>2. \A x \in Commits \cup Uops \cup Fetches : x = <<x[1], x[2]>> /\ x[1] \in Threads /\ x[2] \in DOMAIN emitted[x[1]]
  BY EventsHave
<1>3. \A x \in Commits \cup Uops \cup Fetches : x[2] \in Nat
  BY <1>0, <1>2
<1>4. \A x, y \in Commits \cup Uops \cup Fetches : Before(x) = Before(y) => x = y
  <2>1. ASSUME NEW x \in Commits \cup Uops \cup Fetches, NEW y \in Commits \cup Uops \cup Fetches,
               Before(x) = Before(y)
        PROVE  x = y
    <3>1. x[1] = y[1] /\ x[2] - 1 = y[2] - 1
      BY <2>1
    <3>2. x[2] = y[2]
      BY <1>3, <3>1
    <3> QED BY <1>2, <3>1, <3>2
  <2> QED BY <2>1
<1>5. \A x \in Commits : Before(x) \in Uops
  <2>1. ASSUME NEW x \in Commits
        PROVE  Before(x) \in Uops
    <3>1. PICK t, i : t = x[1] /\ i = x[2]
      OBVIOUS
    <3>2. t \in Threads /\ i \in DOMAIN emitted[t] /\ emitted[t][i].kind = "COMMIT"
      BY <3>1, EventsHave
    <3>3. i > 1 /\ emitted[t][i - 1].kind = "UOP" /\ i - 1 \in DOMAIN emitted[t]
      BY <1>0, <3>2 DEF ChainOK
    <3>4. <<t, i - 1>> \in Uops
      BY <3>2, <3>3, EventsHave
    <3> QED BY <3>1, <3>4
  <2> QED BY <2>1
<1>6. \A x \in Uops : Before(x) \in Fetches
  <2>1. ASSUME NEW x \in Uops
        PROVE  Before(x) \in Fetches
    <3>1. PICK t, i : t = x[1] /\ i = x[2]
      OBVIOUS
    <3>2. t \in Threads /\ i \in DOMAIN emitted[t] /\ emitted[t][i].kind = "UOP"
      BY <3>1, EventsHave
    <3>3. i > 1 /\ emitted[t][i - 1].kind = "FETCH" /\ i - 1 \in DOMAIN emitted[t]
      BY <1>0, <3>2 DEF ChainOK
    <3>4. <<t, i - 1>> \in Fetches
      BY <3>2, <3>3, EventsHave
    <3> QED BY <3>1, <3>4
  <2> QED BY <2>1
<1> DEFINE Last(w) == <<w, Len(emitted[w])>>
<1>7. \A w \in Flying : Last(w) \in Fetches
  <2>1. ASSUME NEW w \in Flying
        PROVE  Last(w) \in Fetches
    <3>1. w \in Threads /\ emitted[w] # <<>> /\ emitted[w][Len(emitted[w])].kind = "FETCH"
      BY <1>0 DEF FlyingIn, ChainOK, LastIs
    <3>2. Len(emitted[w]) \in DOMAIN emitted[w]
      BY <1>0, <3>1
    <3> QED BY <3>1, <3>2, EventsHave
  <2> QED BY <2>1
<1>8. \A w \in Flying : \A x \in Uops : Before(x) # Last(w)
  <2>1. ASSUME NEW w \in Flying, NEW x \in Uops, Before(x) = Last(w)
        PROVE  FALSE
    <3>1. x[1] = w /\ x[2] - 1 = Len(emitted[w])
      BY <2>1
    <3>2. x[2] \in DOMAIN emitted[w] /\ w \in Threads
      BY <1>2, <3>1
    <3> QED BY <1>0, <3>1, <3>2
  <2> QED BY <2>1
<1>9. Cardinality(Commits) <= Cardinality(Uops)
  <2> DEFINE f == [x \in Commits |-> Before(x)]
  <2>1. f \in [Commits -> Uops] /\ \A x, y \in Commits : f[x] = f[y] => x = y
    <3> HIDE DEF Before, Commits, Uops, Fetches
    <3> QED BY <1>4, <1>5
  <2> HIDE DEF f, Commits, Uops
  <2> QED BY <1>1, <2>1, Injected
<1>10. Cardinality(Uops) + Cardinality(Flying) <= Cardinality(Fetches)
  <2> DEFINE f == [x \in Uops |-> Before(x)]
             g == [w \in Flying |-> Last(w)]
             A == {Before(x) : x \in Uops}
             B == {Last(w) : w \in Flying}
  <2>1. A \subseteq Fetches /\ B \subseteq Fetches /\ A \cap B = {}
    <3> HIDE DEF Before, Last, Uops, Fetches, Flying
    <3> QED BY <1>6, <1>7, <1>8
  <2>2. f \in [Uops -> A] /\ \A x, y \in Uops : f[x] = f[y] => x = y
    <3> HIDE DEF Before, Commits, Uops, Fetches
    <3> QED BY <1>4
  <2>3. g \in [Flying -> B] /\ \A x, y \in Flying : g[x] = g[y] => x = y
    <3>1. \A x, y : Last(x) = Last(y) => x = y
      OBVIOUS
    <3> HIDE DEF Last, Flying
    <3> QED BY <3>1
  <2>4. IsFiniteSet(A) /\ IsFiniteSet(B) /\ IsFiniteSet(A \cup B) /\ Cardinality(A \cup B) <= Cardinality(Fetches)
    <3> HIDE DEF A, B, Fetches
    <3>1. IsFiniteSet(A) /\ IsFiniteSet(B)
      BY <1>1, <2>1, FS_Subset
    <3>2. A \cup B \subseteq Fetches
      BY <2>1
    <3> QED BY <1>1, <3>1, <3>2, FS_Subset
  <2>5. Cardinality(Uops) <= Cardinality(A) /\ Cardinality(Flying) <= Cardinality(B)
    <3> HIDE DEF f, g, A, B, Uops, Flying
    <3>1. Cardinality(Uops) <= Cardinality(A)
      BY <2>2, <2>4, Injected
    <3>2. Cardinality(Flying) <= Cardinality(B)
      BY <2>3, <2>4, Injected
    <3> QED BY <3>1, <3>2
  <2> HIDE DEF A, B, Uops, Flying, Fetches
  <2>6. Cardinality(A \cup B) = Cardinality(A) + Cardinality(B) - Cardinality(A \cap B)
    BY <2>4, FS_Union
  <2>7. Cardinality(A \cap B) = 0 /\ Cardinality(A) \in Nat /\ Cardinality(B) \in Nat
    BY <2>1, <2>4, FS_EmptySet, FS_CardinalityType
  <2> QED BY <1>1, <2>4, <2>5, <2>6, <2>7
<1> QED BY <1>9, <1>10

LEMMA InitCounts == Init => ChainOK /\ CountOK
<1> SUFFICES ASSUME Init PROVE ChainOK /\ CountOK
  OBVIOUS
<1>1. /\ \A t \in Threads : emitted[t] = <<>> /\ DOMAIN emitted[t] = {}
      /\ \A w \in Workers : at[w] = Rest /\ at[w].kind = "FETCH" /\ at[w].step = "stamp"
      /\ items_ = <<>> /\ DOMAIN items_ = {}
  BY DEF Init, Rest
<1>2. ChainOK
  BY <1>1 DEF ChainOK
<1>3. \A k : EventsIn(emitted, k) = {} /\ FlyingIn(at, k) = {}
  BY <1>1 DEF EventsIn, FlyingIn
<1>4. \A k : CountedIn(items_, k) = 0
  BY <1>1 DEF CountedIn, Slots
<1>5. Tidy(items_)
  BY <1>1 DEF Tidy
<1>6. \A k \in Kinds : /\ IsFiniteSet(EventsIn(emitted, k)) /\ Cardinality(EventsIn(emitted, k)) = 0
                       /\ Cardinality(FlyingIn(at, k)) = 0 /\ CountedIn(items_, k) = 0
  BY <1>3, <1>4, FS_EmptySet
<1> QED BY <1>1, <1>2, <1>5, <1>6 DEF CountOK, Kinds

(* Whatever the interleaving of the workers, each of which takes its stamp, *)
(* pushes and counts in steps of their own, Counters::inc loses nothing:    *)
(* fetches and commits are counted once each, and no micro-op twice; and    *)
(* the pipeline of ExecCore emits no commit without its micro-op and no     *)
(* micro-op without its fetch.                                              *)
THEOREM CountersAgree == Spec => []CountersMatchEvents
<1>1. IInv /\ OrderOK /\ [Next]_vars => OrderOK'
  BY StepOrders
<1>2. IInv /\ OrderOK /\ ChainOK /\ [Next]_vars => ChainOK'
  BY StepChains
<1>3. IInv /\ OrderOK /\ CountOK /\ [Next]_vars => CountOK'
  BY StepCounts
<1>4. IInv /\ OrderOK /\ ChainOK /\ CountOK => CountersMatchEvents
  <2> SUFFICES ASSUME IInv, OrderOK, ChainOK, CountOK PROVE CountersMatchEvents
    OBVIOUS
  <2>1. \A k \in Kinds : /\ EventCount(k) = Cardinality(EventsIn(emitted, k))
                         /\ InFlight(k) = Cardinality(FlyingIn(at, k))
                         /\ Counter(k) = CountedIn(items_, k)
    BY Zenon DEF EventCount, EventsOf, EventsIn, InFlight, FlyingIn, Counter, CountedIn, Slots
  <2>2. \A k \in Kinds : /\ Cardinality(EventsIn(emitted, k)) \in Nat
                         /\ Cardinality(FlyingIn(at, k)) \in Nat /\ CountedIn(items_, k) \in Nat
    BY FS_CardinalityType, FlyingIsFinite, IncCounts DEF CountOK
  <2>3. "FETCH" \in Kinds /\ "UOP" \in Kinds /\ "COMMIT" \in Kinds
    BY DEF Kinds
  <2>4. ~cfg_.enabled => items_ = <<>>
    BY DEF CountOK
  <2>5. cfg_.enabled =>
          /\ Counter("FETCH") + InFlight("FETCH") = EventCount("FETCH")
          /\ Counter("COMMIT") + InFlight("COMMIT") = EventCount("COMMIT")
          /\ Counter("UOP") + InFlight("UOP") <= EventCount("UOP")
    BY <2>1, <2>3 DEF CountOK
  <2>6. EventCount("COMMIT") <= EventCount("UOP") /\ EventCount("UOP") + InFlight("FETCH") <= EventCount("FETCH")
    BY <2>1, <2>3, ChainsCount
  <2>7. \A k \in Kinds : EventCount(k) \in Nat /\ InFlight(k) \in Nat /\ Counter(k) \in Nat
    BY <2>1, <2>2
  <2>8. cfg_.enabled => EventCount("UOP") <= Counter("FETCH")
    BY <2>3, <2>5, <2>6, <2>7
  <2> QED BY <2>4, <2>5, <2>6, <2>8 DEF CountersMatchEvents
<1> QED BY InitOrdered, InitCounts, <1>1, <1>2, <1>3, <1>4, RingInShape, PTL DEF Spec

=============================================================================
