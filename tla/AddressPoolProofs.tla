-------------------------- MODULE AddressPoolProofs --------------------------
(***************************************************************************)
(* Proofs about the address pool.  IndInv is inductive: the types, the     *)
(* single home of every session, what the running calls and recovery can   *)
(* rely on, unique addresses and the two caps hold of each other's         *)
(* successors.  One lemma per action; the phases share three lemmas:       *)
(* ParkStep and TakeStep (phase 1), FinishStep (phase 3) and InPlaceStep   *)
(* (renewals and retries, which leave the lease where it is).  On top of   *)
(* it: the journal (JournalOK), the retry FIFO (RetryOK), the refinement   *)
(* of the lease table, and what a crash leaves (CrashOK).                  *)
(***************************************************************************)
EXTENDS LeaseRefinement, OrderingProofs

\* next_retry_deadline is a time.
LEMMA DeadlineType ==
  ASSUME NEW now \in Nat, NEW n \in Nat
  PROVE  NextRetryDeadline(now, n) \in Nat
BY BoundsAssumption DEF NextRetryDeadline

\* A union of finite sets is no larger than the sum of their sizes.
LEMMA UnionBound ==
  ASSUME NEW S, NEW T, IsFiniteSet(S), IsFiniteSet(T)
  PROVE  /\ IsFiniteSet(S \cup T)
         /\ Cardinality(S) \in Nat /\ Cardinality(T) \in Nat
         /\ Cardinality(S \cup T) \in Nat
         /\ Cardinality(S \cup T) <= Cardinality(S) + Cardinality(T)
<1>1. IsFiniteSet(S \cap T) /\ IsFiniteSet(S \cup T)
  BY FS_Subset, FS_Union
<1>2. /\ Cardinality(S \cap T) \in Nat /\ Cardinality(S) \in Nat
      /\ Cardinality(T) \in Nat /\ Cardinality(S \cup T) \in Nat
  BY <1>1, FS_CardinalityType
<1>3. Cardinality(S \cup T)
        = Cardinality(S) + Cardinality(T) - Cardinality(S \cap T)
  BY FS_Union
<1> QED BY <1>1, <1>2, <1>3

\* What enqueue_release_locked stores is a quarantine entry.
LEMMA QuarantineType ==
  ASSUME NEW l \in Lease \cup Record, NEW now \in Nat
  PROVE  Quarantine(l, now) \in Quarantined
BY DeadlineType DEF Quarantine, Quarantined, Lease, Record

\* A thread outside the pool is in a legal state.
LEMMA IdleType == Idle \in CallType
BY DEF Idle, CallType, Kinds, Empty

\* A call in its first phase is in a legal state.
LEMMA CallTypeOf ==
  ASSUME NEW kind \in Kinds, NEW now \in Nat,
         NEW batch \in SUBSET Sessions, NEW was \in SUBSET Sessions,
         NEW taken \in [Sessions -> Lease \cup {None}]
  PROVE  Call(kind, now, batch, was, taken) \in CallType
BY DEF Call, CallType

USE DEF Kinds, ParkingKinds, PersistKinds, DeleteKinds

\* A journal write, failed or not, keeps the types.
LEMMA TypeStoreWrite ==
  ASSUME TypeOK, NEW w \in Workers, NEW s \in Sessions,
         NEW new \in [Sessions -> Record \cup {None}],
         JournalWrite(new, w, s)
  PROVE  /\ op' \in [Workers -> CallType]
         /\ mirror' \in [Sessions -> Record \cup {None}]
         /\ file' \in [Sessions -> Record \cup {None}]
<1>1. op[w] \in CallType
  BY DEF TypeOK
<1> DEFINE written == [op[w] EXCEPT !.todo = @ \ {s}]
           rejected == [op[w] EXCEPT !.todo = @ \ {s}, !.failed = @ \cup {s}]
<1>2. written \in CallType
  BY <1>1 DEF CallType
<1>3. rejected \in CallType
  BY <1>1 DEF CallType
<1>4. op' = [op EXCEPT ![w] = written] \/ op' = [op EXCEPT ![w] = rejected]
  BY DEF TypeOK, JournalWrite
<1>5. op \in [Workers -> CallType]
  BY DEF TypeOK
<1>6. op' \in [Workers -> CallType]
  <2> HIDE DEF written, rejected
  <2> QED BY <1>2, <1>3, <1>4, <1>5
<1>7. /\ mirror' \in [Sessions -> Record \cup {None}]
      /\ file' \in [Sessions -> Record \cup {None}]
  BY DEF TypeOK, JournalWrite
<1> QED BY <1>6, <1>7

\* LeaseStore::persist keeps the types.
LEMMA TypeStorePersist ==
  ASSUME IndInv, NEW w \in Workers, StorePersist(w)
  PROVE  TypeOK'
<1>1. PICK s \in op[w].todo :
        JournalWrite([mirror EXCEPT ![s] = RecordOf(op[w], s)], w, s)
  BY DEF StorePersist
<1>2. s \in Sessions /\ op[w].taken[s] \in Lease /\ op[w] \in CallType
  BY DEF IndInv, CallsOK, TypeOK, CallType, StorePersist
<1>3. RecordOf(op[w], s) \in Record
  BY <1>2, BoundsAssumption DEF RecordOf, Record, Lease, CallType, IndInv, TypeOK
<1>4. [mirror EXCEPT ![s] = RecordOf(op[w], s)]
        \in [Sessions -> Record \cup {None}]
  BY <1>2, <1>3 DEF IndInv, TypeOK
<1> QED
  BY <1>1, <1>2, <1>4, TypeStoreWrite
  DEF StorePersist, IndInv, TypeOK, clocks, inner, recovery

\* LeaseStore::release keeps the types.
LEMMA TypeStoreRelease ==
  ASSUME IndInv, NEW w \in Workers, StoreRelease(w)
  PROVE  TypeOK'
<1>1. PICK s \in op[w].todo : JournalWrite([mirror EXCEPT ![s] = None], w, s)
  BY DEF StoreRelease
<1>2. s \in Sessions
  BY DEF IndInv, TypeOK, CallType
<1>3. [mirror EXCEPT ![s] = None] \in [Sessions -> Record \cup {None}]
  BY DEF IndInv, TypeOK
<1> QED
  BY <1>1, <1>2, <1>3, TypeStoreWrite
  DEF StoreRelease, IndInv, TypeOK, clocks, inner, recovery

\* Address uniqueness is kept by a step after which nobody holds a new address.
LEMMA UniqueMono ==
  ASSUME UniqueAddresses,
         \A s \in Sessions, a \in Addresses : Holds(s, a)' => Holds(s, a)
  PROVE  UniqueAddresses'
BY DEF UniqueAddresses

\* The bounds are kept by a step after which nobody is live or quarantined anew.
LEMMA BoundsMono ==
  ASSUME WithinBounds,
         Live' \subseteq Live,
         Keys(release_pending)' \subseteq Keys(release_pending)
  PROVE  WithinBounds'
<1>1. IsFiniteSet(Live) /\ IsFiniteSet(Keys(release_pending))
  BY FS_Subset, SetsAssumption DEF Live, Keys
<1>2. /\ Cardinality(Live) \in Nat /\ Cardinality(Live') \in Nat
      /\ Cardinality(Live') <= Cardinality(Live)
  BY <1>1, FS_Subset, FS_CardinalityType
<1>3. /\ Cardinality(Keys(release_pending)) \in Nat
      /\ Cardinality(Keys(release_pending)') \in Nat
      /\ Cardinality(Keys(release_pending)') <= Cardinality(Keys(release_pending))
  BY <1>1, FS_Subset, FS_CardinalityType
<1> HIDE DEF Live, Keys
<1> QED BY <1>2, <1>3, BoundsAssumption DEF WithinBounds

\* Phase 2, persist or delete, keeps the invariant: it touches the journal only.
LEMMA StoreStep ==
  ASSUME IndInv, NEW w \in Workers, StorePersist(w) \/ StoreRelease(w)
  PROVE  IndInv'
<1>1. PICK s \in op[w].todo : \E new : JournalWrite(new, w, s)
  BY DEF StorePersist, StoreRelease
<1>2. TypeOK'
  BY TypeStorePersist, TypeStoreRelease
<1>3. UNCHANGED <<phase, clocks, inner, retry_seq, recovery>>
      /\ op[w].kind \notin {"idle", "retry_due"}
  BY DEF StorePersist, StoreRelease
<1>4. /\ op \in [Workers -> CallType] /\ op' \in [Workers -> CallType]
      /\ \A v \in Workers : v # w => op'[v] = op[v]
      /\ op'[w].kind = op[w].kind /\ op'[w].batch = op[w].batch
      /\ op'[w].taken = op[w].taken
      /\ op'[w].todo \subseteq op[w].todo
      /\ op'[w].failed \subseteq op[w].failed \cup {s}
  BY <1>1, <1>2 DEF IndInv, TypeOK, JournalWrite, CallType
<1>5. \A v \in Workers : /\ op'[v].kind = op[v].kind /\ op'[v].batch = op[v].batch
                         /\ op'[v].taken = op[v].taken
  BY <1>4
<1>6. SingleHome'
  BY <1>3, <1>5 DEF IndInv, SingleHome, Parked, inner
<1>7. CallsOK'
  BY <1>1, <1>3, <1>4, <1>5 DEF IndInv, CallsOK, Parked, inner
<1>8. RecoveryOK'
  <2>1. phase = "up"
    BY <1>3 DEF IndInv, CallsOK
  <2> QED BY <2>1, <1>3 DEF IndInv, RecoveryOK, recovery, inner
<1>9. UniqueAddresses'
  BY <1>3, <1>5, UniqueMono DEF IndInv, Holds, Parked, inner
<1>10. WithinBounds'
  BY <1>3, BoundsMono DEF IndInv, Live, Keys, inner
<1> QED BY <1>2, <1>6, <1>7, <1>8, <1>9, <1>10 DEF IndInv

-----------------------------------------------------------------------------
\* Phase 1.  What every call that parks a batch keeps, whatever it took.

\* Parking a batch keeps the types, the single home, the calls and recovery.
LEMMA ParkStep ==
  ASSUME IndInv, NEW w \in Workers, phase = "up", op[w].kind = "idle",
         NEW kind \in ParkingKinds, NEW now \in Nat,
         NEW batch \in SUBSET Sessions, NEW was \in SUBSET Sessions,
         NEW taken \in [Sessions -> Lease \cup {None}],
         batch \cap inflight = {},
         \A s \in batch : taken[s] # None /\ release_pending[s] = None,
         active' \in [Sessions -> Lease \cup {None}],
         pending' \in [Sessions -> Lease \cup {None}],
         \A s \in Sessions :
           /\ active'[s] = IF s \in batch THEN None ELSE active[s]
           /\ pending'[s] = IF s \in batch THEN None ELSE pending[s],
         Park(w, kind, now, batch, was, taken),
         UNCHANGED <<phase, clocks, release_pending, store, recovery>>
  PROVE  TypeOK' /\ SingleHome' /\ CallsOK' /\ RecoveryOK'
<1> DEFINE c == Call(kind, now, batch, was, taken)
<1>1. c \in CallType
  BY CallTypeOf
<1>2. /\ c.kind = kind /\ c.batch = batch /\ c.todo = batch
      /\ c.failed = {} /\ c.taken = taken
  BY DEF Call
<1>3. /\ op \in [Workers -> CallType]
      /\ op' = [op EXCEPT ![w] = c]
  BY DEF IndInv, TypeOK, Park
<1> HIDE DEF c
<1>4. op'[w] = c /\ \A v \in Workers : v # w => op'[v] = op[v]
  BY <1>3
<1>5. op[w].batch = {}
  BY DEF IndInv, CallsOK
<1>6. /\ inflight' = inflight \cup batch
      /\ inflight_addr' = inflight_addr \cup {taken[s].addr : s \in batch}
  BY DEF Park
<1>7. TypeOK'
  <2>1. \A s \in batch : taken[s].addr \in Addresses
    BY DEF Lease
  <2> QED BY <1>1, <1>3, <1>6, <2>1 DEF IndInv, TypeOK, clocks, store, recovery
<1>8. SingleHome'
  BY <1>2, <1>4, <1>5, <1>6 DEF IndInv, SingleHome, Parked
<1>9. CallsOK'
  <2>1. ASSUME NEW v \in Workers
        PROVE  (/\ op[v].todo \subseteq op[v].batch
                /\ op[v].failed \subseteq op[v].batch
                /\ op[v].kind \in {"idle", "retry_due"} => op[v].batch = {}
                /\ phase # "up" => op[v].kind = "idle"
                /\ \A s \in op[v].batch :
                     /\ op[v].kind # "retry" => op[v].taken[s] # None
                     /\ op[v].kind = "retry" => release_pending[s] # None
                     /\ op[v].kind = "renew" => active[s] # None)'
    <3>1. CASE v = w
      BY <1>2, <1>4, <3>1
    <3>2. CASE v # w
      <4>1. op'[v] = op[v] /\ op[v].batch \subseteq inflight
        BY <1>4, <3>2 DEF IndInv, SingleHome, TypeOK, CallType
      <4> QED BY <4>1, <3>2 DEF IndInv, CallsOK, TypeOK, CallType
    <3> QED BY <3>1, <3>2
  <2>2. ASSUME NEW a \in Addresses
        PROVE  a \in inflight_addr' <=>
                 \E v \in Workers : \E s \in Parked(v)' : op'[v].taken[s].addr = a
    BY <1>2, <1>4, <1>5, <1>6 DEF IndInv, CallsOK, Parked
  <2> QED BY <2>1, <2>2 DEF CallsOK, Parked
<1>10. RecoveryOK'
  BY DEF IndInv, RecoveryOK, recovery, store
<1> QED BY <1>7, <1>8, <1>9, <1>10

\* A call that parks leases which were in the maps keeps the whole invariant.
LEMMA TakeStep ==
  ASSUME IndInv, NEW w \in Workers, phase = "up", op[w].kind = "idle",
         NEW kind \in ParkingKinds, NEW now \in Nat,
         NEW batch \in SUBSET Sessions, NEW was \in SUBSET Sessions,
         NEW taken \in [Sessions -> Lease \cup {None}],
         batch \cap inflight = {},
         \A s \in batch : taken[s] # None /\ taken[s] \in {active[s], pending[s]},
         active' \in [Sessions -> Lease \cup {None}],
         pending' \in [Sessions -> Lease \cup {None}],
         \A s \in Sessions :
           /\ active'[s] = IF s \in batch THEN None ELSE active[s]
           /\ pending'[s] = IF s \in batch THEN None ELSE pending[s],
         Park(w, kind, now, batch, was, taken),
         UNCHANGED <<phase, clocks, release_pending, store, recovery>>
  PROVE  IndInv'
<1>1. \A s \in batch : release_pending[s] = None
  BY DEF IndInv, SingleHome
<1>2. TypeOK' /\ SingleHome' /\ CallsOK' /\ RecoveryOK'
  BY <1>1, ParkStep
<1>3. /\ op \in [Workers -> CallType]
      /\ op' = [op EXCEPT ![w] = Call(kind, now, batch, was, taken)]
      /\ inflight' = inflight \cup batch
  BY DEF IndInv, TypeOK, Park
<1>4. /\ \A v \in Workers : v # w => op'[v] = op[v]
      /\ op'[w].kind = kind /\ op'[w].batch = batch /\ op'[w].taken = taken
  BY <1>3 DEF Call
<1>5. UniqueAddresses'
  <2>1. ASSUME NEW s \in Sessions, NEW a \in Addresses, Holds(s, a)'
        PROVE  Holds(s, a)
    <3>1. CASE s \in Parked(w)' /\ op'[w].taken[s].addr = a
      BY <1>4, <3>1 DEF Holds, Parked
    <3>2. CASE ~(s \in Parked(w)' /\ op'[w].taken[s].addr = a)
      BY <1>4, <2>1, <3>2 DEF Holds, Parked
    <3> QED BY <3>1, <3>2
  <2> QED BY <2>1, UniqueMono DEF IndInv
<1>6. WithinBounds'
  <2>1. Live' \subseteq Live
    BY <1>3 DEF Live
  <2> QED BY <2>1, BoundsMono DEF IndInv, Keys
<1> QED BY <1>2, <1>5, <1>6 DEF IndInv


\* The times callers pass in are times.
LEMMA CapturedType == TypeOK => Captured \subseteq Nat
BY DEF TypeOK, Captured

\* commit_at_time, phase 1.
LEMMA CommitBeginStep ==
  ASSUME IndInv, NEW w \in Workers, NEW s \in Sessions, NEW t \in Nat,
         CommitBegin(w, s, t)
  PROVE  IndInv'
<1> DEFINE kind == IF t >= pending[s].exp THEN "expire" ELSE "promote"
           taken == [Empty EXCEPT ![s] = pending[s]]
<1>1. pending[s] \in Lease /\ taken \in [Sessions -> Lease \cup {None}]
  BY DEF CommitBegin, IndInv, TypeOK, Empty
<1>2. kind \in ParkingKinds
  OBVIOUS
<1>3. Park(w, kind, t, {s}, {s}, taken) /\ taken[s] = pending[s]
  BY DEF CommitBegin, Empty
<1> HIDE DEF kind, taken
<1>4. /\ active' \in [Sessions -> Lease \cup {None}]
      /\ pending' \in [Sessions -> Lease \cup {None}]
      /\ \A x \in Sessions :
           /\ active'[x] = IF x \in {s} THEN None ELSE active[x]
           /\ pending'[x] = IF x \in {s} THEN None ELSE pending[x]
  BY DEF CommitBegin, IndInv, TypeOK
<1>5. /\ phase = "up" /\ op[w].kind = "idle" /\ {s} \cap inflight = {}
      /\ UNCHANGED <<phase, clocks, release_pending, store, recovery>>
  BY DEF CommitBegin, Ready
<1>6. /\ {s} \in SUBSET Sessions
      /\ \A x \in {s} : taken[x] # None /\ taken[x] \in {active[x], pending[x]}
  BY <1>1, <1>3, NoneAssumption
<1> QED BY <1>1, <1>2, <1>3, <1>4, <1>5, <1>6, TakeStep

\* release_at, phase 1.
LEMMA ReleaseBeginStep ==
  ASSUME IndInv, NEW w \in Workers, NEW s \in Sessions, NEW t \in Nat,
         ReleaseBegin(w, s, t)
  PROVE  IndInv'
<1>1. PICK l, was : /\ l # None /\ l \in {active[s], pending[s]}
                    /\ was \in SUBSET Sessions
                    /\ Park(w, "release", t, {s}, was, [Empty EXCEPT ![s] = l])
  BY DEF ReleaseBegin
<1> DEFINE taken == [Empty EXCEPT ![s] = l]
<1>2. l \in Lease /\ taken \in [Sessions -> Lease \cup {None}] /\ taken[s] = l
  BY <1>1 DEF IndInv, TypeOK, Empty
<1>3. Park(w, "release", t, {s}, was, taken)
  BY <1>1
<1> HIDE DEF taken
<1>4. /\ active' \in [Sessions -> Lease \cup {None}]
      /\ pending' \in [Sessions -> Lease \cup {None}]
      /\ \A x \in Sessions :
           /\ active'[x] = IF x \in {s} THEN None ELSE active[x]
           /\ pending'[x] = IF x \in {s} THEN None ELSE pending[x]
  BY DEF ReleaseBegin, IndInv, TypeOK, SingleHome
<1>5. /\ phase = "up" /\ op[w].kind = "idle" /\ {s} \cap inflight = {}
      /\ UNCHANGED <<phase, clocks, release_pending, store, recovery>>
  BY DEF ReleaseBegin, Ready
<1>6. /\ {s} \in SUBSET Sessions /\ "release" \in ParkingKinds
      /\ \A x \in {s} : taken[x] # None /\ taken[x] \in {active[x], pending[x]}
  BY <1>1, <1>2
<1> QED BY <1>1, <1>2, <1>3, <1>4, <1>5, <1>6, TakeStep

\* A worker goes from one resting state to the other and nothing else changes.
LEMMA RestStep ==
  ASSUME IndInv, NEW w \in Workers, NEW next \in CallType,
         op[w].kind \in {"idle", "retry_due"},
         next.kind \in {"idle", "retry_due"}, next.batch = {},
         next.todo = {}, next.failed = {},
         phase = "up",
         op' = [op EXCEPT ![w] = next],
         UNCHANGED <<phase, clocks, active, pending, release_pending,
                     inflight, inflight_addr, store, recovery>>
  PROVE  IndInv'
<1>1. op \in [Workers -> CallType]
  BY DEF IndInv, TypeOK
<1>2. op'[w] = next /\ \A v \in Workers : v # w => op'[v] = op[v]
  BY <1>1
<1>3. op[w].batch = {}
  BY DEF IndInv, CallsOK
<1>4. \A v \in Workers : /\ op'[v].batch = op[v].batch
                         /\ Parked(v)' = Parked(v)
                         /\ Parked(v) # {} => op'[v] = op[v]
  BY <1>2, <1>3 DEF Parked
<1>5. TypeOK'
  BY <1>1 DEF IndInv, TypeOK, clocks, store, recovery
<1>6. SingleHome'
  BY <1>4 DEF IndInv, SingleHome
<1>7. CallsOK'
  BY <1>2, <1>3, <1>4 DEF IndInv, CallsOK
<1>8. RecoveryOK'
  BY DEF IndInv, RecoveryOK, recovery, store
<1>9. UniqueAddresses'
  BY <1>4, UniqueMono DEF IndInv, Holds
<1>10. WithinBounds'
  BY BoundsMono DEF IndInv, Live, Keys
<1> QED BY <1>5, <1>6, <1>7, <1>8, <1>9, <1>10 DEF IndInv

\* A sweep that is done with its deletes rests or is about to retry.
LEMMA AfterSweepType ==
  ASSUME NEW t \in Nat
  PROVE  /\ AfterSweep(t) \in CallType
         /\ AfterSweep(t).kind \in {"idle", "retry_due"}
         /\ AfterSweep(t).batch = {} /\ AfterSweep(t).todo = {}
         /\ AfterSweep(t).failed = {}
BY IdleType DEF AfterSweep, Idle, CallType

\* sweep, phase 1.
LEMMA SweepBeginStep ==
  ASSUME IndInv, NEW w \in Workers, NEW t \in Nat, SweepBegin(w, t)
  PROVE  IndInv'
<1> DEFINE p == Expired(pending, t)
           a == Expired(active, t)
           taken == [s \in Sessions |-> IF s \in p THEN pending[s]
                                        ELSE IF s \in a THEN active[s] ELSE None]
<1>1. /\ p \subseteq Sessions /\ a \subseteq Sessions
      /\ \A s \in p : pending[s] # None /\ s \notin inflight
      /\ \A s \in a : active[s] # None /\ s \notin inflight
  BY DEF Expired, Keys
<1>2. p \cap a = {}
  BY <1>1 DEF IndInv, SingleHome
<1>3. phase = "up" /\ op[w].kind = "idle"
      /\ UNCHANGED <<phase, clocks, release_pending, store, recovery>>
  BY DEF SweepBegin
<1>4. CASE p \cup a = {}
  <2>1. /\ op' = [op EXCEPT ![w] = AfterSweep(t)]
        /\ UNCHANGED <<active, pending, inflight, inflight_addr>>
    BY <1>4 DEF SweepBegin
  <2> QED BY <2>1, <1>3, AfterSweepType, RestStep
<1>5. CASE p \cup a # {}
  <2>1. /\ Park(w, "sweep", t, p \cup a, p, taken)
        /\ pending' = [s \in Sessions |-> IF s \in p THEN None ELSE pending[s]]
        /\ active' = [s \in Sessions |-> IF s \in a THEN None ELSE active[s]]
    BY <1>5 DEF SweepBegin
  <2>2. taken \in [Sessions -> Lease \cup {None}]
    BY DEF IndInv, TypeOK
  <2>3. \A s \in p \cup a : taken[s] # None /\ taken[s] \in {active[s], pending[s]}
    BY <1>1
  <2> HIDE DEF p, a, taken
  <2>4. /\ active' \in [Sessions -> Lease \cup {None}]
        /\ pending' \in [Sessions -> Lease \cup {None}]
    BY <2>1 DEF IndInv, TypeOK
  <2>5. \A s \in Sessions :
           /\ active'[s] = IF s \in p \cup a THEN None ELSE active[s]
           /\ pending'[s] = IF s \in p \cup a THEN None ELSE pending[s]
    BY <1>1, <2>1 DEF IndInv, SingleHome
  <2>6. "sweep" \in ParkingKinds /\ (p \cup a) \cap inflight = {}
        /\ p \cup a \in SUBSET Sessions /\ p \in SUBSET Sessions
    BY <1>1
  <2> QED BY <1>3, <2>1, <2>2, <2>3, <2>4, <2>5, <2>6, TakeStep
<1> QED BY <1>4, <1>5


-----------------------------------------------------------------------------
\* reserve_at_time: the only step that gives a session an address.

\* reserve_at_time that drops the expired reservation and fails.
LEMMA ReserveExhaustedStep ==
  ASSUME IndInv, NEW w \in Workers, NEW s \in Sessions, NEW d, NEW t,
         ReserveExhausted(w, s, d, t)
  PROVE  IndInv'
<1>1. /\ phase = "up" /\ s \notin inflight
      /\ pending' = [pending EXCEPT ![s] = None]
      /\ UNCHANGED <<phase, mono, boot, active, release_pending, inflight,
                     inflight_addr, op, mirror, file, stale, stale_failed>>
  BY DEF ReserveExhausted, Ready, clocks, calls, store, recovery
<1>2. TypeOK'
  BY <1>1 DEF IndInv, TypeOK
<1>3. \A x \in Sessions : pending'[x] = IF x = s THEN None ELSE pending[x]
  BY <1>1 DEF IndInv, TypeOK
<1>4. SingleHome'
  BY <1>1, <1>3 DEF IndInv, SingleHome, Parked
<1>5. CallsOK'
  BY <1>1 DEF IndInv, CallsOK, Parked
<1>6. RecoveryOK'
  BY <1>1 DEF IndInv, RecoveryOK
<1>7. UniqueAddresses'
  BY <1>1, <1>3, UniqueMono DEF IndInv, Holds, Parked
<1>8. WithinBounds'
  <2>1. Live' \subseteq Live
    BY <1>1, <1>3 DEF Live
  <2> QED BY <1>1, <2>1, BoundsMono DEF IndInv, Keys
<1> QED BY <1>2, <1>4, <1>5, <1>6, <1>7, <1>8 DEF IndInv

\* reserve_at_time, phase 1: the address is free in the maps, the quarantine and
\* the parked set, so no other session holds it; the capacity check leaves room.
LEMMA ReserveBeginStep ==
  ASSUME IndInv, NEW w \in Workers, NEW s \in Sessions, NEW d \in Devices,
         NEW t \in Nat, ReserveBegin(w, s, d, t)
  PROVE  IndInv'
<1> DEFINE rest == [pending EXCEPT ![s] = None]
           lease(a) == [dev |-> d, addr |-> a, exp |-> t + PendingTTL]
           taken(a) == [Empty EXCEPT ![s] = lease(a)]
<1>1. PICK a \in Free(rest) : Park(w, "reserve", t, {s}, {}, taken(a))
  BY DEF ReserveBegin
<1>2. /\ phase = "up" /\ op[w].kind = "idle" /\ s \notin inflight
      /\ release_pending[s] = None /\ active[s] = None
      /\ ~AtCapacity(rest)
      /\ pending' = rest
      /\ UNCHANGED <<phase, clocks, active, release_pending, store, recovery>>
  BY DEF ReserveBegin, Ready, MayReserve
<1>3. a \in Addresses /\ a \notin Used(rest)
  BY DEF Free
<1>4. lease(a) \in Lease /\ taken(a) \in [Sessions -> Lease \cup {None}]
      /\ taken(a)[s] = lease(a) /\ lease(a).addr = a
  BY <1>3, BoundsAssumption DEF Lease, Empty
<1>5. \A x \in Sessions : /\ pending'[x] = IF x = s THEN None ELSE pending[x]
                          /\ rest[x] = IF x = s THEN None ELSE pending[x]
                          /\ active'[x] = active[x]
  BY <1>2 DEF IndInv, TypeOK
<1>6. /\ active' \in [Sessions -> Lease \cup {None}]
      /\ pending' \in [Sessions -> Lease \cup {None}]
  BY <1>2 DEF IndInv, TypeOK
<1> HIDE DEF lease, taken, rest
<1>7. TypeOK' /\ SingleHome' /\ CallsOK' /\ RecoveryOK'
  <2>1. "reserve" \in ParkingKinds /\ {s} \in SUBSET Sessions
        /\ {} \in SUBSET Sessions /\ {s} \cap inflight = {}
    BY <1>2
  <2>2. \A x \in {s} : taken(a)[x] # None /\ release_pending[x] = None
    BY <1>2, <1>4, NoneAssumption
  <2>3. \A x \in Sessions :
          /\ active'[x] = IF x \in {s} THEN None ELSE active[x]
          /\ pending'[x] = IF x \in {s} THEN None ELSE pending[x]
    BY <1>2, <1>5
  <2> QED BY <1>1, <1>2, <1>4, <1>6, <2>1, <2>2, <2>3, ParkStep
<1>8. /\ op'[w].kind = "reserve" /\ op'[w].batch = {s} /\ op'[w].taken = taken(a)
      /\ \A v \in Workers : v # w => op'[v] = op[v]
      /\ op[w].batch = {} /\ inflight' = inflight \cup {s}
  BY <1>1, <1>2 DEF Park, Call, IndInv, TypeOK, CallsOK
<1>9. UniqueAddresses'
  <2>1. ASSUME NEW x \in Sessions, NEW b \in Addresses, Holds(x, b)'
        PROVE  IF x = s THEN b = a ELSE Holds(x, b)
    <3>1. CASE x = s
      <4>1. \A v \in Workers : v # w => s \notin op[v].batch
        BY <1>2 DEF IndInv, SingleHome
      <4> QED BY <1>2, <1>4, <1>5, <1>8, <2>1, <3>1, <4>1 DEF Holds, Parked
    <3>2. CASE x # s
      BY <1>5, <1>8, <2>1, <3>2 DEF Holds, Parked
    <3> QED BY <3>1, <3>2
  <2>2. ASSUME NEW x \in Sessions, x # s PROVE ~Holds(x, a)
    <3>1. active[x] # None => active[x].addr # a
      BY <1>3 DEF Used, AddrsOf, Keys
    <3>2. pending[x] # None => pending[x].addr # a
      BY <1>3, <1>5, <2>2 DEF Used, AddrsOf, Keys
    <3>3. ~\E v \in Workers : x \in Parked(v) /\ op[v].taken[x].addr = a
      BY <1>3 DEF Used, IndInv, CallsOK
    <3> QED BY <3>1, <3>2, <3>3 DEF Holds
  <2> QED BY <2>1, <2>2 DEF IndInv, UniqueAddresses
<1>10. WithinBounds'
  <2> DEFINE A == Keys(active)
             P == Keys(rest)
  <2>1. IsFiniteSet(A) /\ IsFiniteSet(P) /\ IsFiniteSet(inflight)
        /\ IsFiniteSet({s})
    BY FS_Subset, FS_Singleton, SetsAssumption DEF Keys, IndInv, TypeOK
  <2>2. Live' \subseteq ((A \cup P) \cup inflight) \cup {s}
    BY <1>2, <1>5, <1>8 DEF Live, Keys
  <2>3. ~(Cardinality(A) + Cardinality(P) + Cardinality(inflight) >= MaxLeases)
    BY <1>2 DEF AtCapacity
  <2> HIDE DEF A, P
  <2>4. /\ IsFiniteSet(((A \cup P) \cup inflight) \cup {s})
        /\ Cardinality(((A \cup P) \cup inflight) \cup {s})
             <= Cardinality(A) + Cardinality(P) + Cardinality(inflight) + 1
    <3>1. IsFiniteSet(A \cup P) /\ IsFiniteSet((A \cup P) \cup inflight)
          /\ IsFiniteSet(((A \cup P) \cup inflight) \cup {s})
      BY <2>1, FS_Union
    <3>2. Cardinality({s}) = 1
      BY FS_Singleton
    <3>4. /\ Cardinality(A \cup P) <= Cardinality(A) + Cardinality(P)
          /\ Cardinality(A) \in Nat /\ Cardinality(A \cup P) \in Nat
      BY <2>1, <3>1, UnionBound
    <3>5. /\ Cardinality((A \cup P) \cup inflight)
               <= Cardinality(A \cup P) + Cardinality(inflight)
          /\ Cardinality((A \cup P) \cup inflight) \in Nat
      BY <2>1, <3>1, UnionBound
    <3>6. Cardinality(((A \cup P) \cup inflight) \cup {s})
            <= Cardinality((A \cup P) \cup inflight) + Cardinality({s})
      BY <2>1, <3>1, UnionBound
    <3>7. /\ Cardinality(((A \cup P) \cup inflight) \cup {s}) \in Nat
          /\ Cardinality(P) \in Nat /\ Cardinality(inflight) \in Nat
      BY <2>1, <3>1, FS_CardinalityType
    <3> QED BY <3>1, <3>2, <3>4, <3>5, <3>6, <3>7
  <2>5. Cardinality(Live') <= Cardinality(((A \cup P) \cup inflight) \cup {s})
        /\ Cardinality(Live') \in Nat
    BY <2>2, <2>4, FS_Subset, FS_CardinalityType
  <2>6. Cardinality(Live') <= MaxLeases
    <3>1. /\ Cardinality(A) \in Nat /\ Cardinality(P) \in Nat
          /\ Cardinality(inflight) \in Nat
          /\ Cardinality(((A \cup P) \cup inflight) \cup {s}) \in Nat
      BY <2>1, <2>4, FS_CardinalityType
    <3> HIDE DEF Live
    <3> QED BY <2>3, <2>4, <2>5, <3>1, BoundsAssumption
  <2>7. Keys(release_pending)' = Keys(release_pending)
    BY <1>2 DEF Keys
  <2> QED BY <2>6, <2>7 DEF IndInv, WithinBounds
<1> QED BY <1>7, <1>9, <1>10 DEF IndInv


-----------------------------------------------------------------------------
\* Phase 3.  A call that gives back a parked batch, each session to at most one
\* map and with the address it came with, keeps the whole invariant.

\* Giving the batch back keeps the invariant.
LEMMA FinishStep ==
  ASSUME IndInv, NEW w \in Workers, op[w].kind \in ParkingKinds,
         NEW next \in CallType,
         next.kind \in {"idle", "retry_due"}, next.batch = {},
         next.todo = {}, next.failed = {},
         Unpark(w), op' = [op EXCEPT ![w] = next],
         UNCHANGED <<phase, clocks, store, recovery>>,
         active' \in [Sessions -> Lease \cup {None}],
         pending' \in [Sessions -> Lease \cup {None}],
         release_pending' \in [Sessions -> Quarantined \cup {None}],
         \A s \in Sessions \ op[w].batch :
           /\ active'[s] = active[s] /\ pending'[s] = pending[s]
           /\ release_pending'[s] = release_pending[s],
         \A s \in op[w].batch :
           /\ active'[s] # None => /\ pending'[s] = None
                                   /\ release_pending'[s] = None
                                   /\ active'[s].addr = op[w].taken[s].addr
           /\ pending'[s] # None => /\ release_pending'[s] = None
                                    /\ pending'[s].addr = op[w].taken[s].addr,
         Cardinality(Keys(release_pending)') <= MaxPendingReleases
  PROVE  IndInv'
<1>1. /\ op \in [Workers -> CallType] /\ op[w].batch \subseteq Sessions
      /\ phase = "up"
  BY DEF IndInv, TypeOK, CallType, CallsOK
<1>2. op'[w] = next /\ \A v \in Workers : v # w => op'[v] = op[v]
  BY <1>1
<1>3. /\ inflight' = inflight \ op[w].batch
      /\ inflight_addr' =
           inflight_addr \ {op[w].taken[s].addr : s \in op[w].batch}
  BY DEF Unpark
<1>4. /\ Parked(w) = op[w].batch /\ Parked(w)' = {}
      /\ \A v \in Workers : v # w => Parked(v)' = Parked(v)
  BY <1>2 DEF Parked
<1>5. \A v \in Workers : v # w => op[v].batch \cap op[w].batch = {}
  BY DEF IndInv, SingleHome
<1>6. TypeOK'
  BY <1>1, <1>3 DEF IndInv, TypeOK, clocks, store, recovery
<1>7. SingleHome'
  <2>1. ASSUME NEW s \in Sessions
        PROVE  (/\ active[s] # None => pending[s] = None /\ release_pending[s] = None
                /\ pending[s] # None => release_pending[s] = None)'
    BY DEF IndInv, SingleHome
  <2>2. ASSUME NEW s \in Sessions, NEW v \in Workers, s \in Parked(v)'
        PROVE  (active[s] = None /\ pending[s] = None /\ release_pending[s] = None)'
    <3>1. v # w /\ s \in Parked(v) /\ s \notin op[w].batch
      BY <1>4, <1>5, <2>2 DEF Parked
    <3> QED BY <3>1 DEF IndInv, SingleHome
  <2>3. \A v1, v2 \in Workers : v1 # v2 => op'[v1].batch \cap op'[v2].batch = {}
    BY <1>2 DEF IndInv, SingleHome
  <2>4. \A s \in Sessions :
          s \in inflight' <=> \E v \in Workers : s \in op'[v].batch
    BY <1>2, <1>3, <1>5 DEF IndInv, SingleHome
  <2> QED BY <2>1, <2>2, <2>3, <2>4 DEF SingleHome
<1>8. CallsOK'
  <2>1. ASSUME NEW v \in Workers
        PROVE  (/\ op[v].todo \subseteq op[v].batch
                /\ op[v].failed \subseteq op[v].batch
                /\ op[v].kind \in {"idle", "retry_due"} => op[v].batch = {}
                /\ phase # "up" => op[v].kind = "idle"
                /\ \A s \in op[v].batch :
                     /\ op[v].kind # "retry" => op[v].taken[s] # None
                     /\ op[v].kind = "retry" => release_pending[s] # None
                     /\ op[v].kind = "renew" => active[s] # None)'
    <3>1. CASE v = w
      BY <1>1, <1>2, <3>1
    <3>2. CASE v # w
      <4>1. op'[v] = op[v] /\ op[v].batch \subseteq Sessions \ op[w].batch
        BY <1>1, <1>2, <1>5, <3>2 DEF CallType
      <4> QED BY <1>1, <4>1 DEF IndInv, CallsOK
    <3> QED BY <3>1, <3>2
  <2>2. ASSUME NEW a \in Addresses
        PROVE  a \in inflight_addr' <=>
                 \E v \in Workers : \E s \in Parked(v)' : op'[v].taken[s].addr = a
    <3>1. ASSUME NEW v \in Workers, v # w, NEW s \in Parked(v),
                 NEW x \in op[w].batch, op[v].taken[s].addr = a
          PROVE  op[w].taken[x].addr # a
      <4>1. s \in Sessions /\ x \in Sessions /\ s # x
        BY <1>1, <1>5, <3>1 DEF Parked, CallType
      <4> QED BY <1>4, <3>1, <4>1 DEF IndInv, UniqueAddresses, Holds
    <3> QED BY <1>2, <1>3, <1>4, <3>1 DEF IndInv, CallsOK
  <2> QED BY <2>1, <2>2 DEF CallsOK, Parked
<1>9. RecoveryOK'
  BY <1>1 DEF IndInv, RecoveryOK, recovery, store
<1>10. UniqueAddresses'
  <2>1. ASSUME NEW s \in Sessions, NEW a \in Addresses, Holds(s, a)'
        PROVE  Holds(s, a)
    <3>1. CASE s \in op[w].batch /\ op[w].taken[s].addr = a
      BY <1>4, <3>1 DEF Holds
    <3>2. CASE ~(s \in op[w].batch /\ op[w].taken[s].addr = a)
      BY <1>2, <1>4, <2>1, <3>2 DEF Holds
    <3> QED BY <3>1, <3>2
  <2> QED BY <2>1, UniqueMono DEF IndInv
<1>11. WithinBounds'
  <2>1. Live' \subseteq Live
    <3>1. \A s \in op[w].batch : s \in inflight /\ release_pending[s] = None
      BY <1>1, <1>4 DEF IndInv, SingleHome
    <3> QED BY <1>1, <1>3, <3>1 DEF Live
  <2>2. IsFiniteSet(Live)
    BY FS_Subset, SetsAssumption DEF Live
  <2>3. Cardinality(Live') <= Cardinality(Live)
        /\ Cardinality(Live) \in Nat /\ Cardinality(Live') \in Nat
    BY <2>1, <2>2, FS_Subset, FS_CardinalityType
  <2> HIDE DEF Live
  <2> QED BY <2>3, BoundsAssumption DEF IndInv, WithinBounds
<1> QED BY <1>6, <1>7, <1>8, <1>9, <1>10, <1>11 DEF IndInv

\* A finished call leaves nothing parked.
LEMMA IdleRest ==
  /\ Idle \in CallType /\ Idle.kind \in {"idle", "retry_due"}
  /\ Idle.batch = {} /\ Idle.todo = {} /\ Idle.failed = {}
BY IdleType DEF Idle

\* reserve_at_time, phase 3.
LEMMA ReserveFinishStep ==
  ASSUME IndInv, NEW w \in Workers, ReserveFinish(w)
  PROVE  IndInv'
<1>1. /\ op[w] \in CallType /\ op[w].kind = "reserve"
      /\ Unpark(w) /\ op' = [op EXCEPT ![w] = Idle]
      /\ UNCHANGED <<phase, clocks, active, release_pending, store, recovery>>
  BY DEF ReserveFinish, Returns, IndInv, TypeOK
<1>2. \A s \in op[w].batch :
        /\ s \in Sessions /\ op[w].taken[s] \in Lease
        /\ active[s] = None /\ pending[s] = None /\ release_pending[s] = None
  BY <1>1 DEF IndInv, SingleHome, CallsOK, Parked, CallType
<1>3. /\ active' \in [Sessions -> Lease \cup {None}]
      /\ pending' \in [Sessions -> Lease \cup {None}]
      /\ release_pending' \in [Sessions -> Quarantined \cup {None}]
  BY <1>1, <1>2 DEF ReserveFinish, IndInv, TypeOK
<1>4. \A s \in Sessions :
        /\ active'[s] = active[s] /\ release_pending'[s] = release_pending[s]
        /\ s \notin op[w].batch => pending'[s] = pending[s]
        /\ s \in op[w].batch => pending'[s] \in {None, op[w].taken[s]}
  BY <1>1, <1>2 DEF ReserveFinish
<1>5. Cardinality(Keys(release_pending)') <= MaxPendingReleases
  BY <1>1 DEF IndInv, WithinBounds, Keys
<1> QED BY <1>1, <1>2, <1>3, <1>4, <1>5, IdleRest, FinishStep

\* commit_at_time, phase 3.
LEMMA PromoteFinishStep ==
  ASSUME IndInv, NEW w \in Workers, PromoteFinish(w)
  PROVE  IndInv'
<1>1. /\ op[w] \in CallType /\ op[w].kind = "promote"
      /\ Unpark(w) /\ op' = [op EXCEPT ![w] = Idle]
      /\ UNCHANGED <<phase, clocks, release_pending, store, recovery>>
  BY DEF PromoteFinish, Returns, IndInv, TypeOK
<1>2. \A s \in op[w].batch :
        /\ s \in Sessions /\ op[w].taken[s] \in Lease
        /\ active[s] = None /\ pending[s] = None /\ release_pending[s] = None
  BY <1>1 DEF IndInv, SingleHome, CallsOK, Parked, CallType
<1>3. op[w].failed \subseteq op[w].batch /\ op[w].now + LeaseTTL \in Nat
  BY <1>1, BoundsAssumption DEF IndInv, CallsOK, CallType
<1>4. \A s \in op[w].batch :
        LET l == [op[w].taken[s] EXCEPT !.exp = op[w].now + LeaseTTL]
        IN l \in Lease /\ l.addr = op[w].taken[s].addr
  BY <1>2, <1>3 DEF Lease
<1>5. /\ active' \in [Sessions -> Lease \cup {None}]
      /\ pending' \in [Sessions -> Lease \cup {None}]
      /\ release_pending' \in [Sessions -> Quarantined \cup {None}]
  BY <1>1, <1>2, <1>3, <1>4 DEF PromoteFinish, IndInv, TypeOK
<1>6. \A s \in Sessions \ op[w].batch :
        /\ active'[s] = active[s] /\ pending'[s] = pending[s]
        /\ release_pending'[s] = release_pending[s]
  BY <1>1, <1>3 DEF PromoteFinish
<1>7. \A s \in op[w].batch :
        /\ release_pending'[s] = None
        /\ active'[s] # None => /\ pending'[s] = None
                                /\ active'[s].addr = op[w].taken[s].addr
        /\ pending'[s] # None => pending'[s].addr = op[w].taken[s].addr
  BY <1>1, <1>2, <1>3, <1>4 DEF PromoteFinish
<1>8. Cardinality(Keys(release_pending)') <= MaxPendingReleases
  BY <1>1 DEF IndInv, WithinBounds, Keys
<1> QED BY <1>1, <1>5, <1>6, <1>7, <1>8, IdleRest, FinishStep


\* What enqueue_release_locked admits never takes the quarantine over its cap.
LEMMA RoomBound ==
  ASSUME IndInv, NEW F \in SUBSET Sessions,
         Keys(release_pending)' \subseteq Keys(release_pending) \cup Room(F)
  PROVE  Cardinality(Keys(release_pending)') <= MaxPendingReleases
<1> DEFINE K == Keys(release_pending)
           k == Cardinality(K)
           n == MaxPendingReleases - k
           R == {s \in F : Rank(s, F) < n}
<1>1. IsFiniteSet(K) /\ IsFiniteSet(F) /\ F \in SUBSET Nat
  BY FS_Subset, SetsAssumption DEF Keys
<1>2. k \in Nat /\ k <= MaxPendingReleases
  BY <1>1, FS_CardinalityType DEF IndInv, WithinBounds
<1>3. n \in Nat
  <2> HIDE DEF k
  <2> QED BY <1>2, BoundsAssumption
<1>4. ASSUME NEW s \in Room(F) PROVE s \in R
  <2>1. s \in F /\ k + Rank(s, F) < MaxPendingReleases
    BY <1>4 DEF Room
  <2>2. Rank(s, F) \in Nat
    BY <1>1, FS_Subset, FS_CardinalityType DEF Rank
  <2>3. Rank(s, F) < n
    <3> HIDE DEF k
    <3> QED BY <1>2, <2>1, <2>2, BoundsAssumption
  <2> QED BY <2>1, <2>3
<1>5. IsFiniteSet(R) /\ Cardinality(R) <= n
  BY <1>1, <1>3, RankBound
<1>6. Keys(release_pending)' \subseteq K \cup R
  BY <1>4
<1> HIDE DEF R, K
<1>7. /\ IsFiniteSet(K \cup R) /\ Cardinality(R) \in Nat
      /\ Cardinality(K \cup R) \in Nat
      /\ Cardinality(K \cup R) <= k + Cardinality(R)
  BY <1>1, <1>5, UnionBound
<1>8. /\ Cardinality(Keys(release_pending)') \in Nat
      /\ Cardinality(Keys(release_pending)') <= Cardinality(K \cup R)
  BY <1>6, <1>7, FS_Subset, FS_CardinalityType
<1> HIDE DEF k
<1> QED BY <1>2, <1>5, <1>7, <1>8, BoundsAssumption

\* Phase 3 of any delete: quarantined, or restored when the quarantine is full.
LEMMA DeleteFinishStep ==
  ASSUME IndInv, NEW w \in Workers, op[w].kind \in {"expire", "release", "sweep"},
         NEW reserved, NEW next \in CallType,
         next.kind \in {"idle", "retry_due"}, next.batch = {},
         next.todo = {}, next.failed = {},
         DeleteFinish(w, reserved, next)
  PROVE  IndInv'
<1> DEFINE failed == op[w].failed
           queued == Room(failed)
           kept == failed \ queued
<1>1. /\ op[w] \in CallType /\ op[w].kind \in ParkingKinds
      /\ Unpark(w) /\ op' = [op EXCEPT ![w] = next]
      /\ UNCHANGED <<phase, clocks, store, recovery>>
  BY DEF DeleteFinish, IndInv, TypeOK
<1>2. \A s \in op[w].batch :
        /\ s \in Sessions /\ op[w].taken[s] \in Lease
        /\ active[s] = None /\ pending[s] = None /\ release_pending[s] = None
  BY <1>1 DEF IndInv, SingleHome, CallsOK, Parked, CallType
<1>3. failed \subseteq op[w].batch /\ queued \subseteq failed
      /\ failed \in SUBSET Sessions /\ op[w].now \in Nat
  BY <1>1 DEF IndInv, CallsOK, CallType, Room
<1>4. /\ release_pending' = [s \in Sessions |->
           IF s \in queued THEN Quarantine(op[w].taken[s], op[w].now)
                           ELSE release_pending[s]]
      /\ pending' = [s \in Sessions |->
           IF s \in kept \cap reserved THEN op[w].taken[s] ELSE pending[s]]
      /\ active' = [s \in Sessions |->
           IF s \in kept \ reserved THEN op[w].taken[s] ELSE active[s]]
  BY DEF DeleteFinish
<1>5. Cardinality(Keys(release_pending)') <= MaxPendingReleases
  <2>1. Keys(release_pending)' \subseteq Keys(release_pending) \cup queued
    BY <1>4 DEF Keys
  <2> QED BY <1>3, <2>1, RoomBound
<1> HIDE DEF failed, queued
<1>6. /\ active' \in [Sessions -> Lease \cup {None}]
      /\ pending' \in [Sessions -> Lease \cup {None}]
  BY <1>2, <1>3, <1>4 DEF IndInv, TypeOK
<1>7. release_pending' \in [Sessions -> Quarantined \cup {None}]
  BY <1>2, <1>3, <1>4, QuarantineType DEF IndInv, TypeOK
<1>8. \A s \in Sessions \ op[w].batch :
        /\ active'[s] = active[s] /\ pending'[s] = pending[s]
        /\ release_pending'[s] = release_pending[s]
  BY <1>3, <1>4
<1>9. \A s \in op[w].batch :
        /\ active'[s] # None => /\ pending'[s] = None
                                /\ release_pending'[s] = None
                                /\ active'[s] = op[w].taken[s]
        /\ pending'[s] # None => /\ release_pending'[s] = None
                                 /\ pending'[s] = op[w].taken[s]
  BY <1>2, <1>3, <1>4
<1> QED BY <1>1, <1>5, <1>6, <1>7, <1>8, <1>9, FinishStep

\* Phase 3 of an expired commit, of release_at and of the sweep.
LEMMA DeleteStep ==
  ASSUME IndInv, NEW w \in Workers,
         ExpireFinish(w) \/ ReleaseFinish(w) \/ SweepFinish(w)
  PROVE  IndInv'
<1>1. op[w].now \in Nat
  BY DEF IndInv, TypeOK, CallType
<1>2. CASE ExpireFinish(w)
  BY <1>2, IdleRest, DeleteFinishStep DEF ExpireFinish, Returns
<1>3. CASE ReleaseFinish(w)
  BY <1>3, IdleRest, DeleteFinishStep DEF ReleaseFinish, Returns
<1>4. CASE SweepFinish(w)
  BY <1>1, <1>4, AfterSweepType, DeleteFinishStep DEF SweepFinish, Returns
<1> QED BY <1>2, <1>3, <1>4

\* release_deferred.
LEMMA ReleaseDeferredStep ==
  ASSUME IndInv, NEW s \in Sessions, ReleaseDeferred(s)
  PROVE  IndInv'
<1> DEFINE l == IF pending[s] # None THEN pending[s] ELSE active[s]
           fits == Room({s}) = {s}
<1>1. /\ phase = "up" /\ s \notin inflight /\ release_pending[s] = None
      /\ pending[s] # None \/ active[s] # None
      /\ release_pending' =
             IF fits THEN [release_pending EXCEPT ![s] = Quarantine(l, 0)]
                     ELSE release_pending
      /\ active' = [active EXCEPT ![s] = IF fits THEN None ELSE l]
      /\ pending' = [pending EXCEPT ![s] = None]
      /\ UNCHANGED <<phase, mono, boot, inflight, inflight_addr, op, mirror,
                     file, stale, stale_failed>>
  BY DEF ReleaseDeferred, clocks, calls, store, recovery
<1>2. l \in Lease /\ l \in {active[s], pending[s]} /\ l # None
  BY <1>1 DEF IndInv, TypeOK
<1>3. Quarantine(l, 0) \in Quarantined
  BY <1>2, QuarantineType
<1>4. Room({s}) \in {{}, {s}}
  BY DEF Room
<1>5. Keys(release_pending)' \subseteq Keys(release_pending) \cup Room({s})
  BY <1>1, <1>4 DEF Keys, IndInv, TypeOK
<1> HIDE DEF l, fits
<1>6. TypeOK'
  BY <1>1, <1>2, <1>3 DEF IndInv, TypeOK
<1>7. \A x \in Sessions :
        /\ active'[x] = IF x = s THEN IF fits THEN None ELSE l ELSE active[x]
        /\ pending'[x] = IF x = s THEN None ELSE pending[x]
        /\ ~fits \/ x # s => release_pending'[x] = release_pending[x]
  BY <1>1 DEF IndInv, TypeOK
<1>8. \A v \in Workers : s \notin op[v].batch
  BY <1>1 DEF IndInv, SingleHome
<1>9. SingleHome'
  BY <1>1, <1>7, <1>8 DEF IndInv, SingleHome, Parked
<1>10. CallsOK'
  <2>1. \A v \in Workers : \A x \in op[v].batch :
          /\ active'[x] = active[x] /\ release_pending'[x] = release_pending[x]
    BY <1>7, <1>8 DEF IndInv, TypeOK, CallType
  <2> QED BY <1>1, <2>1 DEF IndInv, CallsOK, Parked
<1>11. RecoveryOK'
  BY <1>1 DEF IndInv, RecoveryOK
<1>12. UniqueAddresses'
  BY <1>1, <1>2, <1>7, UniqueMono DEF IndInv, Holds, Parked
<1>13. WithinBounds'
  <2>1. Live' \subseteq Live
    BY <1>1, <1>2, <1>7 DEF Live
  <2>2. IsFiniteSet(Live)
    BY FS_Subset, SetsAssumption DEF Live
  <2>3. Cardinality(Live') <= Cardinality(Live)
        /\ Cardinality(Live) \in Nat /\ Cardinality(Live') \in Nat
    BY <2>1, <2>2, FS_Subset, FS_CardinalityType
  <2>4. Cardinality(Keys(release_pending)') <= MaxPendingReleases
    BY <1>5, RoomBound
  <2> HIDE DEF Live
  <2> QED BY <2>3, <2>4, BoundsAssumption DEF IndInv, WithinBounds
<1> QED BY <1>6, <1>9, <1>10, <1>11, <1>12, <1>13 DEF IndInv


-----------------------------------------------------------------------------
\* renew_at_time and the retries leave the lease where it is.

\* A step that changes one worker's call without parking or unparking a lease,
\* and no address, keeps the invariant.
LEMMA InPlaceStep ==
  ASSUME IndInv, NEW w \in Workers, NEW next \in CallType,
         phase = "up", op[w].kind \notin ParkingKinds,
         next.kind \notin ParkingKinds,
         op' = [op EXCEPT ![w] = next],
         UNCHANGED <<phase, clocks, inflight_addr, store, recovery>>,
         inflight' = (inflight \ op[w].batch) \cup next.batch,
         next.batch \cap (inflight \ op[w].batch) = {},
         next.todo \subseteq next.batch, next.failed \subseteq next.batch,
         next.kind \in {"idle", "retry_due"} => next.batch = {},
         \A s \in next.batch :
           /\ next.kind # "retry" => next.taken[s] # None
           /\ next.kind = "retry" => release_pending'[s] # None
           /\ next.kind = "renew" => active'[s] # None,
         active' \in [Sessions -> Lease \cup {None}],
         release_pending' \in [Sessions -> Quarantined \cup {None}],
         pending' = pending,
         \A s \in Sessions :
           /\ active'[s] # None <=> active[s] # None
           /\ active'[s] # None => active'[s].addr = active[s].addr
           /\ release_pending'[s] # None => release_pending[s] # None
           /\ s \notin op[w].batch => release_pending'[s] = release_pending[s],
         Live' \subseteq Live
  PROVE  IndInv'
<1>1. /\ op \in [Workers -> CallType]
      /\ op[w].batch \subseteq Sessions /\ next.batch \subseteq Sessions
  BY DEF IndInv, TypeOK, CallType
<1>2. op'[w] = next /\ \A v \in Workers : v # w => op'[v] = op[v]
  BY <1>1
<1>3. \A v \in Workers : Parked(v)' = Parked(v)
                         /\ \A s \in Parked(v) : op'[v].taken = op[v].taken
  BY <1>2 DEF Parked
<1>4. \A v \in Workers : v # w => /\ op[v].batch \cap op[w].batch = {}
                                  /\ op[v].batch \subseteq inflight
                                  /\ op[v].batch \subseteq Sessions
  BY <1>1 DEF IndInv, SingleHome, CallType
<1>5. TypeOK'
  BY <1>1 DEF IndInv, TypeOK, clocks, store, recovery
<1>6. SingleHome'
  <2>1. \A s \in Sessions :
          /\ active'[s] # None => pending'[s] = None /\ release_pending'[s] = None
          /\ pending'[s] # None => release_pending'[s] = None
          /\ \A v \in Workers : s \in Parked(v)' =>
               active'[s] = None /\ pending'[s] = None /\ release_pending'[s] = None
    BY <1>3 DEF IndInv, SingleHome
  <2>2. \A v1, v2 \in Workers : v1 # v2 => op'[v1].batch \cap op'[v2].batch = {}
    <3>1. \A v \in Workers : v # w => next.batch \cap op[v].batch = {}
      BY <1>4
    <3> QED BY <1>2, <3>1 DEF IndInv, SingleHome
  <2>3. \A s \in Sessions :
          s \in inflight' <=> \E v \in Workers : s \in op'[v].batch
    BY <1>2, <1>4 DEF IndInv, SingleHome
  <2> QED BY <2>1, <2>2, <2>3 DEF SingleHome
<1>7. CallsOK'
  <2>1. ASSUME NEW v \in Workers
        PROVE  (/\ op[v].todo \subseteq op[v].batch
                /\ op[v].failed \subseteq op[v].batch
                /\ op[v].kind \in {"idle", "retry_due"} => op[v].batch = {}
                /\ phase # "up" => op[v].kind = "idle"
                /\ \A s \in op[v].batch :
                     /\ op[v].kind # "retry" => op[v].taken[s] # None
                     /\ op[v].kind = "retry" => release_pending[s] # None
                     /\ op[v].kind = "renew" => active[s] # None)'
    <3>1. CASE v = w
      BY <1>2, <3>1
    <3>2. CASE v # w
      <4>1. op'[v] = op[v] /\ op[v].batch \subseteq Sessions \ op[w].batch
        BY <1>2, <1>4, <3>2
      <4> QED BY <4>1 DEF IndInv, CallsOK
    <3> QED BY <3>1, <3>2
  <2>2. \A a \in Addresses : a \in inflight_addr' <=>
          \E v \in Workers : \E s \in Parked(v)' : op'[v].taken[s].addr = a
    BY <1>3 DEF IndInv, CallsOK
  <2> QED BY <2>1, <2>2 DEF CallsOK
<1>8. RecoveryOK'
  BY DEF IndInv, RecoveryOK, recovery, store
<1>9. UniqueAddresses'
  BY <1>3, UniqueMono DEF IndInv, Holds
<1>10. WithinBounds'
  BY BoundsMono DEF IndInv, Keys
<1> QED BY <1>5, <1>6, <1>7, <1>8, <1>9, <1>10 DEF IndInv

\* renew_at_time, phase 1.
LEMMA RenewBeginStep ==
  ASSUME IndInv, NEW w \in Workers, NEW s \in Sessions, NEW t \in Nat,
         RenewBegin(w, s, t)
  PROVE  IndInv'
<1> DEFINE taken == [Empty EXCEPT ![s] = active[s]]
           next == Call("renew", t, {s}, {}, taken)
<1>1. active[s] # None /\ taken \in [Sessions -> Lease \cup {None}]
      /\ taken[s] = active[s]
  BY DEF RenewBegin, IndInv, TypeOK, Empty
<1>2. next \in CallType
  BY <1>1, CallTypeOf
<1>3. /\ phase = "up" /\ op[w].kind = "idle" /\ s \notin inflight
      /\ op' = [op EXCEPT ![w] = next] /\ inflight' = inflight \cup {s}
      /\ UNCHANGED <<phase, clocks, active, pending, release_pending,
                     inflight_addr, store, recovery>>
  BY DEF RenewBegin, Ready
<1>4. /\ next.kind = "renew" /\ next.batch = {s} /\ next.todo = {s}
      /\ next.failed = {} /\ next.taken = taken
  BY DEF Call
<1> HIDE DEF next, taken
<1>5. op[w].batch = {}
  BY <1>3 DEF IndInv, CallsOK
<1>6. Live' \subseteq Live
  BY <1>1, <1>3 DEF Live
<1>7. /\ active' \in [Sessions -> Lease \cup {None}]
      /\ release_pending' \in [Sessions -> Quarantined \cup {None}]
  BY <1>3 DEF IndInv, TypeOK
<1>8. /\ inflight' = (inflight \ op[w].batch) \cup next.batch
      /\ next.batch \cap (inflight \ op[w].batch) = {}
      /\ next.kind \notin ParkingKinds /\ op[w].kind \notin ParkingKinds
      /\ \A x \in next.batch :
           /\ next.kind # "retry" => next.taken[x] # None
           /\ next.kind = "retry" => release_pending'[x] # None
           /\ next.kind = "renew" => active'[x] # None
  BY <1>1, <1>3, <1>4, <1>5
<1>9. \A x \in Sessions :
        /\ active'[x] # None <=> active[x] # None
        /\ active'[x] # None => active'[x].addr = active[x].addr
        /\ release_pending'[x] = release_pending[x]
  BY <1>3
<1> QED BY <1>2, <1>3, <1>4, <1>6, <1>7, <1>8, <1>9, InPlaceStep

\* renew_at_time, phase 3.
LEMMA RenewFinishStep ==
  ASSUME IndInv, NEW w \in Workers, RenewFinish(w)
  PROVE  IndInv'
<1>1. /\ op[w] \in CallType /\ op[w].kind = "renew" /\ phase = "up"
      /\ op[w].batch \subseteq Sessions
  BY DEF RenewFinish, Returns, IndInv, TypeOK, CallsOK, CallType
<1>2. /\ op' = [op EXCEPT ![w] = Idle] /\ inflight' = inflight \ op[w].batch
      /\ UNCHANGED <<phase, clocks, pending, release_pending, inflight_addr,
                     store, recovery>>
  BY DEF RenewFinish
<1>3. op[w].now + LeaseTTL \in Nat
  BY <1>1, BoundsAssumption DEF CallType
<1>4. \A s \in Sessions : active[s] # None =>
        LET l == [active[s] EXCEPT !.exp = op[w].now + LeaseTTL]
        IN l \in Lease /\ l.addr = active[s].addr
  BY <1>3 DEF IndInv, TypeOK, Lease
<1>5. active' \in [Sessions -> Lease \cup {None}]
  BY <1>4 DEF RenewFinish, IndInv, TypeOK
<1>6. \A s \in Sessions :
        /\ active'[s] # None <=> active[s] # None
        /\ active'[s] # None => active'[s].addr = active[s].addr
  BY <1>4, NoneAssumption DEF RenewFinish
<1>7. Live' \subseteq Live
  BY <1>2, <1>6 DEF Live
<1>8. release_pending' \in [Sessions -> Quarantined \cup {None}]
  BY <1>2 DEF IndInv, TypeOK
<1> QED BY <1>1, <1>2, <1>5, <1>6, <1>7, <1>8, IdleRest, InPlaceStep


\* A retry parks quarantined sessions that no call is busy with.
LEMMA RetryBatch ==
  ASSUME NEW w \in Workers, RetryBegin(w)
  PROVE  \E batch \in SUBSET Sessions :
           /\ \A s \in batch : release_pending[s] # None /\ s \notin inflight
           /\ inflight' = inflight \cup batch
           /\ op' = [op EXCEPT ![w] =
                       IF batch = {} THEN Idle
                       ELSE Call("retry", op[w].now, batch, {}, Empty)]
<1> DEFINE due(s) == /\ release_pending[s] # None
                     /\ s \notin inflight
                     /\ release_pending[s].next <= op[w].now
           all == Kept(release_order, {i \in DOMAIN release_order : due(release_order[i])})
           seq == SubSeq(all, 1, IF Len(all) < MaxRetryBatch THEN Len(all)
                                                             ELSE MaxRetryBatch)
           batch == {s \in Sessions : due(s) /\ \E i \in DOMAIN seq : seq[i] = s}
<1>1. /\ inflight' = inflight \cup batch
      /\ op' = [op EXCEPT ![w] =
                  IF batch = {} THEN Idle
                  ELSE Call("retry", op[w].now, batch, {}, Empty)]
  BY DEF RetryBegin
<1>2. /\ batch \in SUBSET Sessions
      /\ \A s \in batch : release_pending[s] # None /\ s \notin inflight
  OBVIOUS
<1> HIDE DEF batch
<1> QED BY <1>1, <1>2

\* retry_pending_releases_bounded, phase 1.
LEMMA RetryBeginStep ==
  ASSUME IndInv, NEW w \in Workers, RetryBegin(w)
  PROVE  IndInv'
<1>1. /\ phase = "up" /\ op[w].kind = "retry_due"
      /\ op[w] \in CallType /\ op[w].batch = {}
  BY DEF RetryBegin, IndInv, TypeOK, CallsOK
<1>2. PICK batch \in SUBSET Sessions :
        /\ \A s \in batch : release_pending[s] # None /\ s \notin inflight
        /\ inflight' = inflight \cup batch
        /\ op' = [op EXCEPT ![w] =
                    IF batch = {} THEN Idle
                    ELSE Call("retry", op[w].now, batch, {}, Empty)]
  BY RetryBatch
<1>3. UNCHANGED <<phase, clocks, active, pending, release_pending,
                  inflight_addr, store, recovery>>
  BY DEF RetryBegin
<1>4. Live' \subseteq Live
  BY <1>2, <1>3 DEF Live
<1>5. /\ active' \in [Sessions -> Lease \cup {None}]
      /\ release_pending' \in [Sessions -> Quarantined \cup {None}]
  BY <1>3 DEF IndInv, TypeOK
<1>6. CASE batch = {}
  BY <1>1, <1>2, <1>3, <1>4, <1>5, <1>6, IdleRest, InPlaceStep
<1>7. CASE batch # {}
  <2> DEFINE next == Call("retry", op[w].now, batch, {}, Empty)
  <2>1. /\ next \in CallType /\ next.kind = "retry" /\ next.batch = batch
        /\ next.todo = batch /\ next.failed = {}
    <3>1. op[w].now \in Nat /\ Empty \in [Sessions -> Lease \cup {None}]
      BY <1>1 DEF CallType, Empty
    <3> QED BY <3>1, CallTypeOf DEF Call
  <2>2. op' = [op EXCEPT ![w] = next]
    BY <1>2, <1>7
  <2> HIDE DEF next
  <2>3. /\ inflight' = (inflight \ op[w].batch) \cup next.batch
        /\ next.batch \cap (inflight \ op[w].batch) = {}
        /\ next.kind \notin ParkingKinds /\ op[w].kind \notin ParkingKinds
        /\ \A s \in next.batch :
             /\ next.kind # "retry" => next.taken[s] # None
             /\ next.kind = "retry" => release_pending'[s] # None
             /\ next.kind = "renew" => active'[s] # None
    BY <1>1, <1>2, <1>3, <2>1
  <2>4. \A s \in Sessions :
          /\ active'[s] # None <=> active[s] # None
          /\ active'[s] # None => active'[s].addr = active[s].addr
          /\ release_pending'[s] = release_pending[s]
    BY <1>3
  <2> QED BY <1>1, <1>3, <1>4, <1>5, <2>1, <2>2, <2>3, <2>4, InPlaceStep
<1> QED BY <1>6, <1>7

\* retry_pending_releases_bounded, phase 3.
LEMMA RetryFinishStep ==
  ASSUME IndInv, NEW w \in Workers, RetryFinish(w)
  PROVE  IndInv'
<1>1. /\ op[w] \in CallType /\ op[w].kind = "retry" /\ phase = "up"
      /\ op[w].batch \subseteq Sessions /\ op[w].failed \subseteq op[w].batch
      /\ \A s \in op[w].batch : release_pending[s] # None /\ s \in inflight
  BY DEF RetryFinish, Returns, IndInv, TypeOK, CallsOK, CallType, SingleHome
<1>2. /\ op' = [op EXCEPT ![w] = Idle] /\ inflight' = inflight \ op[w].batch
      /\ UNCHANGED <<phase, clocks, active, pending, inflight_addr, store,
                     recovery>>
  BY DEF RetryFinish
<1>3. ASSUME NEW s \in Sessions, release_pending[s] # None
      PROVE  [release_pending[s] EXCEPT
               !.attempts = OneMore(@),
               !.next = NextRetryDeadline(op[w].now,
                          OneMore(release_pending[s].attempts))] \in Quarantined
  <2>1. release_pending[s] \in Quarantined /\ op[w].now \in Nat
    BY <1>1, <1>3 DEF IndInv, TypeOK, CallType
  <2>2. OneMore(release_pending[s].attempts) \in Nat
    BY <2>1 DEF Quarantined, OneMore
  <2>3. NextRetryDeadline(op[w].now, OneMore(release_pending[s].attempts)) \in Nat
    BY <2>1, <2>2, DeadlineType
  <2> QED BY <2>1, <2>2, <2>3 DEF Quarantined
<1>4. release_pending' \in [Sessions -> Quarantined \cup {None}]
  BY <1>3 DEF RetryFinish, IndInv, TypeOK
<1>5. \A s \in Sessions :
        /\ release_pending'[s] # None => release_pending[s] # None
        /\ s \notin op[w].batch => release_pending'[s] = release_pending[s]
  BY <1>1 DEF RetryFinish
<1>6. Live' \subseteq Live
  BY <1>1, <1>2, <1>5 DEF Live
<1>7. active' \in [Sessions -> Lease \cup {None}]
  BY <1>2 DEF IndInv, TypeOK
<1> QED BY <1>1, <1>2, <1>4, <1>5, <1>6, <1>7, IdleRest, InPlaceStep


-----------------------------------------------------------------------------
\* Crash and recovery

\* While the pool is not up, no session is parked and no call runs.
LEMMA Quiet ==
  ASSUME IndInv, phase # "up"
  PROVE  /\ inflight = {} /\ inflight_addr = {}
         /\ \A v \in Workers : op[v].kind = "idle" /\ op[v].batch = {}
         /\ \A s \in Sessions : release_pending[s] = None
<1>1. \A v \in Workers : /\ op[v].kind = "idle" /\ op[v].batch = {}
                         /\ Parked(v) = {}
  BY DEF IndInv, CallsOK, Parked
<1> QED BY <1>1 DEF IndInv, TypeOK, SingleHome, CallsOK, RecoveryOK

\* An empty pool is within its caps.
LEMMA EmptyBounds ==
  Cardinality({}) <= MaxLeases /\ Cardinality({}) <= MaxPendingReleases
BY FS_EmptySet, BoundsAssumption

\* After a crash no thread is inside the pool.
LEMMA IdleAll ==
  ASSUME op' = [v \in Workers |-> Idle]
  PROVE  /\ op' \in [Workers -> CallType]
         /\ \A v \in Workers : /\ op'[v].kind = "idle" /\ op'[v].batch = {}
                               /\ op'[v].todo = {} /\ op'[v].failed = {}
                               /\ Parked(v)' = {}
BY IdleType DEF Idle, Parked

\* A crash in any phase of any call keeps the invariant.
LEMMA CrashStep ==
  ASSUME IndInv, Crash
  PROVE  IndInv'
<1>1. /\ phase' = "down" /\ active' = Empty /\ pending' = Empty
      /\ release_pending' = Empty /\ inflight' = {} /\ inflight_addr' = {}
      /\ op' = [v \in Workers |-> Idle]
      /\ stale' = {} /\ stale_failed' = {} /\ mirror' = Empty
      /\ UNCHANGED <<mono, boot, file>>
  BY DEF Crash, NoCalls, clocks
<1>2. \A s \in Sessions : /\ active'[s] = None /\ pending'[s] = None
                          /\ release_pending'[s] = None
  BY <1>1 DEF Empty
<1>3. TypeOK'
  BY <1>1, IdleAll DEF IndInv, TypeOK, Empty
<1>4. SingleHome' /\ CallsOK' /\ RecoveryOK' /\ UniqueAddresses'
  BY <1>1, <1>2, IdleAll
  DEF SingleHome, CallsOK, RecoveryOK, UniqueAddresses, Holds
<1>5. Live' = {} /\ Keys(release_pending)' = {}
  BY <1>1, <1>2 DEF Live, Keys
<1> QED BY <1>3, <1>4, <1>5, EmptyBounds DEF IndInv, WithinBounds

\* recover_locked_at_time restores at most maximum_leases leases with pairwise
\* distinct addresses, whatever the journal holds.
LEMMA RecoverStep ==
  ASSUME IndInv, NEW now \in Nat, Recover(now)
  PROVE  IndInv'
<1> DEFINE kept == Restored(now)
           within == {s \in Keys(file) :
                        Rank(s, Keys(file)) < MaxLeases + MaxPendingReleases}
           fresh == {s \in within : file[s].exp > now}
           valid == {s \in fresh : \A x \in fresh :
                       x < s => file[x].addr # file[s].addr}
           lease(s) == [dev |-> file[s].dev, addr |-> file[s].addr,
                        exp |-> file[s].exp - now]
<1>1. /\ phase = "down" /\ phase' = "recovering" /\ mono' = 0 /\ boot' = now
      /\ mirror' = file /\ stale' = Keys(file) \ kept
      /\ UNCHANGED <<release_pending, inflight, inflight_addr, op, file,
                     stale_failed>>
  BY DEF Recover, calls
<1>2. /\ pending' = [s \in Sessions |->
           IF s \in kept /\ file[s].state = "Reserved" THEN lease(s) ELSE None]
      /\ active' = [s \in Sessions |->
           IF s \in kept /\ file[s].state = "Active" THEN lease(s) ELSE None]
  BY DEF Recover
<1>3. kept = {s \in valid : Rank(s, valid) < MaxLeases}
  BY DEF Restored
<1>4. kept \subseteq valid /\ valid \subseteq fresh /\ fresh \subseteq Keys(file)
      /\ Keys(file) \subseteq Sessions
  BY <1>3 DEF Keys
<1>5. \A s \in fresh : file[s] \in Record /\ file[s].exp > now
  BY DEF Keys, IndInv, TypeOK
<1>6. \A s \in fresh : lease(s) \in Lease /\ lease(s).addr = file[s].addr
  <2>1. ASSUME NEW s \in fresh PROVE file[s].exp - now \in Nat
    <3>1. file[s].exp \in Nat /\ file[s].exp > now
      BY <1>5 DEF Record
    <3> HIDE DEF fresh
    <3> QED BY <3>1
  <2> HIDE DEF fresh
  <2> QED BY <1>5, <2>1 DEF Lease, Record
<1>7. IsFiniteSet(kept) /\ Cardinality(kept) <= MaxLeases
  <2>1. valid \in SUBSET Nat /\ IsFiniteSet(valid)
    BY <1>4, SetsAssumption, FS_Subset
  <2> HIDE DEF valid
  <2> QED BY <1>3, <2>1, RankBound, BoundsAssumption
<1>8. ASSUME NEW s \in kept, NEW x \in kept, file[s].addr = file[x].addr
      PROVE  s = x
  <2>1. s \in Nat /\ x \in Nat /\ s \in valid /\ x \in valid
        /\ s \in fresh /\ x \in fresh
    BY <1>4, SetsAssumption
  <2>2. ~(s < x) /\ ~(x < s)
    <3> HIDE DEF fresh
    <3> QED BY <1>8, <2>1
  <2> HIDE DEF valid, fresh
  <2> QED BY <2>1, <2>2
<1> HIDE DEF kept, valid, fresh, lease
<1>9. \A s \in Sessions :
        /\ active'[s] # None => s \in kept /\ active'[s] = lease(s)
                                /\ pending'[s] = None
        /\ pending'[s] # None => s \in kept /\ pending'[s] = lease(s)
  BY <1>2
<1>10. TypeOK'
  <2>1. stale' \subseteq Sessions
    BY <1>1, <1>4
  <2>2. /\ active' \in [Sessions -> Lease \cup {None}]
        /\ pending' \in [Sessions -> Lease \cup {None}]
    BY <1>2, <1>4, <1>6
  <2> QED BY <1>1, <2>1, <2>2 DEF IndInv, TypeOK
<1>11. SingleHome'
  BY <1>1, <1>9, Quiet DEF IndInv, SingleHome, Parked
<1>12. CallsOK'
  BY <1>1, Quiet DEF IndInv, CallsOK, Parked
<1>13. RecoveryOK'
  <2>1. stale_failed = {}
    BY <1>1 DEF IndInv, RecoveryOK
  <2> QED BY <1>1, <1>9, <2>1, Quiet DEF RecoveryOK, Keys
<1>14. UniqueAddresses'
  <2>1. ASSUME NEW s \in Sessions, NEW a \in Addresses, Holds(s, a)'
        PROVE  s \in kept /\ file[s].addr = a
    <3>1. \A v \in Workers : Parked(v)' = {}
      BY <1>1, Quiet DEF Parked
    <3>2. \/ active'[s] # None /\ active'[s].addr = a
          \/ pending'[s] # None /\ pending'[s].addr = a
      BY <2>1, <3>1 DEF Holds
    <3> QED BY <1>4, <1>6, <1>9, <3>2
  <2> QED BY <1>8, <2>1 DEF UniqueAddresses
<1>15. WithinBounds'
  <2>1. Live' \subseteq kept /\ Keys(release_pending)' = {}
    BY <1>1, <1>9, Quiet DEF Live, Keys
  <2>2. Cardinality(Live') <= Cardinality(kept)
        /\ Cardinality(Live') \in Nat /\ Cardinality(kept) \in Nat
    BY <1>7, <2>1, FS_Subset, FS_CardinalityType
  <2>3. Cardinality(Live') <= MaxLeases
    <3> HIDE DEF Live
    <3> QED BY <1>7, <2>2, BoundsAssumption
  <2> QED BY <2>1, <2>3, EmptyBounds DEF WithinBounds
<1> QED BY <1>10, <1>11, <1>12, <1>13, <1>14, <1>15 DEF IndInv

\* The delete of a dropped record keeps the invariant.
LEMMA RecoverDeleteStep ==
  ASSUME IndInv, NEW s \in Sessions, RecoverDelete(s)
  PROVE  IndInv'
<1> DEFINE new == [mirror EXCEPT ![s] = None]
<1>1. /\ phase = "recovering" /\ s \in stale /\ stale' = stale \ {s}
      /\ UNCHANGED <<phase, mono, boot, active, pending, release_pending,
                     inflight, inflight_addr, op>>
  BY DEF RecoverDelete, clocks, inner, calls
<1>2. \/ mirror' = new /\ file' = new /\ stale_failed' = stale_failed
      \/ /\ mirror' = mirror /\ file' \in {file, new}
         /\ stale_failed' = stale_failed \cup {s}
  BY DEF RecoverDelete
<1>3. new \in [Sessions -> Record \cup {None}]
      /\ \A x \in Sessions : x # s => new[x] = mirror[x]
  BY DEF IndInv, TypeOK
<1> HIDE DEF new
<1>4. TypeOK'
  BY <1>1, <1>2, <1>3 DEF IndInv, TypeOK
<1>5. SingleHome' /\ CallsOK'
  BY <1>1 DEF IndInv, SingleHome, CallsOK, Parked
<1>6. RecoveryOK'
  BY <1>1, <1>2, <1>3 DEF IndInv, TypeOK, RecoveryOK
<1>7. UniqueAddresses'
  BY <1>1, UniqueMono DEF IndInv, Holds, Parked
<1>8. WithinBounds'
  BY <1>1, BoundsMono DEF IndInv, Live, Keys
<1> QED BY <1>4, <1>5, <1>6, <1>7, <1>8 DEF IndInv

\* The end of construction, successful or not.
LEMMA RecoverDoneStep ==
  ASSUME IndInv, RecoverDone
  PROVE  IndInv'
<1>1. /\ phase = "recovering" /\ stale = {} /\ stale' = {} /\ stale_failed' = {}
      /\ UNCHANGED <<mono, boot, inflight, inflight_addr, op, file>>
  BY DEF RecoverDone, clocks, calls
<1>2. \A v \in Workers : op'[v] = op[v] /\ Parked(v)' = {}
  BY <1>1, Quiet DEF Parked
<1>3. CASE Room(stale_failed) = stale_failed
  <2>1. /\ phase' = "up"
        /\ release_pending' = [s \in Sessions |->
             IF s \in stale_failed THEN Quarantine(mirror[s], mono)
                                   ELSE release_pending[s]]
        /\ UNCHANGED <<active, pending, mirror>>
    BY <1>3 DEF RecoverDone
  <2>2. stale_failed \in SUBSET Sessions /\ \A s \in stale_failed :
          mirror[s] \in Record /\ active[s] = None /\ pending[s] = None
    BY DEF IndInv, TypeOK, RecoveryOK
  <2>3. \A s \in Sessions :
          release_pending'[s] # None => s \in stale_failed
    BY <1>1, <2>1, Quiet
  <2>4. TypeOK'
    BY <1>1, <2>1, <2>2, QuarantineType DEF IndInv, TypeOK
  <2>5. SingleHome'
    BY <1>1, <1>2, <2>1, <2>2, <2>3, Quiet DEF IndInv, SingleHome
  <2>6. CallsOK'
    BY <1>1, <1>2, Quiet DEF IndInv, CallsOK
  <2>7. RecoveryOK'
    BY <1>1, <2>1 DEF RecoveryOK
  <2>8. UniqueAddresses'
    BY <1>2, <2>1, UniqueMono DEF IndInv, Holds
  <2>9. WithinBounds'
    <3>1. Live' = Live
      BY <1>1, <2>1, Quiet DEF Live
    <3>2. Keys(release_pending)' \subseteq
            Keys(release_pending) \cup Room(stale_failed)
      BY <1>3, <2>3 DEF Keys
    <3>3. Cardinality(Keys(release_pending)') <= MaxPendingReleases
      BY <2>2, <3>2, RoomBound
    <3> QED BY <3>1, <3>3 DEF IndInv, WithinBounds
  <2> QED BY <2>4, <2>5, <2>6, <2>7, <2>8, <2>9 DEF IndInv
<1>4. CASE Room(stale_failed) # stale_failed
  <2>1. /\ phase' = "down" /\ active' = Empty /\ pending' = Empty
        /\ mirror' = Empty /\ release_pending' = release_pending
    BY <1>4 DEF RecoverDone
  <2>2. \A s \in Sessions : /\ active'[s] = None /\ pending'[s] = None
                            /\ release_pending'[s] = None
    BY <1>1, <2>1, Quiet DEF Empty
  <2>3. TypeOK'
    BY <1>1, <2>1 DEF IndInv, TypeOK, Empty
  <2>4. SingleHome' /\ CallsOK' /\ RecoveryOK' /\ UniqueAddresses'
    BY <1>1, <1>2, <2>1, <2>2, Quiet
    DEF IndInv, SingleHome, CallsOK, RecoveryOK, UniqueAddresses, Holds
  <2>5. Live' = {} /\ Keys(release_pending)' = {}
    BY <1>1, <2>2, Quiet DEF Live, Keys
  <2> QED BY <2>3, <2>4, <2>5, EmptyBounds DEF IndInv, WithinBounds
<1> QED BY <1>3, <1>4

\* Time alone changes nothing.
LEMMA TickStep ==
  ASSUME IndInv, Tick \/ UNCHANGED vars
  PROVE  IndInv'
<1>1. mono' \in Nat /\ UNCHANGED <<phase, boot, inner, op, store, recovery>>
  BY DEF Tick, vars, clocks, calls, IndInv, TypeOK
<1>2. TypeOK'
  BY <1>1 DEF IndInv, TypeOK, inner, store, recovery
<1>3. SingleHome' /\ CallsOK' /\ RecoveryOK'
  BY <1>1
  DEF IndInv, SingleHome, CallsOK, RecoveryOK, Parked, inner, store, recovery
<1>4. UniqueAddresses'
  BY <1>1, UniqueMono DEF IndInv, Holds, Parked, inner
<1>5. WithinBounds'
  BY <1>1, BoundsMono DEF IndInv, Live, Keys, inner
<1> QED BY <1>2, <1>3, <1>4, <1>5 DEF IndInv

-----------------------------------------------------------------------------
\* The theorems

\* The pool starts in the invariant.
LEMMA InitIndInv == Init => IndInv
<1> SUFFICES ASSUME Init PROVE IndInv
  OBVIOUS
<1>1. \A v \in Workers : /\ op[v] \in CallType /\ op[v].batch = {}
                         /\ op[v].todo = {} /\ op[v].failed = {}
                         /\ op[v].kind = "idle" /\ Parked(v) = {}
  BY IdleType DEF Init, Idle, Parked
<1>2. \A s \in Sessions : /\ active[s] = None /\ pending[s] = None
                          /\ release_pending[s] = None
  BY DEF Init, Empty
<1>3. TypeOK
  BY IdleType DEF Init, TypeOK, Empty
<1>4. SingleHome /\ CallsOK /\ RecoveryOK /\ UniqueAddresses
  BY <1>1, <1>2
  DEF Init, SingleHome, CallsOK, RecoveryOK, UniqueAddresses, Holds
<1>5. Live = {} /\ Keys(release_pending) = {}
  BY <1>2 DEF Init, Live, Keys
<1> QED BY <1>3, <1>4, <1>5, EmptyBounds DEF IndInv, WithinBounds

\* One step per action of the pool.
LEMMA NextIndInv ==
  ASSUME IndInv, [Next]_vars
  PROVE  IndInv'
<1>1. Captured \subseteq Nat
  BY CapturedType DEF IndInv
<1>2. ASSUME NEW w \in Workers, Begin(w) PROVE IndInv'
  BY <1>1, <1>2, ReserveBeginStep, ReserveExhaustedStep, CommitBeginStep,
     RenewBeginStep, ReleaseBeginStep, SweepBeginStep DEF Begin
<1>3. ASSUME NEW w \in Workers, Continue(w) PROVE IndInv'
  BY <1>3, StoreStep, ReserveFinishStep, PromoteFinishStep, DeleteStep,
     RenewFinishStep, RetryBeginStep, RetryFinishStep DEF Continue
<1>4. ASSUME NEW s \in Sessions, ReleaseDeferred(s) PROVE IndInv'
  BY <1>4, ReleaseDeferredStep
<1>5. CASE Tick \/ UNCHANGED vars
  BY <1>5, TickStep
<1>6. CASE Crash
  BY <1>6, CrashStep
<1>7. ASSUME NEW now \in BootTimes, Recover(now) PROVE IndInv'
  BY <1>7, RecoverStep, BoundsAssumption
<1>8. ASSUME NEW s \in Sessions, RecoverDelete(s) PROVE IndInv'
  BY <1>8, RecoverDeleteStep
<1>9. CASE RecoverDone
  BY <1>9, RecoverDoneStep
<1> QED
  BY <1>2, <1>3, <1>4, <1>5, <1>6, <1>7, <1>8, <1>9 DEF Next

\* The invariant of the three-phase protocol is inductive, for any number of
\* sessions, addresses and threads, any capacities, and with crashes anywhere.
THEOREM Inductive == Spec => []IndInv
<1>1. IndInv /\ [Next]_vars => IndInv'
  BY NextIndInv
<1> QED BY InitIndInv, <1>1, PTL DEF Spec

\* Type correctness of the pool, its calls and its journal.
THEOREM TypeCorrect == Spec => []TypeOK
BY Inductive, PTL DEF IndInv

\* No two sessions ever hold the same address, however the phases of reserve,
\* commit, release, renew, sweep, retry and recovery interleave.
THEOREM AddressesUnique == Spec => []UniqueAddresses
BY Inductive, PTL DEF IndInv

\* A session is never in two maps, nor in a map and in a call that took it, and
\* the inflight set never keeps or loses a session.
THEOREM OneHome == Spec => []SingleHome
BY Inductive, PTL DEF IndInv

\* Neither maximum_leases nor maximum_pending_releases is ever exceeded, the
\* leases in the hands of a call included.
THEOREM Bounded == Spec => []WithinBounds
BY Inductive, PTL DEF IndInv

-----------------------------------------------------------------------------
\* The journal.  Between its phases a call relies on the record of every lease
\* it took, so the records of the sessions inside calls are part of the
\* invariant (JournalOK).

\* A call that parks leases keeps the journal in step: what it took was backed,
\* and a reservation owes its record still.
LEMMA ParkJournal ==
  ASSUME IndInv, JournalOK, NEW w \in Workers, phase = "up", op[w].kind = "idle",
         NEW kind \in ParkingKinds, NEW now, NEW batch \in SUBSET Sessions,
         NEW was, NEW taken,
         batch \cap inflight = {},
         \A s \in batch : \/ kind = "reserve"
                          \/ taken[s] # None /\ taken[s] \in {active[s], pending[s]},
         \A s \in Sessions :
           /\ active'[s] = IF s \in batch THEN None ELSE active[s]
           /\ pending'[s] = IF s \in batch THEN None ELSE pending[s],
         Park(w, kind, now, batch, was, taken),
         UNCHANGED <<phase, release_pending, mirror>>
  PROVE  JournalOK'
<1> SUFFICES ASSUME Durable
             PROVE  /\ Backed(active)' /\ Backed(pending)' /\ Backed(release_pending)'
                    /\ \A v \in Workers : \A s \in op'[v].batch : CallBacked(v, s)'
  BY DEF JournalOK
<1>1. /\ op'[w].kind = kind /\ op'[w].batch = batch /\ op'[w].taken = taken
      /\ op'[w].todo = batch /\ op'[w].failed = {}
      /\ \A v \in Workers : v # w => op'[v] = op[v]
  BY DEF Park, Call, IndInv, TypeOK
<1>2. inflight' = inflight \cup batch
  BY DEF Park
<1>3. /\ Backed(active) /\ Backed(pending) /\ Backed(release_pending)
      /\ \A v \in Workers : \A s \in op[v].batch : CallBacked(v, s)
  BY DEF JournalOK
<1>4. Backed(active)' /\ Backed(pending)' /\ Backed(release_pending)'
  BY <1>2, <1>3 DEF Backed, Backs, Keys
<1>5. ASSUME NEW v \in Workers, v # w, NEW s \in op'[v].batch
      PROVE  CallBacked(v, s)'
  <2>1. op'[v] = op[v] /\ s \in Sessions /\ s \notin batch
    BY <1>1, <1>5 DEF IndInv, SingleHome, TypeOK, CallType
  <2>2. active'[s] = active[s] /\ release_pending'[s] = release_pending[s]
        /\ mirror' = mirror
    BY <2>1
  <2> QED BY <1>3, <1>5, <2>1, <2>2 DEF CallBacked, Backs
<1>6. ASSUME NEW s \in op'[w].batch
      PROVE  CallBacked(w, s)'
  <2>1. kind # "reserve" => Backs(s, taken[s])
    BY <1>1, <1>3, <1>6 DEF Backed, Keys
  <2> QED BY <1>1, <1>6, <2>1 DEF CallBacked, Backs
<1> QED BY <1>4, <1>5, <1>6

\* Each lease that call w took is backed where it goes.
HandsBack(w) ==
  /\ \A s \in Sessions \ op[w].batch :
       /\ active'[s] = active[s] /\ pending'[s] = pending[s]
       /\ release_pending'[s] = release_pending[s]
  /\ \A s \in op[w].batch :
       /\ active'[s] # None => Backs(s, active'[s])
       /\ pending'[s] # None => Backs(s, pending'[s])
       /\ release_pending'[s] # None => Backs(s, release_pending'[s])

\* A call that hands its leases back, backed, keeps the journal in step.
LEMMA FinishJournal ==
  ASSUME IndInv, JournalOK, NEW w \in Workers, phase = "up",
         op'[w].batch = {}, \A v \in Workers : v # w => op'[v] = op[v],
         inflight' = inflight \ op[w].batch,
         UNCHANGED <<phase, mirror>>,
         Durable => HandsBack(w)
  PROVE  JournalOK'
<1> SUFFICES ASSUME Durable
             PROVE  /\ Backed(active)' /\ Backed(pending)' /\ Backed(release_pending)'
                    /\ \A v \in Workers : \A s \in op'[v].batch : CallBacked(v, s)'
  BY DEF JournalOK
<1>1. /\ Backed(active) /\ Backed(pending) /\ Backed(release_pending)
      /\ \A v \in Workers : \A s \in op[v].batch : CallBacked(v, s)
  BY DEF JournalOK
<1>2. Backed(active)' /\ Backed(pending)' /\ Backed(release_pending)'
  BY <1>1 DEF Backed, Backs, Keys, HandsBack
<1>3. ASSUME NEW v \in Workers, NEW s \in op'[v].batch
      PROVE  CallBacked(v, s)'
  <2>1. v # w /\ op'[v] = op[v] /\ s \in Sessions /\ s \notin op[w].batch
    BY <1>3 DEF IndInv, SingleHome, TypeOK, CallType
  <2>2. active'[s] = active[s] /\ release_pending'[s] = release_pending[s]
        /\ mirror' = mirror
    BY <2>1 DEF HandsBack
  <2> QED BY <1>1, <1>3, <2>1, <2>2 DEF CallBacked, Backs
<1> QED BY <1>2, <1>3

\* Phase 1 of a renewal and of a retry, which leave the lease in its map.
LEMMA VisitJournal ==
  ASSUME IndInv, JournalOK, NEW w \in Workers, phase = "up",
         op[w].batch = {}, NEW next, op' = [op EXCEPT ![w] = next],
         next.batch \cap inflight = {}, inflight' = inflight \cup next.batch,
         UNCHANGED <<phase, active, pending, release_pending, mirror>>,
         Durable => \A s \in next.batch : CallBacked(w, s)'
  PROVE  JournalOK'
<1> SUFFICES ASSUME Durable
             PROVE  /\ Backed(active)' /\ Backed(pending)' /\ Backed(release_pending)'
                    /\ \A v \in Workers : \A s \in op'[v].batch : CallBacked(v, s)'
  BY DEF JournalOK
<1>1. /\ Backed(active) /\ Backed(pending) /\ Backed(release_pending)
      /\ \A v \in Workers : \A s \in op[v].batch : CallBacked(v, s)
  BY DEF JournalOK
<1>2. op'[w] = next /\ \A v \in Workers : v # w => op'[v] = op[v]
  BY DEF IndInv, TypeOK
<1>3. Backed(active)' /\ Backed(pending)' /\ Backed(release_pending)'
  BY <1>1 DEF Backed, Backs, Keys
<1>4. ASSUME NEW v \in Workers, NEW s \in op'[v].batch
      PROVE  CallBacked(v, s)'
  <2>1. CASE v = w
    BY <1>2, <1>4, <2>1
  <2>2. CASE v # w
    BY <1>1, <1>2, <1>4, <2>2 DEF CallBacked, Backs
  <2> QED BY <2>1, <2>2
<1> QED BY <1>3, <1>4

\* Phase 2: the write of one record, or its failure.
LEMMA StoreJournal ==
  ASSUME IndInv, JournalOK, NEW w \in Workers, StorePersist(w) \/ StoreRelease(w)
  PROVE  JournalOK'
<1>1. UNCHANGED <<phase, active, pending, release_pending, inflight, boot>>
  BY DEF StorePersist, StoreRelease, inner, clocks
<1> SUFFICES ASSUME Durable, phase # "down"
             PROVE  /\ Backed(active)' /\ Backed(pending)' /\ Backed(release_pending)'
                    /\ \A v \in Workers : \A s \in op'[v].batch : CallBacked(v, s)'
  BY <1>1 DEF JournalOK
<1>2. /\ Backed(active) /\ Backed(pending) /\ Backed(release_pending)
      /\ \A v \in Workers : \A s \in op[v].batch : CallBacked(v, s)
  BY DEF JournalOK
<1> PICK s \in op[w].todo :
      \E r : /\ JournalWrite([mirror EXCEPT ![s] = r], w, s)
             /\ \/ op[w].kind \in PersistKinds /\ r = RecordOf(op[w], s)
                \/ op[w].kind \in DeleteKinds /\ r = None
  BY DEF StorePersist, StoreRelease
<1>3. PICK r : /\ JournalWrite([mirror EXCEPT ![s] = r], w, s)
               /\ \/ op[w].kind \in PersistKinds /\ r = RecordOf(op[w], s)
                  \/ op[w].kind \in DeleteKinds /\ r = None
  OBVIOUS
<1>4. /\ s \in Sessions /\ s \in op[w].batch /\ op[w] \in CallType
      /\ s \notin op[w].failed
      /\ op[w].kind \in PersistKinds => op[w].taken[s] \in Lease
  BY <1>2, <1>3 DEF IndInv, TypeOK, CallsOK, CallType, CallBacked
<1>5. /\ \A v \in Workers : v # w => op'[v] = op[v]
      /\ op'[w].kind = op[w].kind /\ op'[w].batch = op[w].batch
      /\ op'[w].taken = op[w].taken /\ op'[w].todo = op[w].todo \ {s}
  BY <1>3 DEF JournalWrite, IndInv, TypeOK, CallType
<1>6. \/ mirror' = [mirror EXCEPT ![s] = r] /\ op'[w].failed = op[w].failed
      \/ mirror' = mirror /\ op'[w].failed = op[w].failed \cup {s}
  BY <1>3 DEF JournalWrite, IndInv, TypeOK, CallType
<1>7. \A x \in Sessions : x # s => mirror'[x] = mirror[x]
  BY <1>6 DEF IndInv, TypeOK
<1>8. s \in inflight
  BY <1>4 DEF IndInv, SingleHome
<1>9. Backed(active)' /\ Backed(pending)' /\ Backed(release_pending)'
  BY <1>1, <1>2, <1>7, <1>8 DEF Backed, Backs, Keys
<1>10. ASSUME NEW v \in Workers, NEW x \in op'[v].batch, v # w \/ x # s
       PROVE  CallBacked(v, x)'
  <2>1. x \in op[v].batch /\ x \in Sessions
    BY <1>5, <1>10 DEF IndInv, TypeOK, CallType
  <2>2. x # s
    BY <1>4, <1>10, <2>1 DEF IndInv, SingleHome
  <2>3. mirror'[x] = mirror[x] /\ CallBacked(v, x)
    BY <1>2, <1>7, <2>1, <2>2
  <2>4. CASE v = w
    <3>1. (x \in op'[w].todo <=> x \in op[w].todo)
          /\ (x \in op'[w].failed <=> x \in op[w].failed)
      BY <1>5, <1>6, <2>2
    <3> QED BY <1>1, <1>5, <2>3, <2>4, <3>1 DEF CallBacked, Backs
  <2>5. CASE v # w
    BY <1>1, <1>5, <2>3, <2>5 DEF CallBacked, Backs
  <2> QED BY <2>4, <2>5
<1>11. CallBacked(w, s)'
  <2>1. CallBacked(w, s)
    BY <1>2, <1>4
  <2>2. CASE mirror' = mirror /\ op'[w].failed = op[w].failed \cup {s}
    BY <1>1, <1>3, <1>4, <1>5, <2>1, <2>2 DEF CallBacked, Backs
  <2>3. CASE mirror' = [mirror EXCEPT ![s] = r] /\ op'[w].failed = op[w].failed
    <3>1. mirror'[s] = r
      BY <1>4, <2>3 DEF IndInv, TypeOK
    <3>2. s \notin op'[w].todo \cup op'[w].failed
      BY <1>4, <1>5, <2>3
    <3>3. CASE op[w].kind \in PersistKinds /\ r = RecordOf(op[w], s)
      <4>1. r # None
        <5>1. RecordOf(op[w], s) \in Record
          BY <1>4, <3>3, BoundsAssumption
          DEF RecordOf, Record, Lease, CallType, IndInv, TypeOK
        <5> QED BY <3>3, <5>1, NoneAssumption
      <4>2. r.addr = op[w].taken[s].addr /\ r.dev = op[w].taken[s].dev
        BY <3>3 DEF RecordOf
      <4>3. Backs(s, op[w].taken[s])'
        BY <1>5, <3>1, <4>1, <4>2 DEF Backs
      <4> QED BY <1>1, <1>5, <2>1, <3>2, <3>3, <4>3 DEF CallBacked
    <3>4. CASE op[w].kind \in DeleteKinds /\ r = None
      BY <1>1, <1>5, <2>1, <3>2, <3>4 DEF CallBacked
    <3> QED BY <1>3, <3>3, <3>4
  <2> QED BY <1>6, <2>2, <2>3
<1> QED BY <1>9, <1>10, <1>11

\* The first phases of reserve_at_time, commit_at_time and release_at.
LEMMA BeginJournal ==
  ASSUME IndInv, JournalOK, NEW w \in Workers, NEW s \in Sessions, NEW t,
         \/ \E d \in Devices : ReserveBegin(w, s, d, t)
         \/ CommitBegin(w, s, t) \/ ReleaseBegin(w, s, t)
  PROVE  JournalOK'
<1>1. /\ phase = "up" /\ op[w].kind = "idle" /\ {s} \cap inflight = {}
      /\ UNCHANGED <<phase, release_pending, mirror>>
  BY DEF ReserveBegin, CommitBegin, ReleaseBegin, Ready, store
<1> DEFINE taken(l) == [Empty EXCEPT ![s] = l]
<1>2. \A l : taken(l)[s] = l
  BY DEF Empty
<1>3. PICK kind, was, l :
        /\ kind \in ParkingKinds
        /\ kind = "reserve" \/ (l # None /\ l \in {active[s], pending[s]})
        /\ Park(w, kind, t, {s}, was, taken(l))
  <2>1. CASE \E d \in Devices : ReserveBegin(w, s, d, t)
    <3>1. \E l : Park(w, "reserve", t, {s}, {}, taken(l))
      BY <2>1 DEF ReserveBegin
    <3> HIDE DEF taken
    <3> QED BY <3>1
  <2>2. CASE CommitBegin(w, s, t)
    <3>1. \E kind \in {"expire", "promote"} :
            Park(w, kind, t, {s}, {s}, taken(pending[s]))
      BY <2>2 DEF CommitBegin
    <3>2. pending[s] # None
      BY <2>2 DEF CommitBegin
    <3> HIDE DEF taken
    <3> QED BY <3>1, <3>2
  <2>3. CASE ReleaseBegin(w, s, t)
    <3>1. \/ pending[s] # None /\ Park(w, "release", t, {s}, {s}, taken(pending[s]))
          \/ active[s] # None /\ Park(w, "release", t, {s}, {}, taken(active[s]))
      BY <2>3 DEF ReleaseBegin
    <3> HIDE DEF taken
    <3> QED BY <3>1
  <2> HIDE DEF taken
  <2> QED BY <2>1, <2>2, <2>3
<1>4. \A x \in Sessions :
        /\ active'[x] = IF x \in {s} THEN None ELSE active[x]
        /\ pending'[x] = IF x \in {s} THEN None ELSE pending[x]
  BY DEF ReserveBegin, MayReserve, CommitBegin, ReleaseBegin, IndInv, TypeOK, SingleHome
<1> DEFINE held == taken(l)
<1>5. Park(w, kind, t, {s}, was, held)
  BY <1>3
<1>6. \A x \in {s} : \/ kind = "reserve"
                     \/ held[x] # None /\ held[x] \in {active[x], pending[x]}
  BY <1>2, <1>3
<1> HIDE DEF taken, held
<1> QED BY <1>1, <1>3, <1>4, <1>5, <1>6, ParkJournal

\* sweep, phase 1.
LEMMA SweepBeginJournal ==
  ASSUME IndInv, JournalOK, NEW w \in Workers, NEW t, SweepBegin(w, t)
  PROVE  JournalOK'
<1> DEFINE p == Expired(pending, t)
           a == Expired(active, t)
           taken == [s \in Sessions |-> IF s \in p THEN pending[s]
                                        ELSE IF s \in a THEN active[s] ELSE None]
<1>1. /\ p \cup a \in SUBSET Sessions /\ (p \cup a) \cap inflight = {}
      /\ \A s \in p : pending[s] # None
      /\ \A s \in a : active[s] # None
      /\ phase = "up" /\ op[w].kind = "idle" /\ op[w].batch = {}
      /\ UNCHANGED <<phase, release_pending, mirror>>
  BY DEF Expired, Keys, SweepBegin, store, IndInv, CallsOK
<1>2. CASE p \cup a = {}
  <2>1. /\ op' = [op EXCEPT ![w] = AfterSweep(t)]
        /\ UNCHANGED <<active, pending, inflight>>
    BY <1>2 DEF SweepBegin
  <2>2. AfterSweep(t).batch = {}
    BY DEF AfterSweep, Idle
  <2> QED BY <1>1, <2>1, <2>2, VisitJournal
<1>3. CASE p \cup a # {}
  <2>1. /\ Park(w, "sweep", t, p \cup a, p, taken)
        /\ pending' = [s \in Sessions |-> IF s \in p THEN None ELSE pending[s]]
        /\ active' = [s \in Sessions |-> IF s \in a THEN None ELSE active[s]]
    BY <1>3 DEF SweepBegin
  <2>2. \A s \in p \cup a : taken[s] # None /\ taken[s] \in {active[s], pending[s]}
    BY <1>1
  <2> HIDE DEF p, a, taken
  <2>3. \A s \in Sessions :
           /\ active'[s] = IF s \in p \cup a THEN None ELSE active[s]
           /\ pending'[s] = IF s \in p \cup a THEN None ELSE pending[s]
    BY <1>1, <2>1 DEF IndInv, SingleHome
  <2> QED BY <1>1, <2>1, <2>2, <2>3, ParkJournal
<1> QED BY <1>2, <1>3

\* The phases that end a call which parked its leases.
LEMMA EndJournal ==
  ASSUME IndInv, JournalOK, NEW w \in Workers,
         \/ ReserveFinish(w) \/ PromoteFinish(w)
         \/ ExpireFinish(w) \/ ReleaseFinish(w) \/ SweepFinish(w)
  PROVE  JournalOK'
<1>1. /\ op[w].kind \in {"reserve", "promote", "expire", "release", "sweep"}
      /\ op[w].todo = {} /\ op[w] \in CallType
      /\ UNCHANGED <<phase, mirror>>
      /\ inflight' = inflight \ op[w].batch
  BY DEF ReserveFinish, PromoteFinish, ExpireFinish, ReleaseFinish, SweepFinish,
         DeleteFinish, Returns, Unpark, store, IndInv, TypeOK
<1>2. phase = "up" /\ op[w].failed \subseteq op[w].batch
  BY <1>1 DEF IndInv, CallsOK
<1>3. \A s \in op[w].batch :
        /\ s \in Sessions /\ op[w].taken[s] \in Lease
        /\ active[s] = None /\ pending[s] = None /\ release_pending[s] = None
  BY <1>1 DEF IndInv, SingleHome, CallsOK, Parked, CallType
<1>4. PICK next : next.batch = {} /\ op' = [op EXCEPT ![w] = next]
  BY DEF ReserveFinish, PromoteFinish, ExpireFinish, ReleaseFinish, SweepFinish,
         DeleteFinish, Idle, AfterSweep
<1>5. op'[w].batch = {} /\ \A v \in Workers : v # w => op'[v] = op[v]
  BY <1>4 DEF IndInv, TypeOK
<1>6. Durable => \A s \in op[w].batch :
        /\ op[w].kind = "promote" => Backs(s, op[w].taken[s])
        /\ op[w].kind = "reserve" /\ s \notin op[w].failed => Backs(s, op[w].taken[s])
        /\ op[w].kind \in {"expire", "release", "sweep"} /\ s \in op[w].failed =>
             Backs(s, op[w].taken[s])
  BY <1>1, <1>2 DEF JournalOK, CallBacked
<1>7. ASSUME Durable PROVE HandsBack(w)
  <2>1. CASE ReserveFinish(w)
    <3>1. /\ op[w].kind = "reserve" /\ UNCHANGED <<active, release_pending>>
          /\ pending' = [s \in Sessions |->
               IF s \in op[w].batch \ op[w].failed
                    /\ release_pending[s] = None /\ active[s] = None
               THEN op[w].taken[s] ELSE pending[s]]
      BY <2>1 DEF ReserveFinish, Returns
    <3> QED BY <1>3, <1>6, <1>7, <3>1 DEF HandsBack
  <2>2. CASE PromoteFinish(w)
    <3>1. /\ op[w].kind = "promote" /\ UNCHANGED release_pending
          /\ pending' = [s \in Sessions |->
               IF s \in op[w].failed THEN op[w].taken[s] ELSE pending[s]]
          /\ active' = [s \in Sessions |->
               IF s \in op[w].batch \ op[w].failed
                    /\ release_pending[s] = None /\ active[s] = None
               THEN [op[w].taken[s] EXCEPT !.exp = op[w].now + LeaseTTL]
               ELSE active[s]]
      BY <2>2 DEF PromoteFinish, Returns
    <3>2. \A s \in op[w].batch :
            Backs(s, [op[w].taken[s] EXCEPT !.exp = op[w].now + LeaseTTL])
      BY <1>3, <1>6, <1>7, <3>1 DEF Backs, Lease
    <3>3. \A s \in op[w].batch :
            /\ active'[s] # None => Backs(s, active'[s])
            /\ pending'[s] # None => Backs(s, pending'[s])
            /\ release_pending'[s] = None
      BY <1>3, <1>6, <1>7, <3>1, <3>2
    <3>4. \A s \in Sessions \ op[w].batch :
            /\ active'[s] = active[s] /\ pending'[s] = pending[s]
            /\ release_pending'[s] = release_pending[s]
      BY <1>2, <3>1
    <3> QED BY <3>3, <3>4 DEF HandsBack
  <2>3. CASE ExpireFinish(w) \/ ReleaseFinish(w) \/ SweepFinish(w)
    <3>1. PICK reserved, after : DeleteFinish(w, reserved, after)
      BY <2>3 DEF ExpireFinish, ReleaseFinish, SweepFinish
    <3>2. op[w].kind \in {"expire", "release", "sweep"}
      BY <2>3 DEF ExpireFinish, ReleaseFinish, SweepFinish, Returns
    <3> DEFINE queued == Room(op[w].failed)
               kept == op[w].failed \ queued
    <3>3. /\ release_pending' = [s \in Sessions |->
               IF s \in queued THEN Quarantine(op[w].taken[s], op[w].now)
                               ELSE release_pending[s]]
          /\ pending' = [s \in Sessions |->
               IF s \in kept \cap reserved THEN op[w].taken[s] ELSE pending[s]]
          /\ active' = [s \in Sessions |->
               IF s \in kept \ reserved THEN op[w].taken[s] ELSE active[s]]
      BY <3>1 DEF DeleteFinish
    <3>4. queued \subseteq op[w].failed
      BY DEF Room
    <3>5. \A s \in op[w].failed : /\ Backs(s, op[w].taken[s])
                                  /\ Backs(s, Quarantine(op[w].taken[s], op[w].now))
      BY <1>2, <1>6, <1>7, <3>2 DEF Backs, Quarantine
    <3> HIDE DEF queued
    <3>6. \A s \in op[w].batch :
            /\ active'[s] # None => Backs(s, active'[s])
            /\ pending'[s] # None => Backs(s, pending'[s])
            /\ release_pending'[s] # None => Backs(s, release_pending'[s])
      BY <1>3, <3>3, <3>4, <3>5
    <3>7. \A s \in Sessions \ op[w].batch :
            /\ active'[s] = active[s] /\ pending'[s] = pending[s]
            /\ release_pending'[s] = release_pending[s]
      BY <1>2, <3>3, <3>4
    <3> QED BY <3>6, <3>7 DEF HandsBack
  <2> QED BY <2>1, <2>2, <2>3
<1> QED BY <1>1, <1>2, <1>5, <1>7, FinishJournal

\* The first phases of a renewal and of a retry.
LEMMA VisitBeginJournal ==
  ASSUME IndInv, JournalOK, NEW w \in Workers,
         (\E s \in Sessions, t \in Nat : RenewBegin(w, s, t)) \/ RetryBegin(w)
  PROVE  JournalOK'
<1>1. CASE \E s \in Sessions, t \in Nat : RenewBegin(w, s, t)
  <2>1. PICK s \in Sessions, t \in Nat : RenewBegin(w, s, t)
    BY <1>1
  <2> DEFINE taken == [Empty EXCEPT ![s] = active[s]]
             next == Call("renew", t, {s}, {}, taken)
  <2>2. /\ phase = "up" /\ s \notin inflight /\ active[s] # None
        /\ op' = [op EXCEPT ![w] = next] /\ inflight' = inflight \cup {s}
        /\ UNCHANGED <<phase, active, pending, release_pending, mirror>>
        /\ op[w].kind = "idle"
    BY <2>1 DEF RenewBegin, Ready, store
  <2>3. op[w].batch = {}
    BY <2>2 DEF IndInv, CallsOK
  <2>4. /\ next.batch = {s} /\ next.todo = {s} /\ next.failed = {}
        /\ next.kind = "renew" /\ next.taken[s] = active[s]
    BY DEF Call, Empty
  <2> HIDE DEF next
  <2>5. op'[w] = next
    BY <2>2 DEF IndInv, TypeOK
  <2>6. ASSUME Durable PROVE CallBacked(w, s)'
    <3>1. Backs(s, active[s])'
      BY <2>2, <2>6 DEF JournalOK, Backed, Backs, Keys
    <3> QED BY <2>2, <2>4, <2>5, <3>1 DEF CallBacked, Backs
  <2> QED BY <2>2, <2>3, <2>4, <2>6, VisitJournal
<1>2. CASE RetryBegin(w)
  <2>1. PICK batch \in SUBSET Sessions :
          /\ \A s \in batch : release_pending[s] # None /\ s \notin inflight
          /\ inflight' = inflight \cup batch
          /\ op' = [op EXCEPT ![w] =
                      IF batch = {} THEN Idle
                      ELSE Call("retry", op[w].now, batch, {}, Empty)]
    BY <1>2, RetryBatch
  <2>2. /\ phase = "up" /\ op[w].batch = {}
        /\ UNCHANGED <<phase, active, pending, release_pending, mirror>>
    BY <1>2 DEF RetryBegin, store, IndInv, CallsOK
  <2> DEFINE next == IF batch = {} THEN Idle
                     ELSE Call("retry", op[w].now, batch, {}, Empty)
  <2>3. /\ next.batch = batch
        /\ batch # {} =>
             next.kind = "retry" /\ next.todo = batch /\ next.failed = {}
    BY DEF Idle, Call
  <2>4. op' = [op EXCEPT ![w] = next]
    BY <2>1
  <2> HIDE DEF next
  <2>5. op'[w] = next
    BY <2>4 DEF IndInv, TypeOK
  <2>6. ASSUME Durable, NEW s \in batch PROVE CallBacked(w, s)'
    <3>1. Backs(s, release_pending[s])'
      BY <2>1, <2>2, <2>6 DEF JournalOK, Backed, Backs, Keys
    <3> QED BY <2>2, <2>3, <2>5, <2>6, <3>1 DEF CallBacked, Backs
  <2> QED BY <2>1, <2>2, <2>3, <2>4, <2>6, VisitJournal
<1> QED BY <1>1, <1>2

\* The last phases of a renewal and of a retry.
LEMMA VisitEndJournal ==
  ASSUME IndInv, JournalOK, NEW w \in Workers, RenewFinish(w) \/ RetryFinish(w)
  PROVE  JournalOK'
<1>1. /\ op' = [op EXCEPT ![w] = Idle] /\ inflight' = inflight \ op[w].batch
      /\ op[w].kind \in {"renew", "retry"} /\ op[w].todo = {}
      /\ UNCHANGED <<phase, pending, mirror>>
  BY DEF RenewFinish, RetryFinish, Returns, store
<1>2. /\ phase = "up" /\ op'[w] = Idle /\ op'[w].batch = {}
      /\ \A v \in Workers : v # w => op'[v] = op[v]
  BY <1>1 DEF IndInv, CallsOK, TypeOK, Idle
<1>3. Durable => \A s \in op[w].batch : CallBacked(w, s)
  BY <1>2 DEF JournalOK
<1>4. op[w].batch \subseteq Sessions /\ op[w].failed \subseteq op[w].batch
  BY DEF IndInv, TypeOK, CallType, CallsOK
<1>5. ASSUME Durable PROVE HandsBack(w)
  <2>1. CASE RenewFinish(w)
    <3>1. /\ op[w].kind = "renew" /\ UNCHANGED release_pending
          /\ active' = [s \in Sessions |->
               IF /\ s \in op[w].batch \ op[w].failed
                  /\ active[s] # None
                  /\ active[s].dev = op[w].taken[s].dev
                  /\ active[s].addr = op[w].taken[s].addr
               THEN [active[s] EXCEPT !.exp = op[w].now + LeaseTTL]
               ELSE active[s]]
      BY <2>1 DEF RenewFinish, Returns
    <3>2. \A s \in op[w].batch :
            /\ active[s] \in Lease /\ pending[s] = None /\ release_pending[s] = None
      BY <1>4, <3>1 DEF IndInv, TypeOK, CallsOK, SingleHome
    <3>3. \A s \in op[w].batch : Backs(s, active[s])
      BY <1>3, <1>5, <3>1 DEF CallBacked, Backs
    <3>4. \A s \in op[w].batch :
            Backs(s, [active[s] EXCEPT !.exp = op[w].now + LeaseTTL])
      BY <3>2, <3>3 DEF Backs, Lease
    <3>5. \A s \in op[w].batch : Backs(s, active'[s])
      BY <1>4, <3>1, <3>3, <3>4
    <3>6. \A s \in op[w].batch : pending'[s] = None /\ release_pending'[s] = None
      BY <1>1, <3>1, <3>2
    <3>7. \A s \in Sessions \ op[w].batch : active'[s] = active[s]
      BY <3>1
    <3> QED BY <1>1, <3>1, <3>5, <3>6, <3>7 DEF HandsBack
  <2>2. CASE RetryFinish(w)
    <3>1. /\ op[w].kind = "retry" /\ UNCHANGED active
          /\ release_pending' = [s \in Sessions |->
               IF s \in op[w].failed /\ release_pending[s] # None
               THEN [release_pending[s] EXCEPT
                       !.attempts = OneMore(@),
                       !.next = NextRetryDeadline(op[w].now,
                                  OneMore(release_pending[s].attempts))]
               ELSE IF s \in op[w].batch \ op[w].failed THEN None
               ELSE release_pending[s]]
      BY <2>2 DEF RetryFinish, Returns
    <3>2. \A s \in op[w].batch :
            release_pending[s] \in Quarantined /\ active[s] = None /\ pending[s] = None
      <4>1. \A s \in op[w].batch : release_pending[s] # None
        BY <3>1 DEF IndInv, CallsOK
      <4> QED BY <1>4, <4>1 DEF IndInv, TypeOK, SingleHome
    <3>3. \A s \in op[w].failed : Backs(s, release_pending[s])
      BY <1>3, <1>4, <1>5, <3>1 DEF CallBacked
    <3>4. \A q \in Quarantined : \A n, m :
            LET r == [q EXCEPT !.attempts = n, !.next = m]
            IN r.addr = q.addr /\ r.dev = q.dev
      BY DEF Quarantined
    <3>5. ASSUME NEW s \in op[w].batch, release_pending'[s] # None
          PROVE  Backs(s, release_pending'[s])
      <4>1. s \in op[w].failed /\ Backs(s, release_pending[s])
        BY <1>4, <3>1, <3>3, <3>5
      <4> DEFINE q == release_pending[s]
                 n == OneMore(q.attempts)
                 m == NextRetryDeadline(op[w].now, n)
      <4>2. release_pending'[s] = [q EXCEPT !.attempts = n, !.next = m]
        BY <1>4, <3>1, <3>2, <4>1, NoneAssumption
      <4> HIDE DEF n, m
      <4>3. release_pending'[s].addr = q.addr /\ release_pending'[s].dev = q.dev
        BY <3>2, <3>4, <4>2
      <4> QED BY <4>1, <4>3 DEF Backs
    <3>6. \A s \in Sessions \ op[w].batch : release_pending'[s] = release_pending[s]
      BY <1>4, <3>1
    <3>7. \A s \in op[w].batch : active'[s] = None /\ pending'[s] = None
      BY <1>1, <3>1, <3>2
    <3> QED BY <1>1, <3>1, <3>5, <3>6, <3>7 DEF HandsBack
  <2> QED BY <2>1, <2>2
<1> QED BY <1>1, <1>2, <1>5, FinishJournal

\* What changes the maps without the journal: an expired reservation that is
\* dropped, a release that is deferred, and the clock.
LEMMA PlainJournal ==
  ASSUME IndInv, JournalOK,
         \/ \E w \in Workers, s \in Sessions, d \in Devices, t \in Nat :
              ReserveExhausted(w, s, d, t)
         \/ \E s \in Sessions : ReleaseDeferred(s)
         \/ Tick \/ UNCHANGED vars
  PROVE  JournalOK'
<1>1. UNCHANGED <<phase, inflight, op, mirror>>
  BY DEF ReserveExhausted, ReleaseDeferred, Tick, vars, inner, calls, store
<1> SUFFICES ASSUME Durable, phase # "down"
             PROVE  /\ Backed(active)' /\ Backed(pending)' /\ Backed(release_pending)'
                    /\ \A v \in Workers : \A s \in op'[v].batch : CallBacked(v, s)'
  BY <1>1 DEF JournalOK
<1>2. /\ Backed(active) /\ Backed(pending) /\ Backed(release_pending)
      /\ \A v \in Workers : \A s \in op[v].batch : CallBacked(v, s)
  BY DEF JournalOK
<1>3. ASSUME NEW s \in Sessions, s \in inflight
      PROVE  active'[s] = active[s] /\ release_pending'[s] = release_pending[s]
  <2>1. CASE \E x \in Sessions : ReleaseDeferred(x)
    <3>1. PICK x \in Sessions : ReleaseDeferred(x)
      BY <2>1
    <3>2. x # s
      BY <1>3, <3>1 DEF ReleaseDeferred
    <3> QED BY <3>1, <3>2 DEF ReleaseDeferred, IndInv, TypeOK
  <2>2. CASE ~\E x \in Sessions : ReleaseDeferred(x)
    BY <2>2 DEF ReserveExhausted, Tick, vars, inner
  <2> QED BY <2>1, <2>2
<1>4. ASSUME NEW v \in Workers, NEW s \in op'[v].batch
      PROVE  CallBacked(v, s)'
  <2>1. s \in Sessions /\ s \in inflight
    BY <1>1, <1>4 DEF IndInv, SingleHome, TypeOK, CallType
  <2> QED BY <1>1, <1>2, <1>3, <1>4, <2>1 DEF CallBacked, Backs
<1>5. Backed(active)' /\ Backed(pending)' /\ Backed(release_pending)'
  <2>1. CASE Tick \/ UNCHANGED vars
    BY <1>1, <1>2, <2>1 DEF Tick, vars, inner, Backed, Backs, Keys
  <2>2. ASSUME NEW s \in Sessions, pending' = [pending EXCEPT ![s] = None],
               UNCHANGED <<active, release_pending>>
        PROVE  Backed(active)' /\ Backed(pending)' /\ Backed(release_pending)'
    <3>1. \A x \in Sessions : pending'[x] # None => pending'[x] = pending[x]
      BY <2>2 DEF IndInv, TypeOK
    <3> QED BY <1>1, <1>2, <2>2, <3>1 DEF Backed, Backs, Keys
  <2>3. CASE \E w \in Workers, s \in Sessions, d \in Devices, t \in Nat :
               ReserveExhausted(w, s, d, t)
    BY <2>2, <2>3 DEF ReserveExhausted
  <2>4. ASSUME NEW s \in Sessions, ReleaseDeferred(s)
        PROVE  Backed(active)' /\ Backed(pending)' /\ Backed(release_pending)'
    <3> DEFINE l == IF pending[s] # None THEN pending[s] ELSE active[s]
               q == Quarantine(l, 0)
    <3>1. /\ \/ release_pending' = [release_pending EXCEPT ![s] = q]
             \/ release_pending' = release_pending
          /\ \E m \in {None, l} : active' = [active EXCEPT ![s] = m]
          /\ pending' = [pending EXCEPT ![s] = None]
          /\ s \notin inflight
      BY <2>4 DEF ReleaseDeferred
    <3>2. l \in {active[s], pending[s]} \ {None}
      BY <2>4 DEF ReleaseDeferred
    <3>3. Backs(s, l)
      <4> HIDE DEF l
      <4> QED BY <1>2, <3>1, <3>2 DEF Backed, Keys
    <3>4. Backs(s, q)
      BY <3>3 DEF Backs, Quarantine
    <3> HIDE DEF l, q
    <3>5. \A x \in Sessions :
            /\ \/ release_pending'[x] = release_pending[x]
               \/ (x = s /\ release_pending'[x] = q)
            /\ \/ active'[x] = active[x]
               \/ (x = s /\ active'[x] \in {None, l})
            /\ pending'[x] \in {pending[x], None}
      BY <3>1 DEF IndInv, TypeOK
    <3>6. Backed(active)'
      BY <1>1, <1>2, <3>3, <3>5 DEF Backed, Backs, Keys
    <3>7. Backed(release_pending)'
      BY <1>1, <1>2, <3>4, <3>5 DEF Backed, Backs, Keys
    <3>8. Backed(pending)'
      BY <1>1, <1>2, <3>5 DEF Backed, Backs, Keys
    <3> QED BY <3>6, <3>7, <3>8
  <2> QED BY <2>1, <2>3, <2>4
<1> QED BY <1>4, <1>5

\* A start restores a lease only with its record, and deletes no other record.
LEMMA RecoveryJournal ==
  ASSUME IndInv, JournalOK,
         \/ \E now \in BootTimes : Recover(now)
         \/ \E s \in Sessions : RecoverDelete(s)
         \/ RecoverDone
  PROVE  JournalOK'
<1>1. phase # "up" /\ UNCHANGED <<inflight, op>>
  BY DEF Recover, RecoverDelete, RecoverDone, inner, calls
<1>2. inflight' = {} /\ \A v \in Workers : op'[v].batch = {}
  BY <1>1, Quiet
<1> SUFFICES ASSUME Durable, phase' # "down"
             PROVE  Backed(active)' /\ Backed(pending)' /\ Backed(release_pending)'
  BY <1>2 DEF JournalOK
<1>3. ASSUME NEW now \in BootTimes, Recover(now)
      PROVE  Backed(active)' /\ Backed(pending)' /\ Backed(release_pending)'
  <2> DEFINE lease(s) == [dev |-> file[s].dev, addr |-> file[s].addr,
                          exp |-> file[s].exp - now]
             kept == Restored(now)
  <2>1. /\ mirror' = file /\ UNCHANGED release_pending
        /\ pending' = [s \in Sessions |->
             IF s \in kept /\ file[s].state = "Reserved" THEN lease(s) ELSE None]
        /\ active' = [s \in Sessions |->
             IF s \in kept /\ file[s].state = "Active" THEN lease(s) ELSE None]
    BY <1>3 DEF Recover
  <2>2. \A s \in kept : file[s] # None
    BY DEF Restored, Keys
  <2>3. \A s \in Sessions : /\ lease(s).dev = file[s].dev
                            /\ lease(s).addr = file[s].addr
    OBVIOUS
  <2> HIDE DEF kept, lease
  <2> QED BY <1>1, <2>1, <2>2, <2>3, Quiet DEF Backed, Backs, Keys
<1>4. ASSUME NEW s \in Sessions, RecoverDelete(s)
      PROVE  Backed(active)' /\ Backed(pending)' /\ Backed(release_pending)'
  <2>1. /\ s \in stale /\ mirror' \in {mirror, [mirror EXCEPT ![s] = None]}
        /\ UNCHANGED <<phase, active, pending, release_pending>>
    BY <1>4 DEF RecoverDelete, inner
  <2>2. \A x \in Sessions : x # s => mirror'[x] = mirror[x]
    BY <2>1 DEF IndInv, TypeOK
  <2>3. active[s] = None /\ pending[s] = None
    BY <2>1 DEF IndInv, RecoveryOK
  <2>4. Backed(active) /\ Backed(pending) /\ inflight = {}
    BY <1>1, <2>1, Quiet DEF JournalOK
  <2> QED BY <1>1, <2>1, <2>2, <2>3, <2>4, Quiet DEF Backed, Backs, Keys
<1>5. CASE RecoverDone
  <2>1. Room(stale_failed) = stale_failed
    BY <1>5 DEF RecoverDone
  <2>2. /\ phase = "recovering" /\ UNCHANGED <<active, pending, mirror>>
        /\ release_pending' = [s \in Sessions |->
             IF s \in stale_failed THEN Quarantine(mirror[s], mono)
                                   ELSE release_pending[s]]
    BY <1>5, <2>1 DEF RecoverDone
  <2>3. Backed(active) /\ Backed(pending) /\ inflight = {}
    BY <1>1, <2>2, Quiet DEF JournalOK
  <2>4. \A s \in stale_failed : Backs(s, Quarantine(mirror[s], mono))
    BY DEF IndInv, RecoveryOK, Backs, Quarantine
  <2>5. \A s \in Sessions :
          release_pending'[s] # None => Backs(s, release_pending'[s])
    BY <1>1, <2>2, <2>4, Quiet
  <2> QED BY <1>1, <2>2, <2>3, <2>5 DEF Backed, Backs, Keys
<1> QED BY <1>3, <1>4, <1>5

\* One step per group of actions.
LEMMA NextJournal ==
  ASSUME IndInv, JournalOK, [Next]_vars
  PROVE  JournalOK'
<1>1. Captured \subseteq Nat
  BY CapturedType DEF IndInv
<1>2. ASSUME NEW w \in Workers, Begin(w) PROVE JournalOK'
  BY <1>1, <1>2, BeginJournal, SweepBeginJournal, VisitBeginJournal, PlainJournal
  DEF Begin
<1>3. ASSUME NEW w \in Workers, Continue(w) PROVE JournalOK'
  BY <1>3, StoreJournal, EndJournal, VisitBeginJournal, VisitEndJournal DEF Continue
<1>4. CASE Crash
  BY <1>4 DEF Crash, JournalOK
<1>5. CASE \/ \E now \in BootTimes : Recover(now)
           \/ \E s \in Sessions : RecoverDelete(s)
           \/ RecoverDone
  BY <1>5, RecoveryJournal
<1>6. CASE Tick \/ UNCHANGED vars \/ \E s \in Sessions : ReleaseDeferred(s)
  BY <1>6, PlainJournal
<1> QED BY <1>2, <1>3, <1>4, <1>5, <1>6 DEF Next

\* A durable pool that is up has, for every lease no call is busy with, a record
\* with the same owner and address, whichever writes failed and wherever the
\* process crashed before.
THEOREM Durably == Spec => []DurablyBacked
<1>1. Init => JournalOK
  BY DEF Init, JournalOK
<1>2. IndInv /\ JournalOK /\ [Next]_vars => JournalOK'
  BY NextJournal
<1>3. JournalOK => DurablyBacked
  BY DEF JournalOK, DurablyBacked
<1> QED BY <1>1, <1>2, <1>3, Inductive, PTL DEF Spec

-----------------------------------------------------------------------------
\* The retry FIFO.  RetryOK is inductive under IndInv: what leaves the queue is
\* what a retry parks, and what comes back or is quarantined was in neither.

\* Two queues one after the other.
LEMMA ListsBoth ==
  ASSUME NEW q \in Seq(Sessions), NEW r \in Seq(Sessions),
         NEW S, NEW T, \A s \in Sessions : ~(s \in S /\ s \in T),
         Lists(q, S), Lists(r, T)
  PROVE  q \o r \in Seq(Sessions) /\ Lists(q \o r, S \cup T)
<1> DEFINE u == q \o r
<1>1. /\ Len(q) \in Nat /\ Len(r) \in Nat /\ Len(u) = Len(q) + Len(r)
      /\ u \in Seq(Sessions)
      /\ \A i \in 1 .. Len(q) : u[i] = q[i]
      /\ \A i \in 1 .. Len(r) : u[Len(q) + i] = r[i]
  OBVIOUS
<1>2. ASSUME NEW i \in 1 .. Len(u)
      PROVE  \/ i \in 1 .. Len(q) /\ u[i] = q[i] /\ u[i] \in S
             \/ i - Len(q) \in 1 .. Len(r) /\ u[i] = r[i - Len(q)] /\ u[i] \in T
  <2>1. CASE i <= Len(q)
    <3>1. i \in 1 .. Len(q) /\ u[i] = q[i] /\ q[i] \in Sessions
      BY <1>1, <2>1
    <3> QED BY <3>1 DEF Lists
  <2>2. CASE ~(i <= Len(q))
    <3>1. i - Len(q) \in 1 .. Len(r) /\ i = Len(q) + (i - Len(q))
      BY <1>1, <2>2
    <3>2. u[i] = r[i - Len(q)] /\ r[i - Len(q)] \in Sessions
      BY <1>1, <3>1
    <3> QED BY <3>1, <3>2 DEF Lists
  <2> QED BY <2>1, <2>2
<1> HIDE DEF u
<1>3. ASSUME NEW i \in 1 .. Len(u), NEW j \in 1 .. Len(u), u[i] = u[j]
      PROVE  i = j
  <2>1. u[i] \in Sessions
    BY <1>1
  <2>2. CASE i \in 1 .. Len(q) /\ j \in 1 .. Len(q)
    BY <1>1, <1>3, <2>2 DEF Lists
  <2>3. CASE i - Len(q) \in 1 .. Len(r) /\ j - Len(q) \in 1 .. Len(r)
    <3>1. r[i - Len(q)] = r[j - Len(q)]
      <4>1. i = Len(q) + (i - Len(q)) /\ j = Len(q) + (j - Len(q))
        BY <1>1
      <4> QED BY <1>1, <1>3, <2>3, <4>1
    <3>2. i - Len(q) = j - Len(q)
      BY <2>3, <3>1 DEF Lists
    <3> QED BY <1>1, <3>2
  <2> QED BY <1>2, <1>3, <2>1, <2>2, <2>3
<1>4. ASSUME NEW s \in Sessions, s \in S \cup T
      PROVE  \E i \in 1 .. Len(u) : u[i] = s
  <2>1. CASE s \in S
    <3>1. PICK i \in 1 .. Len(q) : q[i] = s
      BY <2>1 DEF Lists
    <3>2. i \in 1 .. Len(u)
      BY <1>1
    <3> QED BY <1>1, <3>1, <3>2
  <2>2. CASE s \in T
    <3>1. PICK i \in 1 .. Len(r) : r[i] = s
      BY <2>2 DEF Lists
    <3>2. Len(q) + i \in 1 .. Len(u)
      BY <1>1
    <3> QED BY <1>1, <3>1, <3>2
  <2> QED BY <1>4, <2>1, <2>2
<1>5. Lists(u, S \cup T)
  BY <1>2, <1>3, <1>4 DEF Lists
<1> QED BY <1>1, <1>5 DEF u

\* retain on a queue.
LEMMA ListsKept ==
  ASSUME NEW q \in Seq(Sessions), NEW S, NEW T, Lists(q, S)
  PROVE  LET k == Kept(q, {i \in DOMAIN q : q[i] \in T})
         IN  k \in Seq(Sessions) /\ Lists(k, S \cap T)
<1> DEFINE P == {i \in DOMAIN q : q[i] \in T}
           k == Kept(q, P)
<1>1. P \in SUBSET (1 .. Len(q)) /\ \A i \in P : q[i] \in T /\ q[i] \in Sessions
  OBVIOUS
<1>2. \A i \in 1 .. Len(q) : q[i] \in T => i \in P
  OBVIOUS
<1> HIDE DEF P
<1>3. /\ k \in Seq(Sessions)
      /\ \A j \in 1 .. Len(k) : \E i \in P : k[j] = q[i]
      /\ \A i \in P : \E j \in 1 .. Len(k) : k[j] = q[i]
      /\ (\A i, j \in 1 .. Len(q) : q[i] = q[j] => i = j) =>
           \A i, j \in 1 .. Len(k) : k[i] = k[j] => i = j
  BY <1>1, Retained
<1> HIDE DEF k
<1>4. \A i, j \in 1 .. Len(k) : k[i] = k[j] => i = j
  BY <1>3 DEF Lists
<1>5. ASSUME NEW s \in Sessions, s \in S \cap T
      PROVE  \E j \in 1 .. Len(k) : k[j] = s
  BY <1>2, <1>3, <1>5 DEF Lists
<1>6. ASSUME NEW j \in 1 .. Len(k), NEW s \in Sessions, k[j] = s
      PROVE  s \in S \cap T
  <2>1. PICK i \in P : k[j] = q[i]
    BY <1>3
  <2> QED BY <1>1, <1>6, <2>1 DEF Lists
<1>7. Lists(k, S \cap T)
  BY <1>4, <1>5, <1>6 DEF Lists
<1> QED BY <1>3, <1>7 DEF k, P

\* A batch in session order.
LEMMA ListsOrder ==
  ASSUME NEW S \in SUBSET Sessions
  PROVE  InOrder(S) \in Seq(Sessions) /\ Lists(InOrder(S), S)
<1>1. S \in SUBSET Nat /\ IsFiniteSet(S)
  BY SetsAssumption, FS_Subset
<1>2. /\ Cardinality(S) \in Nat
      /\ InOrder(S) \in [1..Cardinality(S) -> S]
      /\ \A s \in S : \E k \in 1..Cardinality(S) : InOrder(S)[k] = s
      /\ \A j, k \in 1..Cardinality(S) : InOrder(S)[j] = InOrder(S)[k] => j = k
  BY <1>1, ListedOnce
<1>3. InOrder(S) \in Seq(Sessions) /\ Len(InOrder(S)) = Cardinality(S)
  BY <1>2
<1> QED BY <1>2, <1>3 DEF Lists

\* The head of a queue.
LEMMA ListsHead ==
  ASSUME NEW q \in Seq(Sessions), NEW S, Lists(q, S), NEW n \in 0 .. Len(q)
  PROVE  LET h == SubSeq(q, 1, n)
         IN  /\ h \in Seq(Sessions) /\ Len(h) = n
             /\ Lists(h, {s \in Sessions : \E i \in 1 .. n : h[i] = s})
             /\ \A i \in 1 .. n : h[i] \in S
<1> DEFINE h == SubSeq(q, 1, n)
<1>1. /\ h \in Seq(Sessions) /\ Len(h) = n
      /\ \A i \in 1 .. n : i \in 1 .. Len(q) /\ h[i] = q[i] /\ q[i] \in Sessions
  OBVIOUS
<1> HIDE DEF h
<1>2. \A i, j \in 1 .. n : h[i] = h[j] => i = j
  BY <1>1 DEF Lists
<1>3. \A i \in 1 .. n : h[i] \in S
  BY <1>1 DEF Lists
<1>4. Lists(h, {s \in Sessions : \E i \in 1 .. n : h[i] = s})
  BY <1>1, <1>2 DEF Lists
<1> QED BY <1>1, <1>3, <1>4 DEF h

\* An empty queue.
LEMMA ListsNone == <<>> \in Seq(Sessions) /\ Lists(<<>>, {})
BY DEF Lists

\* A queue lists a set by its members only.
LEMMA ListsSame ==
  ASSUME NEW q, NEW S, NEW T, Lists(q, S), \A s \in Sessions : s \in S <=> s \in T
  PROVE  Lists(q, T)
BY DEF Lists

\* A step that leaves the queues, the quarantined sessions and the retries alone.
LEMMA QueuesKept ==
  ASSUME RetryOK, UNCHANGED <<release_order, retry_seq>>,
         \A s \in Sessions : release_pending'[s] # None <=> release_pending[s] # None,
         \A v \in Workers : Retrying(v)' = Retrying(v)
  PROVE  RetryOK'
<1>1. \A s \in Sessions : s \in Waiting <=> s \in Waiting'
  BY DEF Waiting, Keys
<1>2. Lists(release_order', Waiting')
  BY <1>1, ListsSame DEF RetryOK
<1> QED BY <1>2 DEF RetryOK

\* A call that is no retry, before and after the step.
LEMMA OtherCall ==
  ASSUME TypeOK, NEW w \in Workers, NEW c, op' = [op EXCEPT ![w] = c],
         op[w].kind # "retry", c.kind # "retry"
  PROVE  \A v \in Workers : Retrying(v)' = Retrying(v)
<1>1. ASSUME NEW v \in Workers PROVE Retrying(v)' = Retrying(v)
  <2>1. CASE v = w
    BY <2>1 DEF Retrying, TypeOK
  <2>2. CASE v # w
    BY <2>2 DEF Retrying, TypeOK
  <2> QED BY <2>1, <2>2
<1> QED BY <1>1

\* Only the sweep's last part and release_deferred touch the queues.
LEMMA BeginRetry ==
  ASSUME IndInv, RetryOK, NEW w \in Workers, NEW s, NEW t,
         \/ \E d \in Devices : ReserveBegin(w, s, d, t) \/ ReserveExhausted(w, s, d, t)
         \/ CommitBegin(w, s, t)
         \/ RenewBegin(w, s, t)
         \/ ReleaseBegin(w, s, t)
         \/ SweepBegin(w, t)
  PROVE  RetryOK'
<1>1. /\ UNCHANGED <<release_order, retry_seq, release_pending>>
      /\ op[w].kind = "idle"
  BY DEF ReserveBegin, ReserveExhausted, CommitBegin, RenewBegin, ReleaseBegin,
         SweepBegin, Ready, Park, calls
<1>2. CASE op' = op
  BY <1>1, <1>2, QueuesKept DEF Retrying
<1>3. ASSUME NEW kind \in Kinds \ {"retry"}, NEW batch, NEW was, NEW taken,
             op' = [op EXCEPT ![w] = Call(kind, t, batch, was, taken)]
      PROVE  RetryOK'
  <2>1. Call(kind, t, batch, was, taken).kind # "retry"
    BY DEF Call
  <2> QED BY <1>1, <1>3, <2>1, OtherCall, QueuesKept DEF IndInv
<1>4. CASE op' = [op EXCEPT ![w] = AfterSweep(t)]
  <2>1. AfterSweep(t).kind # "retry"
    BY DEF AfterSweep, Idle
  <2> QED BY <1>1, <1>4, <2>1, OtherCall, QueuesKept DEF IndInv
<1>5. ASSUME NEW d \in Devices, ReserveBegin(w, s, d, t) \/ ReserveExhausted(w, s, d, t)
      PROVE  RetryOK'
  <2>1. CASE ReserveExhausted(w, s, d, t)
    BY <1>2, <2>1 DEF ReserveExhausted, calls
  <2>2. CASE ReserveBegin(w, s, d, t)
    BY <1>3, <2>2 DEF ReserveBegin, Park
  <2> QED BY <1>5, <2>1, <2>2
<1>6. CASE CommitBegin(w, s, t)
  <2>1. CASE t >= pending[s].exp
    BY <1>3, <1>6, <2>1 DEF CommitBegin, Park
  <2>2. CASE ~(t >= pending[s].exp)
    BY <1>3, <1>6, <2>2 DEF CommitBegin, Park
  <2> QED BY <2>1, <2>2
<1>7. CASE RenewBegin(w, s, t)
  BY <1>3, <1>7 DEF RenewBegin
<1>8. CASE ReleaseBegin(w, s, t)
  BY <1>3, <1>8 DEF ReleaseBegin, Park
<1>9. CASE SweepBegin(w, t)
  BY <1>3, <1>4, <1>9 DEF SweepBegin, Park
<1> QED BY <1>5, <1>6, <1>7, <1>8, <1>9

\* Store operations and the ends of the persisting calls leave the queues alone.
LEMMA ContinueRetry ==
  ASSUME IndInv, RetryOK, NEW w \in Workers,
         \/ StorePersist(w) \/ StoreRelease(w)
         \/ ReserveFinish(w) \/ PromoteFinish(w) \/ RenewFinish(w)
  PROVE  RetryOK'
<1>1. UNCHANGED <<release_order, retry_seq, release_pending>>
  BY DEF StorePersist, StoreRelease, ReserveFinish, PromoteFinish, RenewFinish, inner
<1>2. CASE StorePersist(w) \/ StoreRelease(w)
  <2>1. op \in [Workers -> CallType]
    BY DEF IndInv, TypeOK
  <2>2. \E new, s : JournalWrite(new, w, s)
    BY <1>2 DEF StorePersist, StoreRelease
  <2>3. \A v \in Workers : op'[v].kind = op[v].kind /\ op'[v].batch = op[v].batch
    BY <2>1, <2>2 DEF JournalWrite, CallType
  <2> QED BY <1>1, <2>3, QueuesKept DEF Retrying
<1>3. CASE ReserveFinish(w) \/ PromoteFinish(w) \/ RenewFinish(w)
  <2>1. op' = [op EXCEPT ![w] = Idle] /\ op[w].kind # "retry" /\ Idle.kind # "retry"
    BY <1>3 DEF ReserveFinish, PromoteFinish, RenewFinish, Returns, Idle
  <2> QED BY <1>1, <2>1, OtherCall, QueuesKept DEF IndInv
<1> QED BY <1>2, <1>3

\* enqueue_release_locked at the end of a delete: the failed sessions that fit go
\* to the end of the FIFO, and no retry had them.
LEMMA DeleteFinishRetry ==
  ASSUME IndInv, RetryOK, NEW w \in Workers,
         op[w].kind \in {"expire", "release", "sweep"},
         NEW reserved, NEW next, next.kind # "retry",
         DeleteFinish(w, reserved, next)
  PROVE  RetryOK'
<1> DEFINE queued == Room(op[w].failed)
<1>1. /\ release_pending' = [s \in Sessions |->
           IF s \in queued THEN Quarantine(op[w].taken[s], op[w].now)
                           ELSE release_pending[s]]
      /\ release_order' = release_order \o InOrder(queued)
      /\ op' = [op EXCEPT ![w] = next] /\ retry_seq' = retry_seq
  BY DEF DeleteFinish
<1>2. op[w] \in CallType /\ op[w].failed \subseteq op[w].batch
  BY DEF IndInv, TypeOK, CallsOK
<1>3. queued \in SUBSET Sessions /\ queued \subseteq op[w].batch
  BY <1>2 DEF Room, CallType
<1> HIDE DEF queued
<1>4. \A v \in Workers : Retrying(v)' = Retrying(v)
  BY <1>1, OtherCall DEF IndInv
<1>5. ASSUME NEW s \in queued
      PROVE  release_pending[s] = None /\ release_pending'[s] # None
  <2>1. s \in Sessions /\ s \in op[w].batch /\ s \in Parked(w)
    BY <1>3 DEF Parked
  <2>2. release_pending[s] = None
    BY <2>1 DEF IndInv, SingleHome
  <2>3. op[w].taken[s] \in Lease /\ op[w].now \in Nat
    BY <1>2, <2>1 DEF IndInv, CallsOK, CallType
  <2>4. Quarantine(op[w].taken[s], op[w].now) \in Quarantined
    BY <2>3, QuarantineType
  <2>5. release_pending'[s] = Quarantine(op[w].taken[s], op[w].now)
    BY <1>1, <2>1
  <2> QED BY <2>2, <2>4, <2>5, NoneAssumption
<1>6. \A v \in Workers : \A s \in Retrying(v) : release_pending[s] # None
  BY DEF Retrying, IndInv, CallsOK
<1>7. \A s \in Sessions : s \in Waiting \cup queued <=> s \in Waiting'
  BY <1>1, <1>4, <1>5, <1>6 DEF Waiting, Keys
<1>8. \A s \in Sessions : ~(s \in Waiting /\ s \in queued)
  BY <1>5 DEF Waiting, Keys
<1>9. release_order' \in Seq(Sessions) /\ Lists(release_order', Waiting \cup queued)
  BY <1>1, <1>3, <1>8, ListsOrder, ListsBoth DEF RetryOK
<1>10. Lists(release_order', Waiting')
  BY <1>7, <1>9, ListsSame
<1> QED BY <1>1, <1>4, <1>9, <1>10 DEF RetryOK

\* The end of a delete, and session cleanup.
LEMMA QuarantineRetry ==
  ASSUME IndInv, RetryOK,
         \/ \E w \in Workers : ExpireFinish(w) \/ ReleaseFinish(w) \/ SweepFinish(w)
         \/ \E s \in Sessions : ReleaseDeferred(s)
  PROVE  RetryOK'
<1>1. Idle.kind # "retry" /\ \A t : AfterSweep(t).kind # "retry"
  BY DEF Idle, AfterSweep
<1>2. ASSUME NEW w \in Workers, ExpireFinish(w) \/ ReleaseFinish(w) \/ SweepFinish(w)
      PROVE  RetryOK'
  <2>1. CASE ExpireFinish(w)
    BY <1>1, <2>1, DeleteFinishRetry DEF ExpireFinish, Returns
  <2>2. CASE ReleaseFinish(w)
    BY <1>1, <2>2, DeleteFinishRetry DEF ReleaseFinish, Returns
  <2>3. CASE SweepFinish(w)
    BY <1>1, <2>3, DeleteFinishRetry DEF SweepFinish, Returns
  <2> QED BY <1>2, <2>1, <2>2, <2>3
<1>3. ASSUME NEW s \in Sessions, ReleaseDeferred(s)
      PROVE  RetryOK'
  <2> DEFINE l == IF pending[s] # None THEN pending[s] ELSE active[s]
  <2>1. /\ release_pending[s] = None /\ op' = op /\ retry_seq' = retry_seq
        /\ pending[s] # None \/ active[s] # None
    BY <1>3 DEF ReleaseDeferred, calls
  <2>2. \A v \in Workers : Retrying(v)' = Retrying(v) /\ s \notin Retrying(v)
    BY <2>1 DEF Retrying, IndInv, CallsOK
  <2>3. CASE Room({s}) = {s}
    <3>1. /\ release_pending' = [release_pending EXCEPT ![s] = Quarantine(l, 0)]
          /\ release_order' = Append(release_order, s)
      BY <1>3, <2>3 DEF ReleaseDeferred
    <3>2. l \in Lease
      BY <2>1 DEF IndInv, TypeOK
    <3> HIDE DEF l
    <3>3. Quarantine(l, 0) # None
      BY <3>2, QuarantineType, NoneAssumption
    <3>4. /\ release_pending'[s] # None
          /\ \A x \in Sessions : x # s => release_pending'[x] = release_pending[x]
      BY <3>1, <3>3 DEF IndInv, TypeOK
    <3>5. \A x \in Sessions : x \in Waiting \cup {s} <=> x \in Waiting'
      BY <2>2, <3>4 DEF Waiting, Keys
    <3>6. \A x \in Sessions : ~(x \in Waiting /\ x \in {s})
      BY <2>1 DEF Waiting, Keys
    <3>7. <<s>> \in Seq(Sessions) /\ Lists(<<s>>, {s})
      BY DEF Lists
    <3>8. release_order' = release_order \o <<s>>
      BY <3>1 DEF RetryOK
    <3>9. release_order' \in Seq(Sessions) /\ Lists(release_order', Waiting \cup {s})
      BY <3>6, <3>7, <3>8, ListsBoth DEF RetryOK
    <3>10. Lists(release_order', Waiting')
      BY <3>5, <3>9, ListsSame
    <3> QED BY <2>1, <2>2, <3>9, <3>10 DEF RetryOK
  <2>4. CASE Room({s}) # {s}
    <3>1. release_pending' = release_pending /\ release_order' = release_order
      BY <1>3, <2>4 DEF ReleaseDeferred
    <3> QED BY <2>1, <2>2, <3>1, QueuesKept
  <2> QED BY <2>3, <2>4
<1> QED BY <1>2, <1>3

\* retry_pending_releases_bounded, phase 1: what leaves the FIFO is the batch.
LEMMA RetryBeginRetry ==
  ASSUME IndInv, RetryOK, NEW w \in Workers, RetryBegin(w)
  PROVE  RetryOK'
<1> DEFINE due(s) == /\ release_pending[s] # None
                     /\ s \notin inflight
                     /\ release_pending[s].next <= op[w].now
           D == {s \in Sessions : due(s)}
           all == Kept(release_order, {i \in DOMAIN release_order : due(release_order[i])})
           n == IF Len(all) < MaxRetryBatch THEN Len(all) ELSE MaxRetryBatch
           seq == SubSeq(all, 1, n)
           batch == {s \in Sessions : due(s) /\ \E i \in DOMAIN seq : seq[i] = s}
           stays(s) == release_pending[s] # None /\ s \notin batch
           R == {s \in Sessions : stays(s)}
           rest == Kept(release_order,
                        {i \in DOMAIN release_order : stays(release_order[i])})
<1>1. /\ op[w].kind = "retry_due" /\ release_pending' = release_pending
      /\ release_order' = rest
      /\ retry_seq' = [retry_seq EXCEPT ![w] = seq]
      /\ op' = [op EXCEPT ![w] =
                  IF batch = {} THEN Idle
                  ELSE Call("retry", op[w].now, batch, {}, Empty)]
  BY DEF RetryBegin
<1>2. \A i \in DOMAIN release_order : release_order[i] \in Sessions
  BY DEF RetryOK
<1>3. all \in Seq(Sessions) /\ Lists(all, Waiting \cap D)
  <2>1. {i \in DOMAIN release_order : due(release_order[i])}
          = {i \in DOMAIN release_order : release_order[i] \in D}
    BY <1>2
  <2> HIDE DEF D, due
  <2> QED BY <2>1, ListsKept DEF RetryOK
<1>4. rest \in Seq(Sessions) /\ Lists(rest, Waiting \cap R)
  <2>1. {i \in DOMAIN release_order : stays(release_order[i])}
          = {i \in DOMAIN release_order : release_order[i] \in R}
    BY <1>2
  <2> HIDE DEF R, stays
  <2> QED BY <2>1, ListsKept DEF RetryOK
<1>5. n \in 0 .. Len(all)
  <2>1. Len(all) \in Nat
    BY <1>3
  <2> HIDE DEF all
  <2> QED BY <2>1, BoundsAssumption
<1>6. /\ seq \in Seq(Sessions) /\ Len(seq) = n
      /\ Lists(seq, {s \in Sessions : \E i \in 1 .. n : seq[i] = s})
      /\ \A i \in 1 .. n : seq[i] \in Waiting \cap D
  <2> HIDE DEF all, n, D
  <2> QED BY <1>3, <1>5, ListsHead
<1>7. DOMAIN seq = 1 .. n
  <2> HIDE DEF seq, n
  <2> QED BY <1>6
<1>8. \A s \in Sessions : s \in batch <=> \E i \in 1 .. n : seq[i] = s
  <2>1. \A s \in Sessions : s \in batch => \E i \in 1 .. n : seq[i] = s
    BY <1>7
  <2>2. ASSUME NEW s \in Sessions, NEW i \in 1 .. n, seq[i] = s PROVE s \in batch
    <3>1. s \in D
      BY <1>6, <2>2
    <3>2. due(s)
      BY <3>1
    <3> HIDE DEF due, D, n, seq
    <3> QED BY <1>7, <2>2, <3>2
  <2> HIDE DEF batch, seq, n
  <2> QED BY <2>1, <2>2
<1>9. /\ batch \in SUBSET Sessions
      /\ \A s \in Sessions : s \in R <=> release_pending[s] # None /\ s \notin batch
  OBVIOUS
<1> HIDE DEF all, n, seq, batch, rest, R, D
<1>10. Lists(seq, batch)
  BY <1>6, <1>8, ListsSame
<1>11. /\ Retrying(w) = {} /\ Retrying(w)' = batch
       /\ \A v \in Workers : v # w => Retrying(v)' = Retrying(v)
  <2>1. \A v \in Workers : v # w => op'[v] = op[v]
    BY <1>1 DEF IndInv, TypeOK
  <2>2. op'[w] = IF batch = {} THEN Idle
                 ELSE Call("retry", op[w].now, batch, {}, Empty)
    BY <1>1 DEF IndInv, TypeOK
  <2>3. Retrying(w)' = batch
    <3>1. CASE batch = {}
      BY <2>2, <3>1 DEF Retrying, Idle
    <3>2. CASE batch # {}
      BY <2>2, <3>2 DEF Retrying, Call
    <3> QED BY <3>1, <3>2
  <2> QED BY <1>1, <2>1, <2>3 DEF Retrying
<1>12. \A s \in Sessions : s \in Waiting \cap R <=> s \in Waiting'
  BY <1>1, <1>9, <1>11 DEF Waiting, Keys
<1>13. Lists(release_order', Waiting')
  <2>1. Lists(release_order', Waiting \cap R)
    BY <1>1, <1>4
  <2> QED BY <1>12, <2>1, ListsSame
<1>14. ASSUME NEW v \in Workers PROVE Lists(retry_seq'[v], Retrying(v)')
  <2>1. CASE v = w
    BY <1>1, <1>10, <1>11, <2>1 DEF RetryOK
  <2>2. CASE v # w
    BY <1>1, <1>11, <2>2 DEF RetryOK
  <2> QED BY <2>1, <2>2
<1>15. release_order' \in Seq(Sessions) /\ retry_seq' \in [Workers -> Seq(Sessions)]
  BY <1>1, <1>4, <1>6 DEF RetryOK
<1> QED BY <1>13, <1>14, <1>15 DEF RetryOK

\* retry_pending_releases_bounded, phase 3: the failed part of the batch goes to
\* the end of the FIFO, the rest leaves the quarantine.
LEMMA RetryFinishRetry ==
  ASSUME IndInv, RetryOK, NEW w \in Workers, RetryFinish(w)
  PROVE  RetryOK'
<1> DEFINE failed == op[w].failed
           back == Kept(retry_seq[w], {i \in DOMAIN retry_seq[w] :
                                         retry_seq[w][i] \in failed})
<1>1. /\ op[w].kind = "retry" /\ op[w] \in CallType
      /\ op[w].failed \subseteq op[w].batch
      /\ op' = [op EXCEPT ![w] = Idle]
      /\ retry_seq' = [retry_seq EXCEPT ![w] = <<>>]
      /\ release_order' = release_order \o back
      /\ \A s \in op[w].batch : s \in Sessions /\ release_pending[s] # None
  BY DEF RetryFinish, Returns, IndInv, TypeOK, CallsOK, CallType
<1>2. ASSUME NEW s \in Sessions
      PROVE  release_pending'[s] # None
               <=> release_pending[s] # None /\ s \notin op[w].batch \ failed
  <2> DEFINE later == [release_pending[s] EXCEPT
               !.attempts = OneMore(@),
               !.next = NextRetryDeadline(op[w].now,
                          OneMore(release_pending[s].attempts))]
  <2>1. release_pending'[s] =
          IF s \in op[w].failed /\ release_pending[s] # None THEN later
          ELSE IF s \in op[w].batch \ op[w].failed THEN None
          ELSE release_pending[s]
    BY DEF RetryFinish
  <2>2. ASSUME release_pending[s] # None PROVE later # None
    <3>1. release_pending[s] \in Quarantined /\ op[w].now \in Nat
      BY <1>1, <2>2 DEF IndInv, TypeOK, CallType
    <3>2. OneMore(release_pending[s].attempts) \in Nat
      BY <3>1 DEF Quarantined, OneMore
    <3>3. NextRetryDeadline(op[w].now, OneMore(release_pending[s].attempts)) \in Nat
      BY <3>1, <3>2, DeadlineType
    <3>4. later \in Quarantined
      BY <3>1, <3>2, <3>3 DEF Quarantined
    <3> QED BY <3>4, NoneAssumption
  <2> HIDE DEF later
  <2> QED BY <2>1, <2>2
<1>3. /\ Retrying(w) = op[w].batch /\ Retrying(w)' = {}
      /\ \A v \in Workers : v # w => Retrying(v)' = Retrying(v)
  BY <1>1 DEF Retrying, Idle, IndInv, TypeOK
<1>4. \A v \in Workers : v # w => \A s \in op[w].batch : s \notin Retrying(v)
  BY DEF Retrying, IndInv, SingleHome
<1>5. back \in Seq(Sessions) /\ Lists(back, op[w].batch \cap failed)
  <2>1. retry_seq[w] \in Seq(Sessions) /\ Lists(retry_seq[w], op[w].batch)
    BY <1>3 DEF RetryOK
  <2> QED BY <2>1, ListsKept
<1> HIDE DEF back
<1>6. \A s \in Sessions :
        s \in Waiting \cup (op[w].batch \cap failed) <=> s \in Waiting'
  BY <1>1, <1>2, <1>3, <1>4 DEF Waiting, Keys
<1>7. \A s \in Sessions : ~(s \in Waiting /\ s \in op[w].batch \cap failed)
  BY <1>3 DEF Waiting
<1>8. /\ release_order' \in Seq(Sessions)
      /\ Lists(release_order', Waiting \cup (op[w].batch \cap failed))
  BY <1>1, <1>5, <1>7, ListsBoth DEF RetryOK
<1>9. Lists(release_order', Waiting')
  BY <1>6, <1>8, ListsSame
<1>10. ASSUME NEW v \in Workers PROVE Lists(retry_seq'[v], Retrying(v)')
  <2>1. CASE v = w
    BY <1>1, <1>3, <2>1, ListsNone DEF RetryOK
  <2>2. CASE v # w
    BY <1>1, <1>3, <2>2 DEF RetryOK
  <2> QED BY <2>1, <2>2
<1>11. retry_seq' \in [Workers -> Seq(Sessions)]
  BY <1>1, ListsNone DEF RetryOK
<1> QED BY <1>8, <1>9, <1>10, <1>11 DEF RetryOK

\* A crash empties the queues; recovery starts the FIFO with the records it could
\* not delete.
LEMMA RecoveryRetry ==
  ASSUME IndInv, RetryOK,
         \/ Crash \/ RecoverDone
         \/ \E now : Recover(now)
         \/ \E s \in Sessions : RecoverDelete(s)
  PROVE  RetryOK'
<1>1. CASE Crash
  <2>1. /\ release_pending' = Empty /\ release_order' = <<>>
        /\ op' = [w \in Workers |-> Idle]
        /\ retry_seq' = [w \in Workers |-> <<>>]
    BY <1>1 DEF Crash, NoCalls
  <2>2. \A w \in Workers : Retrying(w)' = {}
    BY <2>1 DEF Retrying, Idle
  <2>3. Waiting' = {}
    BY <2>1 DEF Waiting, Keys, Empty
  <2>4. Lists(release_order', Waiting')
    BY <2>1, <2>3, ListsNone
  <2>5. \A w \in Workers : Lists(retry_seq'[w], Retrying(w)')
    BY <2>1, <2>2, ListsNone
  <2> QED BY <2>1, <2>4, <2>5, ListsNone DEF RetryOK
<1>2. CASE (\E now : Recover(now)) \/ \E s \in Sessions : RecoverDelete(s)
  <2>1. UNCHANGED <<release_order, retry_seq, release_pending, op>>
    BY <1>2 DEF Recover, RecoverDelete, inner, calls
  <2> QED BY <2>1, QueuesKept DEF Retrying
<1>3. CASE RecoverDone
  <2>1. phase = "recovering" /\ op' = op /\ retry_seq' = retry_seq
    BY <1>3 DEF RecoverDone, calls
  <2>2. \A v \in Workers : Retrying(v) = {} /\ Retrying(v)' = {}
    BY <2>1, Quiet DEF Retrying
  <2>3. \A s \in Sessions : release_pending[s] = None
    BY <2>1, Quiet
  <2>4. CASE Room(stale_failed) = stale_failed
    <3>1. /\ release_pending' = [s \in Sessions |->
               IF s \in stale_failed THEN Quarantine(mirror[s], mono)
                                     ELSE release_pending[s]]
          /\ release_order' = release_order \o InOrder(stale_failed)
      BY <1>3, <2>4 DEF RecoverDone
    <3>2. stale_failed \in SUBSET Sessions
      BY DEF IndInv, TypeOK
    <3>3. ASSUME NEW s \in stale_failed PROVE release_pending'[s] # None
      <4>1. s \in Sessions /\ mirror[s] \in Record /\ mono \in Nat
        BY <3>2 DEF IndInv, TypeOK, RecoveryOK
      <4>2. Quarantine(mirror[s], mono) \in Quarantined
        BY <4>1, QuarantineType
      <4>3. release_pending'[s] = Quarantine(mirror[s], mono)
        BY <3>1, <4>1
      <4> QED BY <4>2, <4>3, NoneAssumption
    <3>4. \A s \in Sessions : s \in Waiting \cup stale_failed <=> s \in Waiting'
      BY <2>2, <2>3, <3>1, <3>3 DEF Waiting, Keys
    <3>5. \A s \in Sessions : ~(s \in Waiting /\ s \in stale_failed)
      BY <2>3 DEF Waiting, Keys
    <3>6. /\ release_order' \in Seq(Sessions)
          /\ Lists(release_order', Waiting \cup stale_failed)
      BY <3>1, <3>2, <3>5, ListsOrder, ListsBoth DEF RetryOK
    <3>7. Lists(release_order', Waiting')
      BY <3>4, <3>6, ListsSame
    <3> QED BY <2>1, <2>2, <3>6, <3>7 DEF RetryOK
  <2>5. CASE Room(stale_failed) # stale_failed
    <3>1. UNCHANGED <<release_order, release_pending>>
      BY <1>3, <2>5 DEF RecoverDone
    <3> QED BY <2>1, <2>2, <3>1, QueuesKept
  <2> QED BY <2>4, <2>5
<1> QED BY <1>1, <1>2, <1>3

\* One step per group of actions.
LEMMA NextRetry ==
  ASSUME IndInv, RetryOK, [Next]_vars
  PROVE  RetryOK'
<1>1. ASSUME NEW w \in Workers, Begin(w) PROVE RetryOK'
  BY <1>1, BeginRetry DEF Begin
<1>2. ASSUME NEW w \in Workers, Continue(w) PROVE RetryOK'
  BY <1>2, ContinueRetry, QuarantineRetry, RetryBeginRetry, RetryFinishRetry
  DEF Continue
<1>3. CASE \E s \in Sessions : ReleaseDeferred(s)
  BY <1>3, QuarantineRetry
<1>4. CASE \/ Crash \/ RecoverDone
           \/ \E now \in BootTimes : Recover(now)
           \/ \E s \in Sessions : RecoverDelete(s)
  BY <1>4, RecoveryRetry
<1>5. CASE Tick \/ UNCHANGED vars
  <2>1. UNCHANGED <<release_order, retry_seq, release_pending, op>>
    BY <1>5 DEF Tick, vars, inner, calls
  <2> QED BY <2>1, QueuesKept DEF Retrying
<1> QED BY <1>1, <1>2, <1>3, <1>4, <1>5 DEF Next

\* Every quarantined session is owed a retry: it stands once in the FIFO, or in the
\* batch of the one retry that took it out, whatever failed and crashed before.
THEOREM Owed == Spec => []RetryOwed
<1>1. Init => RetryOK
  <2> SUFFICES ASSUME Init PROVE RetryOK
    OBVIOUS
  <2>1. /\ release_order = <<>> /\ retry_seq = [w \in Workers |-> <<>>]
        /\ Waiting = {} /\ \A w \in Workers : Retrying(w) = {}
    BY DEF Init, Waiting, Keys, Retrying, Empty, Idle
  <2> QED BY <2>1, ListsNone DEF RetryOK
<1>2. IndInv /\ RetryOK /\ [Next]_vars => RetryOK'
  BY NextRetry
<1>3. IndInv /\ RetryOK => RetryOwed
  <2> SUFFICES ASSUME IndInv, RetryOK PROVE RetryOwed
    OBVIOUS
  <2>1. ASSUME NEW q \in Seq(Sessions), NEW S \in SUBSET Sessions, Lists(q, S)
        PROVE  Range(q) = S /\ IsInjective(q)
    <3>1. /\ DOMAIN q = 1 .. Len(q)
          /\ \A i \in 1 .. Len(q) : q[i] \in Sessions
      OBVIOUS
    <3>2. Range(q) = {q[i] : i \in 1 .. Len(q)}
      BY <3>1 DEF Range
    <3>3. Range(q) = S
      BY <2>1, <3>1, <3>2 DEF Lists
    <3> QED BY <2>1, <3>1, <3>3 DEF Lists, IsInjective
  <2>2. Range(release_order) = Waiting /\ IsInjective(release_order)
    BY <2>1 DEF RetryOK, Waiting, Keys
  <2>3. ASSUME NEW w \in Workers
        PROVE  /\ Range(retry_seq[w]) = Retrying(w)
               /\ Retrying(w) \subseteq Keys(release_pending)
    <3>1. /\ Retrying(w) \in SUBSET Sessions
          /\ \A s \in Retrying(w) : release_pending[s] # None
      BY DEF Retrying, IndInv, TypeOK, CallType, CallsOK
    <3>2. Range(retry_seq[w]) = Retrying(w)
      BY <2>1, <3>1 DEF RetryOK
    <3> QED BY <3>1, <3>2 DEF Keys
  <2>4. Waiting \cup UNION {Retrying(w) : w \in Workers} = Keys(release_pending)
    BY <2>3 DEF Waiting
  <2>5. UNION {Range(retry_seq[w]) : w \in Workers}
          = UNION {Retrying(w) : w \in Workers}
    BY <2>3
  <2>6. \A w \in Workers : Retrying(w) \cap Waiting = {}
    BY DEF Waiting
  <2>7. \A w \in Workers : op[w].kind = "retry" => Retrying(w) = op[w].batch
    BY DEF Retrying
  <2> QED BY <2>2, <2>3, <2>4, <2>5, <2>6, <2>7 DEF RetryOwed
<1> QED BY <1>1, <1>2, <1>3, Inductive, PTL DEF Spec

-----------------------------------------------------------------------------
(***************************************************************************)
(* The address pool implements the lease table, for any number of          *)
(* sessions, addresses and threads.  While the pool is up every phase of   *)
(* every call but one moves a lease between the maps and the calls, or     *)
(* drops it, or turns it into a quarantined one: the table gives leases    *)
(* up, or stutters.  The exception is the first phase of reserve_at_time,  *)
(* where the table takes one.                                              *)
(***************************************************************************)
HIDE DEF ParkingKinds, PersistKinds, DeleteKinds, Kinds


\* Session s has lease l: in a map, or inside the call that took it.
At(s, l) ==
  \/ active[s] # None /\ l = active[s]
  \/ pending[s] # None /\ l = pending[s]
  \/ \E w \in Workers : s \in Parked(w) /\ l = op[w].taken[s]

\* A step of the pool after which every lease, but for its expiry, is one the
\* session had before, and every quarantined address was quarantined before or
\* is that of the lease the session had.
Surrenders ==
  /\ \A s \in Sessions, l \in Lease :
       At(s, l)' => \E m \in Lease : At(s, m) /\ m.dev = l.dev /\ m.addr = l.addr
  /\ \A s \in Sessions : release_pending'[s] # None =>
       \/ /\ release_pending[s] # None
          /\ release_pending'[s].addr = release_pending[s].addr
       \/ \E m \in Lease : At(s, m) /\ m.addr = release_pending'[s].addr

\* A row of the table is the lease of a session, and every lease has its row.
RowsAreLeases ==
  /\ \A e \in Leases : \E s \in Sessions, l \in Lease :
       At(s, l) /\ e = Entry(s, l)
  /\ \A s \in Sessions, l \in Lease : At(s, l) => Entry(s, l) \in Leases

\* A session has one lease, and none while its address is quarantined.
OneLeaseEach ==
  \A s \in Sessions, l, m \in Lease :
    At(s, l) => (At(s, m) => l = m) /\ release_pending[s] = None

-----------------------------------------------------------------------------
\* The table of a pool state

\* What a call parked is a lease.
LEMMA ParkedLease ==
  IndInv =>
    \A w \in Workers : \A s \in Parked(w) :
      s \in Sessions /\ op[w].taken[s] \in Lease
BY DEF IndInv, TypeOK, CallType, CallsOK, Parked, ParkingKinds

\* The table lists the leases.
LEMMA RowOf == IndInv => RowsAreLeases
<1> SUFFICES ASSUME IndInv PROVE RowsAreLeases
  OBVIOUS
<1>1. \A s \in Sessions : /\ active[s] # None => active[s] \in Lease
                          /\ pending[s] # None => pending[s] \in Lease
  BY DEF IndInv, TypeOK
<1>2. ASSUME NEW e \in Leases
      PROVE  \E s \in Sessions, l \in Lease : At(s, l) /\ e = Entry(s, l)
  <2>1. CASE \E s \in Keys(active) : e = Entry(s, active[s])
    BY <1>1, <2>1 DEF At, Keys
  <2>2. CASE \E s \in Keys(pending) : e = Entry(s, pending[s])
    BY <1>1, <2>2 DEF At, Keys
  <2>3. CASE \E w \in Workers : \E s \in Parked(w) : e = Entry(s, op[w].taken[s])
    BY <2>3, ParkedLease DEF At
  <2> QED BY <1>2, <2>1, <2>2, <2>3 DEF Leases
<1>3. ASSUME NEW s \in Sessions, NEW l \in Lease, At(s, l)
      PROVE  Entry(s, l) \in Leases
  BY <1>3 DEF At, Leases, Keys
<1> QED BY <1>2, <1>3 DEF RowsAreLeases

\* A session is in one place, and a place holds one lease.
LEMMA OneLease == IndInv => OneLeaseEach
<1> SUFFICES ASSUME IndInv, NEW s \in Sessions, NEW l \in Lease, NEW m \in Lease,
                    At(s, l)
             PROVE  (At(s, m) => l = m) /\ release_pending[s] = None
  BY DEF OneLeaseEach
<1>1. \A w, v \in Workers : s \in Parked(w) /\ s \in Parked(v) => w = v
  BY DEF IndInv, SingleHome, Parked
<1> QED BY <1>1 DEF IndInv, SingleHome, At

\* While the pool is up, such a step gives leases of the table up.
LEMMA GiveStep ==
  ASSUME IndInv, IndInv', phase = "up", phase' = "up", Surrenders
  PROVE  Table!Give
<1>1. RowsAreLeases /\ RowsAreLeases' /\ OneLeaseEach'
  BY RowOf, OneLease, PTL
<1>2. Leases' \subseteq Leases
  <2>1. ASSUME NEW e \in Leases' PROVE e \in Leases
    <3>1. PICK s \in Sessions, l \in Lease : At(s, l)' /\ e = Entry(s, l)
      BY <1>1 DEF RowsAreLeases, Entry
    <3> QED BY <1>1, <3>1 DEF RowsAreLeases, Surrenders, Entry
  <2> QED BY <2>1
<1>3. ASSUME NEW a \in AddrsOf(release_pending)',
             a \notin AddrsOf(release_pending)
      PROVE  \E e \in Leases \ Leases' : a = e.addr
  <2>1. PICK s \in Sessions : release_pending'[s] # None /\ a = release_pending'[s].addr
    BY <1>3 DEF AddrsOf, Keys
  <2>2. PICK m \in Lease : At(s, m) /\ m.addr = a
    BY <1>3, <2>1 DEF Surrenders, AddrsOf, Keys
  <2>3. Entry(s, m) \in Leases /\ Entry(s, m).addr = a
    BY <1>1, <2>2 DEF RowsAreLeases, Entry
  <2>4. \A e \in Leases' : e.session # s
    BY <1>1, <2>1 DEF RowsAreLeases, OneLeaseEach, Entry
  <2> QED BY <2>3, <2>4 DEF Entry
<1> QED BY <1>2, <1>3 DEF Table!Give

-----------------------------------------------------------------------------
\* The phases of a call, once each

\* Phase 1: a call that parks leases it found in the maps gives none away.
LEMMA ParkSurrenders ==
  ASSUME IndInv, NEW w \in Workers, NEW kind \in ParkingKinds, NEW now,
         NEW batch \in SUBSET Sessions, NEW was, NEW taken,
         \A s \in batch : taken[s] # None /\ taken[s] \in {active[s], pending[s]},
         \A s \in Sessions :
           /\ active'[s] = IF s \in batch THEN None ELSE active[s]
           /\ pending'[s] = IF s \in batch THEN None ELSE pending[s],
         Park(w, kind, now, batch, was, taken),
         UNCHANGED release_pending
  PROVE  Surrenders
<1>1. /\ op'[w].kind = kind /\ op'[w].batch = batch /\ op'[w].taken = taken
      /\ \A v \in Workers : v # w => op'[v] = op[v]
  BY DEF Park, Call, IndInv, TypeOK
<1>2. ASSUME NEW s \in Sessions, NEW l \in Lease, At(s, l)' PROVE At(s, l)
  <2>1. CASE active'[s] # None /\ l = active'[s]
    BY <2>1 DEF At
  <2>2. CASE pending'[s] # None /\ l = pending'[s]
    BY <2>2 DEF At
  <2>3. CASE \E v \in Workers : s \in Parked(v)' /\ l = op'[v].taken[s]
    <3>1. PICK v \in Workers : s \in Parked(v)' /\ l = op'[v].taken[s]
      BY <2>3
    <3>2. CASE v = w
      BY <1>1, <3>1, <3>2 DEF At, Parked
    <3>3. CASE v # w
      BY <1>1, <3>1, <3>3 DEF At, Parked
    <3> QED BY <3>2, <3>3
  <2> QED BY <1>2, <2>1, <2>2, <2>3 DEF At
<1> QED BY <1>2 DEF Surrenders

\* Each lease that call w took goes back to a map, to the quarantine, or nowhere.
GivesBack(w) ==
  /\ \A s \in Sessions \ op[w].batch :
       /\ active'[s] = active[s] /\ pending'[s] = pending[s]
       /\ release_pending'[s] = release_pending[s]
  /\ \A s \in op[w].batch :
       /\ active'[s] # None => /\ active'[s].dev = op[w].taken[s].dev
                               /\ active'[s].addr = op[w].taken[s].addr
       /\ pending'[s] # None => /\ pending'[s].dev = op[w].taken[s].dev
                                /\ pending'[s].addr = op[w].taken[s].addr
       /\ release_pending'[s] # None =>
            release_pending'[s].addr = op[w].taken[s].addr

\* Phase 3: a call that gives its leases back gives none away.
LEMMA FinishSurrenders ==
  ASSUME IndInv, NEW w \in Workers, op[w].kind \in ParkingKinds,
         op'[w].kind \in {"idle", "retry_due"},
         \A v \in Workers : v # w => op'[v] = op[v],
         GivesBack(w)
  PROVE  Surrenders
<1>1. op'[w].kind \in {"idle", "retry_due"}
      /\ \A v \in Workers : v # w => op'[v] = op[v]
  OBVIOUS
<1>2. \A s \in op[w].batch :
        s \in Sessions /\ op[w].taken[s] \in Lease /\ At(s, op[w].taken[s])
  BY ParkedLease DEF Parked, At
<1>3. ASSUME NEW s \in Sessions, NEW l \in Lease, At(s, l)'
      PROVE  \E m \in Lease : At(s, m) /\ m.dev = l.dev /\ m.addr = l.addr
  <2>1. CASE s \in op[w].batch /\ (active'[s] = l \/ pending'[s] = l)
    BY <1>2, <2>1, NoneAssumption DEF GivesBack
  <2>2. CASE s \notin op[w].batch /\ (active'[s] = l \/ pending'[s] = l)
    BY <2>2, NoneAssumption DEF At, GivesBack
  <2>3. CASE \E v \in Workers : s \in Parked(v)' /\ l = op'[v].taken[s]
    <3>1. PICK v \in Workers : s \in Parked(v)' /\ l = op'[v].taken[s]
      BY <2>3
    <3>2. v # w
      BY <1>1, <3>1 DEF Parked, ParkingKinds
    <3>3. op'[v] = op[v] /\ s \in Parked(v)
      BY <1>1, <3>1, <3>2 DEF Parked
    <3>4. At(s, l)
      BY <3>1, <3>3 DEF At
    <3> QED BY <3>4
  <2> QED BY <1>3, <2>1, <2>2, <2>3 DEF At
<1>4. ASSUME NEW s \in Sessions, release_pending'[s] # None
      PROVE  \/ /\ release_pending[s] # None
                /\ release_pending'[s].addr = release_pending[s].addr
             \/ \E m \in Lease : At(s, m) /\ m.addr = release_pending'[s].addr
  BY <1>2, <1>4 DEF GivesBack
<1> QED BY <1>3, <1>4 DEF Surrenders

\* A step that leaves every lease where it is, or drops it.
LEMMA StaySurrenders ==
  ASSUME IndInv,
         \A s \in Sessions :
           /\ active'[s] # None =>
                \E m \in {active[s], pending[s]} \ {None} :
                  m.dev = active'[s].dev /\ m.addr = active'[s].addr
           /\ pending'[s] # None => pending'[s] = pending[s]
           /\ release_pending'[s] # None =>
                \/ /\ release_pending[s] # None
                   /\ release_pending'[s].addr = release_pending[s].addr
                \/ \E m \in {active[s], pending[s]} \ {None} :
                     m.addr = release_pending'[s].addr,
         \A v \in Workers :
           Parked(v)' # {} => Parked(v)' = Parked(v) /\ op'[v].taken = op[v].taken
  PROVE  Surrenders
<1>1. \A s \in Sessions : /\ active[s] # None => active[s] \in Lease
                          /\ pending[s] # None => pending[s] \in Lease
  BY DEF IndInv, TypeOK
<1>2. ASSUME NEW s \in Sessions, NEW l \in Lease, At(s, l)'
      PROVE  \E m \in Lease : At(s, m) /\ m.dev = l.dev /\ m.addr = l.addr
  <2>1. CASE active'[s] # None /\ l = active'[s]
    BY <1>1, <2>1 DEF At
  <2>2. CASE pending'[s] # None /\ l = pending'[s]
    BY <1>1, <2>2 DEF At
  <2>3. CASE \E v \in Workers : s \in Parked(v)' /\ l = op'[v].taken[s]
    BY <2>3 DEF At
  <2> QED BY <1>2, <2>1, <2>2, <2>3 DEF At
<1>3. ASSUME NEW s \in Sessions, release_pending'[s] # None
      PROVE  \/ /\ release_pending[s] # None
                /\ release_pending'[s].addr = release_pending[s].addr
             \/ \E m \in Lease : At(s, m) /\ m.addr = release_pending'[s].addr
  BY <1>1, <1>3 DEF At
<1> QED BY <1>2, <1>3 DEF Surrenders

-----------------------------------------------------------------------------
\* The actions while the pool is up

\* A commit, a release and a sweep take a lease out of the maps.
LEMMA BeginSurrenders ==
  ASSUME IndInv, NEW w \in Workers, NEW s \in Sessions, NEW t,
         CommitBegin(w, s, t) \/ ReleaseBegin(w, s, t)
  PROVE  Surrenders
<1>1. PICK kind, was, l :
        /\ kind \in ParkingKinds
        /\ l # None /\ l \in {active[s], pending[s]}
        /\ Park(w, kind, t, {s}, was, [Empty EXCEPT ![s] = l])
  <2>1. CASE CommitBegin(w, s, t)
    <3>1. LET kind == IF t >= pending[s].exp THEN "expire" ELSE "promote"
          IN /\ kind \in ParkingKinds
             /\ Park(w, kind, t, {s}, {s}, [Empty EXCEPT ![s] = pending[s]])
      BY <2>1 DEF CommitBegin, ParkingKinds
    <3>2. pending[s] # None
      BY <2>1 DEF CommitBegin
    <3> QED BY <3>1, <3>2
  <2>2. CASE ReleaseBegin(w, s, t)
    <3>1. \/ /\ pending[s] # None
             /\ Park(w, "release", t, {s}, {s}, [Empty EXCEPT ![s] = pending[s]])
          \/ /\ active[s] # None
             /\ Park(w, "release", t, {s}, {}, [Empty EXCEPT ![s] = active[s]])
      BY <2>2 DEF ReleaseBegin
    <3>2. "release" \in ParkingKinds
      BY DEF ParkingKinds
    <3> QED BY <3>1, <3>2
  <2> QED BY <2>1, <2>2
<1> DEFINE taken == [Empty EXCEPT ![s] = l]
<1>2. taken[s] = l
  BY DEF Empty
<1>3. \A x \in Sessions :
        /\ active'[x] = IF x \in {s} THEN None ELSE active[x]
        /\ pending'[x] = IF x \in {s} THEN None ELSE pending[x]
  BY DEF CommitBegin, ReleaseBegin, IndInv, TypeOK, SingleHome
<1>4. UNCHANGED release_pending
  BY DEF CommitBegin, ReleaseBegin
<1>5. Park(w, kind, t, {s}, was, taken)
  BY <1>1
<1> HIDE DEF taken
<1> QED BY <1>1, <1>2, <1>3, <1>4, <1>5, ParkSurrenders

\* A sweep takes the expired leases out of the maps; with none it takes nothing.
LEMMA SweepBeginSurrenders ==
  ASSUME IndInv, NEW w \in Workers, NEW t, SweepBegin(w, t)
  PROVE  Surrenders
<1> DEFINE p == Expired(pending, t)
           a == Expired(active, t)
           taken == [s \in Sessions |-> IF s \in p THEN pending[s]
                                        ELSE IF s \in a THEN active[s] ELSE None]
<1>1. /\ p \cup a \in SUBSET Sessions
      /\ \A s \in p : pending[s] # None
      /\ \A s \in a : active[s] # None
      /\ UNCHANGED release_pending
  BY DEF Expired, Keys, SweepBegin
<1>2. CASE p \cup a = {}
  <2>1. op' = [op EXCEPT ![w] = AfterSweep(t)] /\ UNCHANGED <<active, pending>>
    BY <1>2 DEF SweepBegin
  <2>2. /\ \A v \in Workers : v # w => op'[v] = op[v]
        /\ op'[w].kind \in {"idle", "retry_due"}
    BY <2>1 DEF IndInv, TypeOK, AfterSweep, Idle
  <2>3. \A v \in Workers : Parked(v)' # {} =>
          Parked(v)' = Parked(v) /\ op'[v].taken = op[v].taken
    BY <2>2 DEF Parked, ParkingKinds
  <2> QED BY <1>1, <2>1, <2>3, StaySurrenders
<1>3. CASE p \cup a # {}
  <2>1. /\ Park(w, "sweep", t, p \cup a, p, taken)
        /\ pending' = [s \in Sessions |-> IF s \in p THEN None ELSE pending[s]]
        /\ active' = [s \in Sessions |-> IF s \in a THEN None ELSE active[s]]
    BY <1>3 DEF SweepBegin
  <2>2. \A s \in p \cup a : taken[s] # None /\ taken[s] \in {active[s], pending[s]}
    BY <1>1
  <2> HIDE DEF p, a, taken
  <2>3. \A s \in Sessions :
           /\ active'[s] = IF s \in p \cup a THEN None ELSE active[s]
           /\ pending'[s] = IF s \in p \cup a THEN None ELSE pending[s]
    BY <1>1, <2>1 DEF IndInv, SingleHome
  <2>4. "sweep" \in ParkingKinds
    BY DEF ParkingKinds
  <2> QED BY <1>1, <2>1, <2>2, <2>3, <2>4, ParkSurrenders
<1> QED BY <1>2, <1>3

\* What a call parked is its lease alone.
LEMMA ParkedAlone ==
  ASSUME IndInv, NEW w \in Workers, op[w].kind \in ParkingKinds
  PROVE  \A s \in op[w].batch :
           /\ s \in Sessions /\ op[w].taken[s] \in Lease
           /\ active[s] = None /\ pending[s] = None /\ release_pending[s] = None
BY ParkedLease DEF IndInv, SingleHome, Parked

\* The end of a reservation, of a promotion and of a delete.
LEMMA EndSurrenders ==
  ASSUME IndInv, NEW w \in Workers,
         \/ ReserveFinish(w) \/ PromoteFinish(w)
         \/ ExpireFinish(w) \/ ReleaseFinish(w) \/ SweepFinish(w)
  PROVE  Surrenders
<1>1. op[w].failed \subseteq op[w].batch
  BY DEF IndInv, CallsOK
<1>2. Idle.kind = "idle" /\ AfterSweep(op[w].now).kind \in {"idle", "retry_due"}
  BY DEF Idle, AfterSweep
<1>3. CASE ReserveFinish(w)
  <2>1. /\ op[w].kind \in ParkingKinds /\ op' = [op EXCEPT ![w] = Idle]
        /\ UNCHANGED <<active, release_pending>>
        /\ pending' = [s \in Sessions |->
             IF s \in op[w].batch \ op[w].failed
                  /\ release_pending[s] = None /\ active[s] = None
             THEN op[w].taken[s] ELSE pending[s]]
    BY <1>3 DEF ReserveFinish, Returns, ParkingKinds
  <2>2. \A s \in Sessions \ op[w].batch :
          /\ active'[s] = active[s] /\ pending'[s] = pending[s]
          /\ release_pending'[s] = release_pending[s]
    BY <2>1
  <2>3. \A s \in op[w].batch :
          /\ active'[s] = None /\ release_pending'[s] = None
          /\ pending'[s] # None => pending'[s] = op[w].taken[s]
    BY <2>1, ParkedAlone
  <2>4. GivesBack(w)
    BY <2>2, <2>3 DEF GivesBack
  <2>5. op'[w] = Idle /\ \A v \in Workers : v # w => op'[v] = op[v]
    BY <2>1 DEF IndInv, TypeOK
  <2> QED BY <1>2, <2>1, <2>4, <2>5, FinishSurrenders
<1>4. CASE PromoteFinish(w)
  <2>1. /\ op[w].kind \in ParkingKinds /\ op' = [op EXCEPT ![w] = Idle]
        /\ UNCHANGED release_pending
        /\ pending' = [s \in Sessions |->
             IF s \in op[w].failed THEN op[w].taken[s] ELSE pending[s]]
        /\ active' = [s \in Sessions |->
             IF s \in op[w].batch \ op[w].failed
                  /\ release_pending[s] = None /\ active[s] = None
             THEN [op[w].taken[s] EXCEPT !.exp = op[w].now + LeaseTTL]
             ELSE active[s]]
    BY <1>4 DEF PromoteFinish, Returns, ParkingKinds
  <2>2. \A t : \A l \in Lease : LET m == [l EXCEPT !.exp = t]
                                  IN m.dev = l.dev /\ m.addr = l.addr
    BY DEF Lease
  <2>3. \A s \in Sessions \ op[w].batch :
          /\ active'[s] = active[s] /\ pending'[s] = pending[s]
          /\ release_pending'[s] = release_pending[s]
    BY <1>1, <2>1
  <2>4. \A s \in op[w].batch :
          /\ active'[s] # None => /\ active'[s].dev = op[w].taken[s].dev
                                  /\ active'[s].addr = op[w].taken[s].addr
          /\ pending'[s] # None => pending'[s] = op[w].taken[s]
          /\ release_pending'[s] = None
    BY <2>1, <2>2, ParkedAlone
  <2>5. GivesBack(w)
    BY <2>3, <2>4 DEF GivesBack
  <2>6. op'[w] = Idle /\ \A v \in Workers : v # w => op'[v] = op[v]
    BY <2>1 DEF IndInv, TypeOK
  <2> QED BY <1>2, <2>1, <2>5, <2>6, FinishSurrenders
<1>5. ASSUME NEW reserved, NEW next, next.kind \in {"idle", "retry_due"},
             op[w].kind \in ParkingKinds, DeleteFinish(w, reserved, next)
      PROVE  Surrenders
  <2> DEFINE queued == Room(op[w].failed)
             kept == op[w].failed \ queued
  <2>1. /\ release_pending' = [s \in Sessions |->
             IF s \in queued THEN Quarantine(op[w].taken[s], op[w].now)
                             ELSE release_pending[s]]
        /\ pending' = [s \in Sessions |->
             IF s \in kept \cap reserved THEN op[w].taken[s] ELSE pending[s]]
        /\ active' = [s \in Sessions |->
             IF s \in kept \ reserved THEN op[w].taken[s] ELSE active[s]]
        /\ op' = [op EXCEPT ![w] = next]
    BY <1>5 DEF DeleteFinish
  <2>2. queued \subseteq op[w].failed
    BY DEF Room
  <2>3. \A l, t : Quarantine(l, t).addr = l.addr
    BY DEF Quarantine
  <2> HIDE DEF queued
  <2>4. \A s \in Sessions \ op[w].batch :
          /\ active'[s] = active[s] /\ pending'[s] = pending[s]
          /\ release_pending'[s] = release_pending[s]
    BY <1>1, <2>1, <2>2
  <2>5. \A s \in op[w].batch :
          /\ active'[s] # None => active'[s] = op[w].taken[s]
          /\ pending'[s] # None => pending'[s] = op[w].taken[s]
          /\ release_pending'[s] # None =>
               release_pending'[s].addr = op[w].taken[s].addr
    BY <1>5, <2>1, <2>3, ParkedAlone
  <2>6. GivesBack(w)
    BY <2>4, <2>5 DEF GivesBack
  <2>7. op'[w] = next /\ \A v \in Workers : v # w => op'[v] = op[v]
    BY <2>1 DEF IndInv, TypeOK
  <2> QED BY <1>5, <2>6, <2>7, FinishSurrenders
<1>6. CASE ExpireFinish(w) \/ ReleaseFinish(w) \/ SweepFinish(w)
  <2>1. op[w].kind \in ParkingKinds
    BY <1>6 DEF ExpireFinish, ReleaseFinish, SweepFinish, Returns, ParkingKinds
  <2>2. PICK reserved, next : /\ next.kind \in {"idle", "retry_due"}
                              /\ DeleteFinish(w, reserved, next)
    BY <1>2, <1>6 DEF ExpireFinish, ReleaseFinish, SweepFinish
  <2> QED BY <1>5, <2>1, <2>2
<1> QED BY <1>3, <1>4, <1>6

\* The journal writes, the renewals, the retries, the deferred release and the
\* clock leave a lease where it is, drop it, or quarantine it.
LEMMA PlainSurrenders ==
  ASSUME IndInv,
         \/ \E w \in Workers, s \in Sessions :
              \/ \E d \in Devices, t \in Nat : ReserveExhausted(w, s, d, t)
              \/ \E t \in Nat : RenewBegin(w, s, t)
         \/ \E w \in Workers :
              \/ StorePersist(w) \/ StoreRelease(w)
              \/ RenewFinish(w) \/ RetryBegin(w) \/ RetryFinish(w)
         \/ \E s \in Sessions : ReleaseDeferred(s)
         \/ Tick
  PROVE  Surrenders
<1> DEFINE Calm == \A v \in Workers : Parked(v)' # {} =>
                     Parked(v)' = Parked(v) /\ op'[v].taken = op[v].taken
<1>1. ASSUME NEW w \in Workers, NEW next, next.kind \notin ParkingKinds,
             op' = [op EXCEPT ![w] = next]
      PROVE  Calm
  BY <1>1 DEF Parked, IndInv, TypeOK
<1>2. ASSUME UNCHANGED op PROVE Calm
  BY <1>2 DEF Parked
<1>3. Idle.kind \notin ParkingKinds
      /\ \A t, B, m : /\ Call("renew", t, B, {}, m).kind \notin ParkingKinds
                      /\ Call("retry", t, B, {}, m).kind \notin ParkingKinds
  BY DEF Idle, Call, ParkingKinds
<1>4. ASSUME NEW w \in Workers, NEW s \in Sessions, NEW d, NEW t,
             ReserveExhausted(w, s, d, t)
      PROVE  Surrenders
  <2>1. /\ pending' = [pending EXCEPT ![s] = None]
        /\ UNCHANGED <<active, release_pending, op>>
    BY <1>4 DEF ReserveExhausted, calls
  <2>2. Calm
    BY <1>2, <2>1
  <2>3. \A x \in Sessions : pending'[x] # None => pending'[x] = pending[x]
    BY <2>1 DEF IndInv, TypeOK
  <2> QED BY <2>1, <2>2, <2>3, StaySurrenders
<1>5. ASSUME NEW w \in Workers, NEW s \in Sessions, NEW t, RenewBegin(w, s, t)
      PROVE  Surrenders
  <2>1. /\ op' = [op EXCEPT ![w] =
                    Call("renew", t, {s}, {}, [Empty EXCEPT ![s] = active[s]])]
        /\ UNCHANGED <<active, pending, release_pending>>
    BY <1>5 DEF RenewBegin
  <2>2. Calm
    BY <1>1, <1>3, <2>1
  <2> QED BY <2>1, <2>2, StaySurrenders
<1>6. ASSUME NEW w \in Workers, StorePersist(w) \/ StoreRelease(w)
      PROVE  Surrenders
  <2>1. UNCHANGED <<active, pending, release_pending>>
    BY <1>6 DEF StorePersist, StoreRelease, inner
  <2>2. PICK s, new : JournalWrite(new, w, s)
    BY <1>6 DEF StorePersist, StoreRelease
  <2>3. \A v \in Workers : op'[v].kind = op[v].kind /\ op'[v].batch = op[v].batch
                           /\ op'[v].taken = op[v].taken
    BY <2>2 DEF JournalWrite, IndInv, TypeOK, CallType
  <2>4. Calm
    BY <2>3 DEF Parked
  <2> QED BY <2>1, <2>4, StaySurrenders
<1>7. ASSUME NEW w \in Workers, RenewFinish(w) PROVE Surrenders
  <2>1. /\ op' = [op EXCEPT ![w] = Idle]
        /\ UNCHANGED <<pending, release_pending>>
    BY <1>7 DEF RenewFinish
  <2>2. Calm
    BY <1>1, <1>3, <2>1
  <2>3. \A s \in Sessions : active'[s] # None =>
          /\ active[s] # None
          /\ active'[s].dev = active[s].dev /\ active'[s].addr = active[s].addr
    BY <1>7 DEF RenewFinish, IndInv, TypeOK, Lease
  <2> QED BY <2>1, <2>2, <2>3, StaySurrenders
<1>8. ASSUME NEW w \in Workers, RetryBegin(w) PROVE Surrenders
  <2>1. /\ \E batch : op' = [op EXCEPT ![w] =
             IF batch = {} THEN Idle ELSE Call("retry", op[w].now, batch, {}, Empty)]
        /\ UNCHANGED <<active, pending, release_pending>>
    BY <1>8 DEF RetryBegin
  <2>2. Calm
    BY <1>1, <1>3, <2>1
  <2> QED BY <2>1, <2>2, StaySurrenders
<1>9. ASSUME NEW w \in Workers, RetryFinish(w) PROVE Surrenders
  <2>1. /\ op' = [op EXCEPT ![w] = Idle]
        /\ UNCHANGED <<active, pending>>
    BY <1>9 DEF RetryFinish
  <2>2. Calm
    BY <1>1, <1>3, <2>1
  <2>3. \A s \in Sessions : release_pending'[s] # None =>
          /\ release_pending[s] # None
          /\ release_pending'[s].addr = release_pending[s].addr
    <3>1. \A s \in Sessions :
            release_pending[s] # None => release_pending[s] \in Quarantined
      BY DEF IndInv, TypeOK
    <3>2. \A n, m : \A q \in Quarantined :
            [q EXCEPT !.attempts = n, !.next = m].addr = q.addr
      BY DEF Quarantined
    <3>3. \A s \in op[w].batch : release_pending[s] # None
      BY <1>9 DEF RetryFinish, Returns, IndInv, CallsOK
    <3>4. op[w].failed \subseteq op[w].batch
      BY DEF IndInv, CallsOK
    <3>5. \A s \in Sessions : release_pending'[s] \in
            {None, release_pending[s],
             [release_pending[s] EXCEPT
               !.attempts = OneMore(release_pending[s].attempts),
               !.next = NextRetryDeadline(op[w].now,
                          OneMore(release_pending[s].attempts))]}
            /\ (release_pending[s] = None => release_pending'[s] = None)
      BY <1>9 DEF RetryFinish
    <3>6. ASSUME NEW s \in Sessions, release_pending'[s] # None
          PROVE  /\ release_pending[s] # None
                 /\ release_pending'[s].addr = release_pending[s].addr
      <4> DEFINE q == release_pending[s]
                 n == OneMore(q.attempts)
                 m == NextRetryDeadline(op[w].now, n)
      <4>1. q # None /\ q \in Quarantined
        BY <3>1, <3>5, <3>6
      <4>2. [q EXCEPT !.attempts = n, !.next = m].addr = q.addr
        BY <3>2, <4>1
      <4>3. release_pending'[s] \in {q, [q EXCEPT !.attempts = n, !.next = m]}
        BY <3>5, <3>6
      <4> HIDE DEF n, m
      <4> QED BY <4>1, <4>2, <4>3
    <3> QED BY <3>6
  <2> QED BY <2>1, <2>2, <2>3, StaySurrenders
<1>10. ASSUME NEW s \in Sessions, ReleaseDeferred(s) PROVE Surrenders
  <2> DEFINE l == IF pending[s] # None THEN pending[s] ELSE active[s]
             fits == Room({s}) = {s}
  <2>1. /\ release_pending' =
             IF fits THEN [release_pending EXCEPT ![s] = Quarantine(l, 0)]
                     ELSE release_pending
        /\ active' = [active EXCEPT ![s] = IF fits THEN None ELSE l]
        /\ pending' = [pending EXCEPT ![s] = None]
        /\ UNCHANGED op
    BY <1>10 DEF ReleaseDeferred, calls
  <2>2. l \in {active[s], pending[s]} \ {None} /\ Quarantine(l, 0).addr = l.addr
    BY <1>10 DEF ReleaseDeferred, Quarantine
  <2> HIDE DEF l, fits
  <2>3. \A x \in Sessions :
          /\ active'[x] # None => active'[x] = active[x] \/ (x = s /\ active'[x] = l)
          /\ pending'[x] # None => pending'[x] = pending[x]
          /\ release_pending'[x] # None =>
               \/ release_pending'[x] = release_pending[x]
               \/ (x = s /\ release_pending'[x].addr = l.addr)
    <3> DEFINE q == Quarantine(l, 0)
    <3>1. q.addr = l.addr
      BY <2>2
    <3>2. /\ \/ release_pending' = [release_pending EXCEPT ![s] = q]
             \/ release_pending' = release_pending
          /\ \E m \in {None, l} : active' = [active EXCEPT ![s] = m]
          /\ pending' = [pending EXCEPT ![s] = None]
      BY <2>1
    <3> HIDE DEF q
    <3>3. \A x \in Sessions :
            release_pending'[x] = release_pending[x] \/ (x = s /\ release_pending'[x] = q)
      BY <3>2 DEF IndInv, TypeOK
    <3>4. \A x \in Sessions :
            \/ active'[x] = active[x]
            \/ (x = s /\ active'[x] = None)
            \/ (x = s /\ active'[x] = l)
      BY <3>2 DEF IndInv, TypeOK
    <3>5. \A x \in Sessions : pending'[x] = pending[x] \/ pending'[x] = None
      BY <3>2 DEF IndInv, TypeOK
    <3>6. ASSUME NEW x \in Sessions
          PROVE  /\ active'[x] # None => active'[x] = active[x] \/ (x = s /\ active'[x] = l)
                 /\ release_pending'[x] # None =>
                      \/ release_pending'[x] = release_pending[x]
                      \/ (x = s /\ release_pending'[x].addr = l.addr)
      BY <3>1, <3>3, <3>4
    <3> QED BY <3>5, <3>6
  <2>4. Calm
    BY <1>2, <2>1
  <2>5. ASSUME NEW x \in Sessions
        PROVE  /\ active'[x] # None =>
                    \E m \in {active[x], pending[x]} \ {None} :
                      m.dev = active'[x].dev /\ m.addr = active'[x].addr
               /\ release_pending'[x] # None =>
                    \/ /\ release_pending[x] # None
                       /\ release_pending'[x].addr = release_pending[x].addr
                    \/ \E m \in {active[x], pending[x]} \ {None} :
                         m.addr = release_pending'[x].addr
    BY <2>2, <2>3
  <2> QED BY <2>3, <2>4, <2>5, StaySurrenders
<1>11. CASE Tick
  <2>1. UNCHANGED <<active, pending, release_pending, op>>
    BY <1>11 DEF Tick, inner, calls
  <2>2. Calm
    BY <1>2, <2>1
  <2> QED BY <2>1, <2>2, StaySurrenders
<1> QED BY <1>4, <1>5, <1>6, <1>7, <1>8, <1>9, <1>10, <1>11

-----------------------------------------------------------------------------
\* The steps of the table

\* reserve_at_time takes an address that nobody else holds, that no call has
\* parked and that is not quarantined.
LEMMA TakeRefines ==
  ASSUME IndInv, IndInv', NEW w \in Workers, NEW s \in Sessions, NEW d \in Devices,
         NEW t \in Nat, ReserveBegin(w, s, d, t)
  PROVE  \E l \in Table!Lease : Table!Take(l)
<1> DEFINE rest == [pending EXCEPT ![s] = None]
           lease(a) == [dev |-> d, addr |-> a, exp |-> t + PendingTTL]
           taken(a) == [Empty EXCEPT ![s] = lease(a)]
<1>1. PICK a \in Free(rest) : Park(w, "reserve", t, {s}, {}, taken(a))
  BY DEF ReserveBegin
<1>2. /\ phase = "up" /\ op[w].kind = "idle" /\ s \notin inflight
      /\ active[s] = None /\ pending' = rest
      /\ UNCHANGED <<phase, active, release_pending>>
  BY DEF ReserveBegin, Ready, MayReserve
<1>3. a \in Addresses /\ a \notin Used(rest)
  BY DEF Free
<1>4. /\ lease(a) \in Lease /\ lease(a).dev = d /\ lease(a).addr = a
      /\ taken(a)[s] = lease(a)
  BY <1>3, BoundsAssumption DEF Lease, Empty
<1> DEFINE l == lease(a)
           held == taken(a)
<1>5. /\ l \in Lease /\ l.dev = d /\ l.addr = a /\ held[s] = l
  BY <1>4
<1>6. /\ op'[w].kind = "reserve" /\ op'[w].batch = {s} /\ op'[w].taken = held
      /\ \A v \in Workers : v # w => op'[v] = op[v]
      /\ op[w].batch = {}
  BY <1>1, <1>2 DEF Park, Call, IndInv, TypeOK, CallsOK
<1>7. \A x \in Sessions : /\ pending'[x] = IF x = s THEN None ELSE pending[x]
                          /\ rest[x] = IF x = s THEN None ELSE pending[x]
  BY <1>2 DEF IndInv, TypeOK
<1>8. \A v \in Workers : s \notin Parked(v)
  BY <1>2 DEF IndInv, SingleHome, Parked
<1>9. /\ AddrsOf(active) \subseteq Used(rest) /\ AddrsOf(rest) \subseteq Used(rest)
      /\ AddrsOf(release_pending) \subseteq Used(rest)
      /\ inflight_addr \subseteq Used(rest)
  BY DEF Used
<1> HIDE DEF lease, taken, rest, l, held
<1> DEFINE row == [session |-> s, dev |-> d, addr |-> a]
           others == {m \in Leases : m.session # s}
<1>10. row \in Table!Lease /\ row.session = s /\ row.addr = a /\ row = Entry(s, l)
  BY <1>3, <1>5 DEF Table!Lease, Entry
<1>11. RowsAreLeases /\ RowsAreLeases'
  BY RowOf, PTL
<1>12. a \notin AddrsOf(release_pending)
  BY <1>3, <1>9
<1>13. \A m \in others : m.addr # a
  <2>1. ASSUME NEW x \in Sessions, x # s, NEW m \in Lease, At(x, m), m.addr = a
        PROVE  FALSE
    <3>1. CASE active[x] # None /\ m = active[x]
      BY <1>3, <1>9, <2>1, <3>1 DEF AddrsOf, Keys
    <3>2. CASE pending[x] # None /\ m = pending[x]
      BY <1>3, <1>7, <1>9, <2>1, <3>2 DEF AddrsOf, Keys
    <3>3. CASE \E v \in Workers : x \in Parked(v) /\ m = op[v].taken[x]
      BY <1>3, <1>9, <2>1, <3>3 DEF IndInv, CallsOK
    <3> QED BY <2>1, <3>1, <3>2, <3>3 DEF At
  <2> QED BY <1>11, <2>1 DEF RowsAreLeases, Entry
<1>14. \A x \in Sessions, m \in Lease :
         At(x, m)' <=> IF x = s THEN m = l ELSE At(x, m)
  <2>1. Parked(w)' = {s} /\ Parked(w) = {}
        /\ \A v \in Workers : v # w => Parked(v)' = Parked(v)
    BY <1>6 DEF Parked, ParkingKinds
  <2>2. ASSUME NEW x \in Sessions, NEW m \in Lease, x # s
        PROVE  At(x, m)' <=> At(x, m)
    BY <1>2, <1>6, <1>7, <2>1, <2>2 DEF At
  <2>3. ASSUME NEW m \in Lease
        PROVE  At(s, m)' <=> m = l
    <3>1. active'[s] = None /\ pending'[s] = None
      BY <1>2, <1>7
    <3>2. \A v \in Workers : s \in Parked(v)' <=> v = w
      BY <1>8, <2>1
    <3>3. op'[w].taken[s] = l
      BY <1>5, <1>6
    <3> QED BY <3>1, <3>2, <3>3 DEF At
  <2> QED BY <2>2, <2>3
<1>15. Leases' = others \cup {row}
  <2>1. ASSUME NEW e \in Leases' PROVE e \in others \cup {row}
    <3>1. PICK x \in Sessions, m \in Lease : At(x, m)' /\ e = Entry(x, m)
      BY <1>11 DEF RowsAreLeases, Entry
    <3>2. CASE x = s
      BY <1>10, <1>14, <3>1, <3>2
    <3>3. CASE x # s
      BY <1>11, <1>14, <3>1, <3>3 DEF RowsAreLeases, Entry
    <3> QED BY <3>2, <3>3
  <2>2. row \in Leases'
    <3>1. At(s, l)'
      BY <1>5, <1>14
    <3> QED BY <1>5, <1>10, <1>11, <3>1 DEF RowsAreLeases, Entry
  <2>3. ASSUME NEW e \in others PROVE e \in Leases'
    <3>1. PICK x \in Sessions, m \in Lease : At(x, m) /\ e = Entry(x, m)
      BY <1>11 DEF RowsAreLeases
    <3>2. x # s
      BY <3>1 DEF Entry
    <3>3. At(x, m)'
      BY <1>14, <3>1, <3>2
    <3> QED BY <1>11, <3>1, <3>3 DEF RowsAreLeases, Entry
  <2> QED BY <2>1, <2>2, <2>3
<1>16. AddrsOf(release_pending)' = AddrsOf(release_pending)
  BY <1>2 DEF AddrsOf, Keys
<1> HIDE DEF row
<1>17. Table!Take(row)
  BY <1>2, <1>10, <1>12, <1>13, <1>15, <1>16 DEF Table!Take
<1> QED BY <1>10, <1>17

\* Nothing is leased, parked or quarantined while the process is down.
LEMMA DownEmpty ==
  ASSUME IndInv
  PROVE  /\ phase = "down" => Leases = {}
         /\ phase # "up" => AddrsOf(release_pending) = {}
<1>1. phase # "up" => \A v \in Workers : Parked(v) = {}
  BY Quiet DEF Parked, ParkingKinds
<1>2. phase = "down" => Keys(active) = {} /\ Keys(pending) = {}
  BY DEF IndInv, RecoveryOK, Keys
<1>3. phase # "up" => Keys(release_pending) = {}
  BY Quiet DEF Keys
<1>4. phase = "down" => phase # "up"
  OBVIOUS
<1>5. phase = "down" => Leases = {}
  BY <1>1, <1>2, <1>4 DEF Leases
<1>6. phase # "up" => AddrsOf(release_pending) = {}
  BY <1>3 DEF AddrsOf
<1> QED BY <1>5, <1>6

\* The same of the next state.
LEMMA DownEmptyAlways ==
  IndInv => /\ phase = "down" => Leases = {}
            /\ phase # "up" => AddrsOf(release_pending) = {}
BY DownEmpty

\* A crash, or a start that gives up, loses the table.
LEMMA CrashRefines ==
  ASSUME IndInv', phase' = "down"
  PROVE  Table!Crash
<1>1. (IndInv => /\ phase = "down" => Leases = {}
                 /\ phase # "up" => AddrsOf(release_pending) = {})'
  BY DownEmptyAlways, PTL
<1> QED BY <1>1 DEF Table!Crash

\* Recovery fills the empty table with leases that do not collide.
LEMMA RestoreRefines ==
  ASSUME IndInv, IndInv', NEW now, Recover(now)
  PROVE  Table!Restore
<1>1. phase = "down" /\ phase' = "recovering" /\ UNCHANGED release_pending
  BY DEF Recover
<1>2. RowsAreLeases' /\ OneLeaseEach'
  BY RowOf, OneLease, PTL
<1>3. \A e \in Leases' : \E s \in Sessions, l \in Lease : At(s, l)' /\ e = Entry(s, l)
  BY <1>2 DEF RowsAreLeases, Entry
<1>4. Leases' \subseteq Table!Lease
  BY <1>3 DEF Entry, Lease, Table!Lease
<1>5. \A s \in Sessions, l \in Lease : At(s, l)' => Holds(s, l.addr)' /\ l.addr \in Addresses
  BY DEF At, Holds, Lease
<1>6. ASSUME NEW e \in Leases', NEW f \in Leases',
             e.session = f.session \/ e.addr = f.addr
      PROVE  e = f
  <2>1. PICK s \in Sessions, l \in Lease : At(s, l)' /\ e = Entry(s, l)
    BY <1>3
  <2>2. PICK x \in Sessions, m \in Lease : At(x, m)' /\ f = Entry(x, m)
    BY <1>3
  <2>3. s = x
    <3>1. CASE e.session = f.session
      BY <2>1, <2>2, <3>1 DEF Entry
    <3>2. CASE e.addr = f.addr
      <4>1. l.addr = m.addr
        BY <2>1, <2>2, <3>2 DEF Entry
      <4>2. UniqueAddresses'
        BY DEF IndInv
      <4> QED BY <1>5, <2>1, <2>2, <4>1, <4>2 DEF UniqueAddresses
    <3> QED BY <1>6, <3>1, <3>2
  <2>4. l = m
    BY <1>2, <2>1, <2>2, <2>3 DEF OneLeaseEach
  <2> QED BY <2>1, <2>2, <2>3, <2>4
<1>7. Leases = {}
  BY <1>1, DownEmpty
<1>8. AddrsOf(release_pending)' = AddrsOf(release_pending)
  BY <1>1 DEF AddrsOf, Keys
<1> QED BY <1>1, <1>4, <1>6, <1>7, <1>8 DEF Table!Restore

\* The end of recovery: the pool serves, or the start gives up.
LEMMA ServeRefines ==
  ASSUME IndInv, IndInv', RecoverDone
  PROVE  Table!Serve \/ Table!Crash
<1>1. CASE Room(stale_failed) = stale_failed
  <2>1. phase # "up" /\ phase' = "up" /\ UNCHANGED <<active, pending, op>>
    BY <1>1 DEF RecoverDone, calls
  <2>2. Leases' = Leases
    BY <2>1 DEF Leases, Keys, Parked, Entry
  <2>3. AddrsOf(release_pending)' \subseteq Addresses
    BY DEF IndInv, TypeOK, AddrsOf, Keys, Quarantined
  <2> QED BY <2>1, <2>2, <2>3 DEF Table!Serve
<1>2. CASE Room(stale_failed) # stale_failed
  <2>1. phase' = "down"
    BY <1>2 DEF RecoverDone
  <2> QED BY <2>1, CrashRefines
<1> QED BY <1>1, <1>2

-----------------------------------------------------------------------------
\* The refinement

\* The pool starts as an empty table that does not serve.
LEMMA InitRefines == Init => Table!Init
<1> SUFFICES ASSUME Init PROVE Table!Init
  OBVIOUS
<1>1. phase = "down"
  BY DEF Init
<1>2. Leases = {} /\ AddrsOf(release_pending) = {}
  BY <1>1, InitIndInv, DownEmpty
<1> QED BY <1>1, <1>2 DEF Table!Init

\* A step of the pool is a step of the table, or leaves the table as it is.
LEMMA NextRefines ==
  ASSUME IndInv, [Next]_vars
  PROVE  [Table!Next]_<<Leases, AddrsOf(release_pending), phase = "up">>
<1>1. IndInv'
  BY NextIndInv
<1>2. \A t \in Captured \cup {0} : t \in Nat
  BY CapturedType DEF IndInv
<1>3. ASSUME Surrenders, phase = "up", phase' = "up"
      PROVE  Table!Give
  BY <1>1, <1>3, GiveStep
<1>4. ASSUME NEW w \in Workers, Begin(w)
      PROVE  Table!Give \/ \E l \in Table!Lease : Table!Take(l)
  <2>1. phase = "up" /\ phase' = "up"
    BY <1>4 DEF Begin, ReserveBegin, ReserveExhausted, CommitBegin, RenewBegin,
                ReleaseBegin, SweepBegin, Ready
  <2>2. ASSUME NEW s \in Sessions, NEW t \in Captured, NEW d \in Devices,
               ReserveBegin(w, s, d, t)
        PROVE  \E l \in Table!Lease : Table!Take(l)
    BY <1>1, <1>2, <2>2, TakeRefines
  <2>3. CASE ~\E s \in Sessions, t \in Captured, d \in Devices :
               ReserveBegin(w, s, d, t)
    <3>1. Surrenders
      BY <1>2, <1>4, <2>3, BeginSurrenders, SweepBeginSurrenders, PlainSurrenders
      DEF Begin
    <3> QED BY <1>3, <2>1, <3>1
  <2> QED BY <2>2, <2>3
<1>5. ASSUME NEW w \in Workers, Continue(w) PROVE Table!Give
  <2>1. op[w].kind # "idle"
    BY <1>5 DEF Continue, StorePersist, StoreRelease, ReserveFinish, PromoteFinish,
                ExpireFinish, ReleaseFinish, RenewFinish, SweepFinish, RetryBegin,
                RetryFinish, Returns, PersistKinds, DeleteKinds
  <2>2. phase = "up"
    BY <2>1 DEF IndInv, CallsOK
  <2>3. phase' = phase
    BY <1>5 DEF Continue, StorePersist, StoreRelease, ReserveFinish, PromoteFinish,
                ExpireFinish, ReleaseFinish, RenewFinish, SweepFinish, RetryBegin,
                RetryFinish, DeleteFinish
  <2>4. Surrenders
    BY <1>5, EndSurrenders, PlainSurrenders DEF Continue
  <2> QED BY <1>3, <2>2, <2>3, <2>4
<1>6. ASSUME NEW s \in Sessions, ReleaseDeferred(s) PROVE Table!Give
  <2>1. phase = "up" /\ phase' = "up"
    BY <1>6 DEF ReleaseDeferred
  <2> QED BY <1>3, <1>6, <2>1, PlainSurrenders
<1>7. CASE Tick
  <2>1. phase = "up" /\ phase' = "up"
    BY <1>7 DEF Tick
  <2> QED BY <1>3, <1>7, <2>1, PlainSurrenders DEF Table!Next
<1>8. CASE Crash
  <2>1. phase' = "down"
    BY <1>8 DEF Crash
  <2> QED BY <1>1, <2>1, CrashRefines DEF Table!Next
<1>9. ASSUME NEW now \in BootTimes, Recover(now) PROVE Table!Restore
  BY <1>1, <1>9, RestoreRefines
<1>10. ASSUME UNCHANGED <<phase, active, pending, release_pending, op>>
       PROVE  UNCHANGED <<Leases, AddrsOf(release_pending), phase = "up">>
  BY <1>10 DEF Leases, Keys, Parked, Entry, AddrsOf
<1>11. CASE (\E s \in Sessions : RecoverDelete(s)) \/ UNCHANGED vars
  BY <1>10, <1>11 DEF RecoverDelete, vars, inner, calls
<1>12. CASE RecoverDone
  BY <1>1, <1>12, ServeRefines DEF Table!Next
<1> QED
  BY <1>4, <1>5, <1>6, <1>7, <1>8, <1>9, <1>11, <1>12 DEF Next, Table!Next

\* The address pool implements the lease table: an address changes hands only
\* by coming free first, a quarantined one goes to nobody before its record is
\* deleted, and a lease stays with the device it was made for, although every
\* call lets go of the mutex for its journal write.
THEOREM Refinement == Spec => Refines
<1>1. IndInv /\ [Next]_vars =>
        [Table!Next]_<<Leases, AddrsOf(release_pending), phase = "up">>
  BY NextRefines
<1> QED BY InitRefines, Inductive, <1>1, PTL DEF Spec, Refines, Table!Spec

-----------------------------------------------------------------------------
(***************************************************************************)
(* The journal and a crash.  CrashOK compares the expiry in each record    *)
(* with that of the lease it was written for, and says who keeps the       *)
(* address of a record that is fresh.  A step is checked session by        *)
(* session: RowKept for those it leaves alone, one lemma per phase for the *)
(* others.                                                                 *)
(***************************************************************************)
USE DEF Kinds, ParkingKinds, PersistKinds, DeleteKinds

\* A step of a running pool: the clock does not go back.
Later == boot' = boot /\ mono' \in Nat /\ mono <= mono'

\* A step that leaves session s alone.
Same(s) ==
  /\ active'[s] = active[s] /\ pending'[s] = pending[s]
  /\ release_pending'[s] = release_pending[s] /\ mirror'[s] = mirror[s]
  /\ s \in inflight' <=> s \in inflight
  /\ s \in stale' \cup stale_failed' <=> s \in stale \cup stale_failed
  /\ \A v \in Workers :
       /\ s \in op'[v].batch <=> s \in op[v].batch
       /\ s \in op[v].batch =>
            /\ op'[v].kind = op[v].kind /\ op'[v].now = op[v].now
            /\ op'[v].taken[s] = op[v].taken[s]
            /\ s \in op'[v].todo <=> s \in op[v].todo
            /\ s \in op'[v].failed <=> s \in op[v].failed

\* A record grows stale but never fresh.
LEMMA FreshBefore ==
  ASSUME TypeOK, NEW s \in Sessions, mirror'[s] = mirror[s], Later, Fresh(s)'
  PROVE  Fresh(s)
BY DEF Fresh, Later, wall, TypeOK, Record

\* What was true of a session stays true when the step leaves it alone.
LEMMA RowKept ==
  ASSUME TypeOK, NEW s \in Sessions, SessionExact(s), Same(s), Later
  PROVE  SessionExact(s)'
<1>1. /\ s \notin inflight' /\ active'[s] # None => Exact(s, active[s])'
      /\ s \notin inflight' /\ pending'[s] # None => Exact(s, pending[s])'
  BY DEF SessionExact, Same, Exact, Later
<1>2. Fresh(s)' => Guarded(s)'
  <2>1. ASSUME Fresh(s)' PROVE Guarded(s)
    BY <2>1, FreshBefore DEF SessionExact, Same
  <2>2. \A a : Holds(s, a) => Holds(s, a)'
    BY DEF Holds, Parked, Same
  <2> QED BY <2>1, <2>2 DEF Guarded, Same
<1>3. ASSUME NEW v \in Workers, s \in op'[v].batch PROVE CallExact(v, s)'
  <2>1. CallExact(v, s) /\ s \in op[v].batch
    BY <1>3 DEF SessionExact, Same
  <2>2. /\ op'[v].kind = op[v].kind /\ op'[v].now = op[v].now
        /\ op'[v].taken[s] = op[v].taken[s]
        /\ s \in op'[v].todo \cup op'[v].failed <=> s \in op[v].todo \cup op[v].failed
        /\ mirror'[s] = mirror[s] /\ boot' = boot /\ active'[s] = active[s]
    BY <1>3 DEF Same, Later
  <2>3. RecordOf(op[v], s)' = RecordOf(op[v], s)
    BY <2>2 DEF RecordOf
  <2>4. Fresh(s)' => Fresh(s)
    BY <2>2, FreshBefore
  <2> QED BY <2>1, <2>2, <2>3, <2>4 DEF CallExact, Exact
<1> QED BY <1>1, <1>2, <1>3 DEF SessionExact

\* What call w does to the sessions B, it does to no other session.
LEMMA OthersExact ==
  ASSUME TypeOK, NEW w \in Workers, NEW B \in SUBSET Sessions,
         \A v \in Workers : v # w => op'[v] = op[v],
         op[w].batch \subseteq B, op'[w].batch \subseteq B,
         \A s \in Sessions \ B :
           /\ active'[s] = active[s] /\ pending'[s] = pending[s]
           /\ release_pending'[s] = release_pending[s] /\ mirror'[s] = mirror[s]
           /\ s \in inflight' <=> s \in inflight,
         UNCHANGED <<clocks, recovery>>,
         \A s \in Sessions : SessionExact(s)
  PROVE  \A s \in Sessions \ B : SessionExact(s)'
<1>1. Later
  BY DEF Later, clocks, TypeOK
<1>2. ASSUME NEW s \in Sessions \ B PROVE Same(s)
  <2>1. ASSUME NEW v \in Workers
        PROVE  /\ s \in op'[v].batch <=> s \in op[v].batch
               /\ s \in op[v].batch => op'[v] = op[v]
    BY <2>1
  <2> QED BY <2>1 DEF Same, recovery
<1> QED BY <1>1, <1>2, RowKept

-----------------------------------------------------------------------------
\* The phases of a call, once each

\* Phase 1 of a call that parks leases.
LEMMA ParkExact ==
  ASSUME IndInv, NEW w \in Workers, phase = "up", op[w].kind = "idle",
         NEW kind \in ParkingKinds, NEW now, NEW batch \in SUBSET Sessions,
         NEW was, NEW taken,
         batch \cap inflight = {},
         \A s \in batch :
           IF kind = "reserve" THEN ~Fresh(s) /\ taken[s].exp = now + PendingTTL
           ELSE taken[s] # None /\ taken[s] \in {active[s], pending[s]},
         \A s \in Sessions :
           /\ active'[s] = IF s \in batch THEN None ELSE active[s]
           /\ pending'[s] = IF s \in batch THEN None ELSE pending[s],
         Park(w, kind, now, batch, was, taken),
         UNCHANGED <<clocks, release_pending, mirror, recovery>>,
         \A s \in Sessions : SessionExact(s)
  PROVE  \A s \in Sessions : SessionExact(s)'
<1>1. /\ op'[w].kind = kind /\ op'[w].batch = batch /\ op'[w].taken = taken
      /\ op'[w].todo = batch /\ op'[w].failed = {} /\ op'[w].now = now
      /\ \A v \in Workers : v # w => op'[v] = op[v]
  BY DEF Park, Call, IndInv, TypeOK
<1>2. /\ inflight' = inflight \cup batch /\ op[w].batch = {} /\ TypeOK
      /\ mono' = mono /\ boot' = boot
  BY DEF Park, IndInv, CallsOK, clocks
<1>3. \A s \in Sessions \ batch : SessionExact(s)'
  BY <1>1, <1>2, OthersExact
<1>4. ASSUME NEW s \in batch PROVE SessionExact(s)'
  <2>1. /\ s \in inflight' /\ s \notin inflight
        /\ \A v \in Workers : v # w => s \notin op'[v].batch
    BY <1>1, <1>2 DEF IndInv, SingleHome
  <2>2. Fresh(s)' = Fresh(s)
    BY <1>2 DEF Fresh, wall
  <2>3. kind # "reserve" => Exact(s, taken[s])'
    BY <1>2, <2>1 DEF SessionExact, Exact
  <2>4. CallExact(w, s)'
    BY <1>1, <1>4, <2>2, <2>3 DEF CallExact
  <2>5. Fresh(s)' => Holds(s, mirror[s].addr)'
    BY <1>1, <1>4, <2>2, <2>3 DEF Holds, Parked, Exact
  <2> QED BY <2>1, <2>4, <2>5 DEF SessionExact, Guarded
<1> QED BY <1>3, <1>4

\* Each lease that call w took agrees with its record where it goes, and the
\* address of a record that is fresh goes somewhere.
Settles(w) ==
  /\ \A s \in Sessions \ op[w].batch :
       /\ active'[s] = active[s] /\ pending'[s] = pending[s]
       /\ release_pending'[s] = release_pending[s]
  /\ \A s \in op[w].batch :
       /\ active'[s] # None => Exact(s, active'[s])
       /\ pending'[s] # None => Exact(s, pending'[s])
       /\ Fresh(s) => \/ active'[s] # None
                      \/ pending'[s] # None
                      \/ /\ release_pending'[s] # None
                         /\ release_pending'[s].addr = mirror[s].addr

\* Phase 3.
LEMMA FinishExact ==
  ASSUME IndInv, NEW w \in Workers, op'[w].batch = {},
         \A v \in Workers : v # w => op'[v] = op[v],
         inflight' = inflight \ op[w].batch,
         UNCHANGED <<clocks, mirror, recovery>>,
         Settles(w),
         \A s \in Sessions : SessionExact(s)
  PROVE  \A s \in Sessions : SessionExact(s)'
<1>1. op[w].batch \in SUBSET Sessions /\ TypeOK /\ mono' = mono /\ boot' = boot
  BY DEF IndInv, TypeOK, CallType, clocks
<1>2. \A s \in Sessions \ op[w].batch : SessionExact(s)'
  BY <1>1, OthersExact DEF Settles
<1>3. ASSUME NEW s \in op[w].batch PROVE SessionExact(s)'
  <2>1. \A v \in Workers : s \notin op'[v].batch
    BY <1>3 DEF IndInv, SingleHome
  <2>2. /\ active'[s] # None => Exact(s, active[s])'
        /\ pending'[s] # None => Exact(s, pending[s])'
    BY <1>1 DEF Settles, Exact
  <2>3. Fresh(s)' = Fresh(s)
    BY <1>1 DEF Fresh, wall
  <2>4. Fresh(s)' => Guarded(s)'
    BY <2>2, <2>3 DEF Settles, Guarded, Holds, Exact
  <2> QED BY <2>1, <2>2, <2>4 DEF SessionExact
<1> QED BY <1>2, <1>3

\* Phase 1 of a renewal and of a retry.
LEMMA VisitExact ==
  ASSUME IndInv, NEW w \in Workers, phase = "up", op[w].kind \in {"idle", "retry_due"},
         NEW next, op' = [op EXCEPT ![w] = next],
         next.batch \in SUBSET Sessions,
         next.batch \cap inflight = {}, inflight' = inflight \cup next.batch,
         UNCHANGED <<clocks, active, pending, release_pending, mirror, recovery>>,
         \A s \in next.batch : CallExact(w, s)',
         \A s \in Sessions : SessionExact(s)
  PROVE  \A s \in Sessions : SessionExact(s)'
<1>1. /\ op'[w] = next /\ \A v \in Workers : v # w => op'[v] = op[v]
      /\ op[w].batch = {} /\ TypeOK /\ mono' = mono /\ boot' = boot
      /\ Parked(w) = {}
  BY DEF IndInv, TypeOK, CallsOK, Parked, clocks
<1>2. \A s \in Sessions \ next.batch : SessionExact(s)'
  BY <1>1, OthersExact
<1>3. ASSUME NEW s \in next.batch PROVE SessionExact(s)'
  <2>1. /\ s \in inflight' /\ s \notin inflight
        /\ \A v \in Workers : v # w => s \notin op'[v].batch
    BY <1>1, <1>3 DEF IndInv, SingleHome
  <2>2. Fresh(s)' = Fresh(s)
    BY <1>1 DEF Fresh, wall
  <2>3. \A v \in Workers : Parked(v) \subseteq Parked(v)'
                           /\ (v = w \/ op'[v].taken = op[v].taken)
    BY <1>1 DEF Parked
  <2>4. Guarded(s) => Guarded(s)'
    BY <1>1, <2>3 DEF Guarded, Holds, recovery
  <2> QED BY <1>1, <1>3, <2>1, <2>2, <2>4 DEF SessionExact
<1> QED BY <1>2, <1>3

\* Phase 2: the write of one record, or its failure, which leaves the file alone.
LEMMA StoreExact ==
  ASSUME IndInv, JournalOK, Durable, ~TornWrites,
         NEW w \in Workers, StorePersist(w) \/ StoreRelease(w),
         mirror = file, \A s \in Sessions : SessionExact(s)
  PROVE  /\ mirror' = file'
         /\ \A s \in Sessions : SessionExact(s)'
         /\ \A s \in Sessions : Fresh(s)' =>
              \/ Fresh(s) /\ mirror'[s] = mirror[s]
              \/ Holds(s, mirror[s].addr)'
<1>1. /\ UNCHANGED <<phase, mono, boot, active, pending, release_pending, inflight,
                     stale, stale_failed>>
      /\ phase = "up" /\ TypeOK
  BY DEF StorePersist, StoreRelease, inner, clocks, recovery, IndInv, CallsOK
<1> PICK s \in op[w].todo :
      \E r : /\ JournalWrite([mirror EXCEPT ![s] = r], w, s)
             /\ \/ op[w].kind \in PersistKinds /\ r = RecordOf(op[w], s)
                \/ op[w].kind \in DeleteKinds /\ r = None
  BY DEF StorePersist, StoreRelease
<1>3. PICK r : /\ JournalWrite([mirror EXCEPT ![s] = r], w, s)
               /\ \/ op[w].kind \in PersistKinds /\ r = RecordOf(op[w], s)
                  \/ op[w].kind \in DeleteKinds /\ r = None
  OBVIOUS
<1>2. /\ s \in Sessions /\ s \in op[w].batch /\ op[w] \in CallType
      /\ CallBacked(w, s) /\ s \notin op[w].failed
      /\ op[w].kind \in PersistKinds => op[w].taken[s] \in Lease
      /\ op[w].kind = "renew" => active[s] # None
  BY <1>1 DEF IndInv, TypeOK, CallsOK, CallType, JournalOK, CallBacked
<1>4. /\ \A v \in Workers : v # w => op'[v] = op[v]
      /\ op'[w].kind = op[w].kind /\ op'[w].batch = op[w].batch
      /\ op'[w].taken = op[w].taken /\ op'[w].now = op[w].now
      /\ op'[w].todo = op[w].todo \ {s}
  BY <1>3 DEF JournalWrite, IndInv, TypeOK, CallType
<1>5. /\ mirror' = file'
      /\ \/ mirror' = [mirror EXCEPT ![s] = r] /\ op'[w].failed = op[w].failed
         \/ mirror' = mirror /\ op'[w].failed = op[w].failed \cup {s}
  <2>1. mirror' = file'
    BY <1>3 DEF JournalWrite
  <2>2. \/ mirror' = [mirror EXCEPT ![s] = r] /\ op'[w].failed = op[w].failed
        \/ mirror' = mirror /\ op'[w].failed = op[w].failed \cup {s}
    BY <1>3 DEF JournalWrite, IndInv, TypeOK, CallType
  <2> QED BY <2>1, <2>2
<1>6. \A x \in Sessions : x # s => mirror'[x] = mirror[x]
  BY <1>5 DEF IndInv, TypeOK
<1>7. ASSUME NEW x \in Sessions, x # s PROVE SessionExact(x)'
  <2>1. Same(x)
    BY <1>1, <1>4, <1>5, <1>6, <1>7 DEF Same
  <2>2. Later
    BY <1>1 DEF Later, TypeOK
  <2> QED BY <1>1, <2>1, <2>2, RowKept
<1>8. \A v \in Workers : Parked(v)' = Parked(v) /\ op'[v].taken = op[v].taken
  BY <1>4 DEF Parked
<1>9. \A x \in Sessions : \A a : Holds(x, a)' <=> Holds(x, a)
  BY <1>1, <1>8 DEF Holds
<1>10. /\ s \in inflight /\ \A v \in Workers : s \in op'[v].batch <=> v = w
       /\ SessionExact(s) /\ CallExact(w, s)
  BY <1>2, <1>4 DEF IndInv, SingleHome, SessionExact
<1>11. CASE mirror' = mirror /\ op'[w].failed = op[w].failed \cup {s}
  <2>1. Fresh(s)' = Fresh(s) /\ Guarded(s)' = Guarded(s)
    BY <1>1, <1>2, <1>9, <1>11 DEF Fresh, wall, Guarded
  <2>2. s \in op'[w].todo \cup op'[w].failed
    BY <1>11
  <2>3. CallExact(w, s)'
    BY <1>1, <1>4, <1>10, <1>11, <2>1, <2>2 DEF CallExact, Exact
  <2>4. SessionExact(s)'
    BY <1>1, <1>10, <2>1, <2>3 DEF SessionExact
  <2>5. \A x \in Sessions : Fresh(x)' = Fresh(x)
    BY <1>1, <1>11 DEF Fresh, wall
  <2> QED BY <1>5, <1>7, <1>11, <2>4, <2>5
<1>12. CASE mirror' = [mirror EXCEPT ![s] = r] /\ op'[w].failed = op[w].failed
  <2>1. mirror'[s] = r
    BY <1>2, <1>12 DEF IndInv, TypeOK
  <2>2. s \notin op'[w].todo \cup op'[w].failed
    BY <1>2, <1>4, <1>12
  <2>3. CallExact(w, s)'
    <3>1. RecordOf(op[w], s)' = RecordOf(op[w], s)
      BY <1>1, <1>4 DEF RecordOf
    <3> QED BY <1>3, <1>4, <1>10, <2>1, <2>2, <3>1 DEF CallExact
  <2>4. Fresh(s)' => Holds(s, r.addr)
    <3>1. CASE op[w].kind \in {"reserve", "promote"} /\ r = RecordOf(op[w], s)
      <4>1. r.addr = op[w].taken[s].addr
        BY <3>1 DEF RecordOf
      <4> QED BY <1>2, <3>1, <4>1 DEF Holds, Parked
    <3>2. CASE op[w].kind = "renew" /\ r = RecordOf(op[w], s)
      <4>1. r.addr = op[w].taken[s].addr /\ active[s].addr = op[w].taken[s].addr
        BY <1>2, <3>2 DEF RecordOf, CallBacked
      <4> QED BY <1>2, <3>2, <4>1 DEF Holds
    <3>3. CASE r = None
      BY <2>1, <3>3 DEF Fresh
    <3> QED BY <1>3, <3>1, <3>2, <3>3
  <2>5. SessionExact(s)'
    <3>1. s \in inflight' /\ \A v \in Workers : s \in op'[v].batch => CallExact(v, s)'
      BY <1>1, <1>10, <2>3
    <3>2. Fresh(s)' => Guarded(s)'
      BY <1>2, <1>9, <2>1, <2>4 DEF Guarded
    <3> QED BY <3>1, <3>2 DEF SessionExact
  <2>6. \A x \in Sessions : x # s => Fresh(x)' = Fresh(x)
    BY <1>1, <1>6 DEF Fresh, wall
  <2> QED BY <1>2, <1>5, <1>6, <1>7, <1>9, <2>1, <2>4, <2>5, <2>6
<1> QED BY <1>5, <1>11, <1>12

-----------------------------------------------------------------------------
\* The actions, in groups

\* Of a session that nothing is known of in memory, no record is fresh.
LEMMA NothingFresh ==
  ASSUME IndInv, phase = "up", NEW s \in Sessions, SessionExact(s),
         s \notin inflight, active[s] = None, release_pending[s] = None,
         pending[s] # None => pending[s].exp <= mono
  PROVE  ~Fresh(s)
<1>1. stale = {} /\ stale_failed = {} /\ mono \in Nat /\ boot \in Nat
      /\ (pending[s] # None => pending[s] \in Lease)
  BY DEF IndInv, RecoveryOK, TypeOK
<1>2. \A v \in Workers : s \notin Parked(v)
  BY DEF IndInv, SingleHome, Parked
<1>3. CASE pending[s] = None
  BY <1>1, <1>2, <1>3 DEF SessionExact, Guarded, Holds
<1>4. CASE pending[s] # None
  BY <1>1, <1>4 DEF SessionExact, Exact, Fresh, wall, Lease
<1> QED BY <1>3, <1>4

\* The first phases of reserve_at_time, commit_at_time and release_at.
LEMMA BeginExact ==
  ASSUME IndInv, NEW w \in Workers, NEW s \in Sessions, NEW t \in Nat,
         \/ t <= mono /\ \E d \in Devices : ReserveBegin(w, s, d, t)
         \/ CommitBegin(w, s, t) \/ ReleaseBegin(w, s, t),
         \A x \in Sessions : SessionExact(x)
  PROVE  \A x \in Sessions : SessionExact(x)'
<1>1. /\ phase = "up" /\ op[w].kind = "idle" /\ {s} \cap inflight = {}
      /\ UNCHANGED <<clocks, release_pending, mirror, recovery>>
  BY DEF ReserveBegin, CommitBegin, ReleaseBegin, Ready, store
<1> DEFINE taken(l) == [Empty EXCEPT ![s] = l]
<1>2. \A l : taken(l)[s] = l
  BY DEF Empty
<1>3. PICK kind, was, l :
        /\ kind \in ParkingKinds
        /\ IF kind = "reserve" THEN ~Fresh(s) /\ l.exp = t + PendingTTL
           ELSE l # None /\ l \in {active[s], pending[s]}
        /\ Park(w, kind, t, {s}, was, taken(l))
  <2>1. CASE t <= mono /\ \E d \in Devices : ReserveBegin(w, s, d, t)
    <3>1. \E l : l.exp = t + PendingTTL /\ Park(w, "reserve", t, {s}, {}, taken(l))
      <4>1. PICK d \in Devices : ReserveBegin(w, s, d, t)
        BY <2>1
      <4>2. PICK a : Park(w, "reserve", t, {s}, {},
                          taken([dev |-> d, addr |-> a, exp |-> t + PendingTTL]))
        BY <4>1 DEF ReserveBegin
      <4> DEFINE l == [dev |-> d, addr |-> a, exp |-> t + PendingTTL]
      <4>3. l.exp = t + PendingTTL
        OBVIOUS
      <4>4. Park(w, "reserve", t, {s}, {}, taken(l))
        BY <4>2
      <4> HIDE DEF taken, l
      <4> QED BY <4>3, <4>4
    <3>2. /\ active[s] = None /\ release_pending[s] = None
          /\ pending[s] # None => t >= pending[s].exp
      BY <2>1 DEF ReserveBegin, MayReserve
    <3>3. pending[s] # None => pending[s].exp <= mono
      BY <2>1, <3>2 DEF IndInv, TypeOK, Lease
    <3>4. ~Fresh(s)
      BY <1>1, <3>2, <3>3, NothingFresh
    <3> HIDE DEF taken
    <3> QED BY <3>1, <3>4
  <2>2. CASE CommitBegin(w, s, t)
    <3>1. \E kind \in {"expire", "promote"} :
            Park(w, kind, t, {s}, {s}, taken(pending[s]))
      BY <2>2 DEF CommitBegin
    <3>2. pending[s] # None
      BY <2>2 DEF CommitBegin
    <3> HIDE DEF taken
    <3> QED BY <3>1, <3>2
  <2>3. CASE ReleaseBegin(w, s, t)
    <3>1. \/ pending[s] # None /\ Park(w, "release", t, {s}, {s}, taken(pending[s]))
          \/ active[s] # None /\ Park(w, "release", t, {s}, {}, taken(active[s]))
      BY <2>3 DEF ReleaseBegin
    <3> HIDE DEF taken
    <3> QED BY <3>1
  <2> HIDE DEF taken
  <2> QED BY <2>1, <2>2, <2>3
<1>4. \A x \in Sessions :
        /\ active'[x] = IF x \in {s} THEN None ELSE active[x]
        /\ pending'[x] = IF x \in {s} THEN None ELSE pending[x]
  BY DEF ReserveBegin, MayReserve, CommitBegin, ReleaseBegin, IndInv, TypeOK, SingleHome
<1> DEFINE held == taken(l)
<1>5. Park(w, kind, t, {s}, was, held)
  BY <1>3
<1>6. \A x \in {s} :
        IF kind = "reserve" THEN ~Fresh(x) /\ held[x].exp = t + PendingTTL
        ELSE held[x] # None /\ held[x] \in {active[x], pending[x]}
  BY <1>2, <1>3
<1> HIDE DEF taken, held
<1> QED BY <1>1, <1>3, <1>4, <1>5, <1>6, ParkExact

\* sweep, phase 1.
LEMMA SweepBeginExact ==
  ASSUME IndInv, NEW w \in Workers, NEW t, SweepBegin(w, t),
         \A x \in Sessions : SessionExact(x)
  PROVE  \A x \in Sessions : SessionExact(x)'
<1> DEFINE p == Expired(pending, t)
           a == Expired(active, t)
           taken == [s \in Sessions |-> IF s \in p THEN pending[s]
                                        ELSE IF s \in a THEN active[s] ELSE None]
<1>1. /\ p \cup a \in SUBSET Sessions /\ (p \cup a) \cap inflight = {}
      /\ \A s \in p : pending[s] # None
      /\ \A s \in a : active[s] # None
      /\ phase = "up" /\ op[w].kind = "idle" /\ op[w].batch = {}
      /\ UNCHANGED <<clocks, release_pending, mirror, recovery>>
  BY DEF Expired, Keys, SweepBegin, store, IndInv, CallsOK
<1>2. CASE p \cup a = {}
  <2> DEFINE next == AfterSweep(t)
  <2>1. op' = [op EXCEPT ![w] = next] /\ UNCHANGED <<active, pending, inflight>>
    BY <1>2 DEF SweepBegin
  <2>2. next.batch = {}
    BY DEF AfterSweep, Idle
  <2> HIDE DEF next
  <2> QED BY <1>1, <2>1, <2>2, VisitExact
<1>3. CASE p \cup a # {}
  <2>1. /\ Park(w, "sweep", t, p \cup a, p, taken)
        /\ pending' = [s \in Sessions |-> IF s \in p THEN None ELSE pending[s]]
        /\ active' = [s \in Sessions |-> IF s \in a THEN None ELSE active[s]]
    BY <1>3 DEF SweepBegin
  <2>2. \A s \in p \cup a : taken[s] # None /\ taken[s] \in {active[s], pending[s]}
    BY <1>1
  <2> HIDE DEF p, a, taken
  <2>3. \A s \in Sessions :
           /\ active'[s] = IF s \in p \cup a THEN None ELSE active[s]
           /\ pending'[s] = IF s \in p \cup a THEN None ELSE pending[s]
    BY <1>1, <2>1 DEF IndInv, SingleHome
  <2> QED BY <1>1, <2>1, <2>2, <2>3, ParkExact
<1> QED BY <1>2, <1>3

\* The last phases of a reservation, of a promotion and of a delete.
LEMMA EndExact ==
  ASSUME IndInv, NEW w \in Workers,
         \/ ReserveFinish(w) \/ PromoteFinish(w)
         \/ ExpireFinish(w) \/ ReleaseFinish(w) \/ SweepFinish(w),
         \A x \in Sessions : SessionExact(x)
  PROVE  \A x \in Sessions : SessionExact(x)'
<1>1. /\ op[w].kind \in {"reserve", "promote", "expire", "release", "sweep"}
      /\ op[w].todo = {} /\ op[w] \in CallType
      /\ UNCHANGED <<clocks, mirror, recovery>>
      /\ inflight' = inflight \ op[w].batch
  BY DEF ReserveFinish, PromoteFinish, ExpireFinish, ReleaseFinish, SweepFinish,
         DeleteFinish, Returns, Unpark, store, IndInv, TypeOK
<1>2. op[w].failed \subseteq op[w].batch /\ boot \in Nat
  BY DEF IndInv, CallsOK, TypeOK
<1>3. \A s \in op[w].batch :
        /\ s \in Sessions /\ op[w].taken[s] \in Lease /\ op[w].taken[s] # None
        /\ active[s] = None /\ pending[s] = None /\ release_pending[s] = None
  BY <1>1, NoneAssumption DEF IndInv, SingleHome, CallsOK, Parked, CallType
<1>4. PICK next : next.batch = {} /\ op' = [op EXCEPT ![w] = next]
  BY DEF ReserveFinish, PromoteFinish, ExpireFinish, ReleaseFinish, SweepFinish,
         DeleteFinish, Idle, AfterSweep
<1>5. op'[w].batch = {} /\ \A v \in Workers : v # w => op'[v] = op[v]
  BY <1>4 DEF IndInv, TypeOK
<1>6. \A s \in op[w].batch : CallExact(w, s)
  BY <1>3 DEF SessionExact
<1>7. Settles(w)
  <2>1. CASE ReserveFinish(w)
    <3>1. /\ op[w].kind = "reserve" /\ UNCHANGED <<active, release_pending>>
          /\ pending' = [s \in Sessions |->
               IF s \in op[w].batch \ op[w].failed
                    /\ release_pending[s] = None /\ active[s] = None
               THEN op[w].taken[s] ELSE pending[s]]
      BY <2>1 DEF ReserveFinish, Returns
    <3>2. ASSUME NEW s \in op[w].batch \ op[w].failed PROVE Exact(s, op[w].taken[s])
      <4>1. mirror[s] = RecordOf(op[w], s) /\ op[w].taken[s].exp = op[w].now + PendingTTL
        BY <1>1, <1>6, <3>1 DEF CallExact
      <4>2. /\ mirror[s].addr = op[w].taken[s].addr
            /\ mirror[s].exp = boot + op[w].now + PendingTTL
        BY <3>1, <4>1 DEF RecordOf
      <4>3. mirror[s] # None
        <5>1. RecordOf(op[w], s) \in Record
          BY <1>1, <1>2, <1>3, <3>1, BoundsAssumption
          DEF RecordOf, Record, Lease, CallType
        <5> QED BY <4>1, <5>1, NoneAssumption
      <4>4. op[w].now \in Nat /\ PendingTTL \in Nat
        BY <1>1, BoundsAssumption DEF CallType
      <4> QED BY <1>2, <4>1, <4>2, <4>3, <4>4 DEF Exact
    <3>3. \A s \in op[w].failed : ~Fresh(s)
      BY <1>2, <1>6, <3>1 DEF CallExact
    <3>4. \A s \in op[w].batch : /\ active'[s] = None
                                 /\ pending'[s] = IF s \in op[w].failed THEN None
                                                  ELSE op[w].taken[s]
      BY <1>3, <3>1
    <3>5. \A s \in Sessions \ op[w].batch : pending'[s] = pending[s]
      BY <3>1
    <3> QED BY <1>3, <3>1, <3>2, <3>3, <3>4, <3>5 DEF Settles
  <2>2. CASE PromoteFinish(w)
    <3>1. /\ op[w].kind = "promote" /\ UNCHANGED release_pending
          /\ pending' = [s \in Sessions |->
               IF s \in op[w].failed THEN op[w].taken[s] ELSE pending[s]]
          /\ active' = [s \in Sessions |->
               IF s \in op[w].batch \ op[w].failed
                    /\ release_pending[s] = None /\ active[s] = None
               THEN [op[w].taken[s] EXCEPT !.exp = op[w].now + LeaseTTL]
               ELSE active[s]]
      BY <2>2 DEF PromoteFinish, Returns
    <3> DEFINE grown(s) == [op[w].taken[s] EXCEPT !.exp = op[w].now + LeaseTTL]
    <3>2. ASSUME NEW s \in op[w].batch \ op[w].failed
          PROVE  Exact(s, grown(s)) /\ grown(s) # None
      <4>1. mirror[s] = RecordOf(op[w], s)
        BY <1>1, <1>6, <3>1 DEF CallExact
      <4>2. /\ mirror[s].addr = op[w].taken[s].addr
            /\ mirror[s].exp = boot + op[w].now + LeaseTTL
        BY <3>1, <4>1 DEF RecordOf
      <4>3. mirror[s] # None
        <5>1. RecordOf(op[w], s) \in Record
          BY <1>1, <1>2, <1>3, <3>1, BoundsAssumption
          DEF RecordOf, Record, Lease, CallType
        <5> QED BY <4>1, <5>1, NoneAssumption
      <4>4. op[w].now \in Nat /\ LeaseTTL \in Nat
        BY <1>1, BoundsAssumption DEF CallType
      <4>5. /\ grown(s).addr = op[w].taken[s].addr /\ grown(s) \in Lease
            /\ grown(s).exp = op[w].now + LeaseTTL
        BY <1>3, <4>4 DEF Lease
      <4> HIDE DEF grown
      <4> QED BY <1>2, <4>2, <4>3, <4>4, <4>5, NoneAssumption DEF Exact
    <3>3. \A s \in op[w].failed : Exact(s, op[w].taken[s])
      BY <1>2, <1>6, <3>1 DEF CallExact
    <3>4. \A s \in op[w].batch :
            IF s \in op[w].failed
            THEN active'[s] = None /\ pending'[s] = op[w].taken[s]
            ELSE active'[s] = grown(s) /\ pending'[s] = None
      BY <1>3, <3>1
    <3>5. \A s \in Sessions \ op[w].batch :
            active'[s] = active[s] /\ pending'[s] = pending[s]
      BY <1>2, <3>1
    <3> HIDE DEF grown
    <3>6. \A s \in op[w].batch :
            /\ active'[s] # None => Exact(s, active'[s])
            /\ pending'[s] # None => Exact(s, pending'[s])
            /\ active'[s] # None \/ pending'[s] # None
      BY <1>3, <3>2, <3>3, <3>4
    <3>7. \A s \in Sessions \ op[w].batch :
            /\ active'[s] = active[s] /\ pending'[s] = pending[s]
            /\ release_pending'[s] = release_pending[s]
      BY <3>1, <3>5
    <3> QED BY <3>6, <3>7 DEF Settles
  <2>3. CASE ExpireFinish(w) \/ ReleaseFinish(w) \/ SweepFinish(w)
    <3>1. PICK reserved, after : DeleteFinish(w, reserved, after)
      BY <2>3 DEF ExpireFinish, ReleaseFinish, SweepFinish
    <3>2. op[w].kind \in {"expire", "release", "sweep"}
      BY <2>3 DEF ExpireFinish, ReleaseFinish, SweepFinish, Returns
    <3> DEFINE queued == Room(op[w].failed)
               kept == op[w].failed \ queued
    <3>3. /\ release_pending' = [s \in Sessions |->
               IF s \in queued THEN Quarantine(op[w].taken[s], op[w].now)
                               ELSE release_pending[s]]
          /\ pending' = [s \in Sessions |->
               IF s \in kept \cap reserved THEN op[w].taken[s] ELSE pending[s]]
          /\ active' = [s \in Sessions |->
               IF s \in kept \ reserved THEN op[w].taken[s] ELSE active[s]]
      BY <3>1 DEF DeleteFinish
    <3>4. queued \subseteq op[w].failed
      BY DEF Room
    <3> HIDE DEF queued
    <3>5. ASSUME NEW s \in op[w].failed
          PROVE  /\ Exact(s, op[w].taken[s])
                 /\ \/ active'[s] # None \/ pending'[s] # None
                    \/ /\ release_pending'[s] # None
                       /\ release_pending'[s].addr = mirror[s].addr
      <4>1. Exact(s, op[w].taken[s])
        BY <1>2, <1>6, <3>2 DEF CallExact
      <4>2. CASE s \in queued
        <5> DEFINE q == Quarantine(op[w].taken[s], op[w].now)
        <5>1. q.addr = op[w].taken[s].addr
          BY DEF Quarantine
        <5>2. q \in Quarantined
          BY <1>1, <1>2, <1>3, QuarantineType DEF CallType
        <5>3. release_pending'[s] = q
          BY <1>2, <1>3, <3>3, <4>2
        <5> HIDE DEF q
        <5> QED BY <4>1, <5>1, <5>2, <5>3, NoneAssumption DEF Exact
      <4>3. CASE s \notin queued
        BY <1>2, <1>3, <3>3, <4>1, <4>3
      <4> QED BY <4>1, <4>2, <4>3
    <3>6. \A s \in op[w].batch :
            /\ active'[s] # None => s \in op[w].failed /\ active'[s] = op[w].taken[s]
            /\ pending'[s] # None => s \in op[w].failed /\ pending'[s] = op[w].taken[s]
      BY <1>3, <3>3
    <3>7. \A s \in op[w].batch \ op[w].failed : ~Fresh(s)
      BY <1>1, <1>6, <3>2 DEF CallExact, Fresh
    <3>8. \A s \in Sessions \ op[w].batch :
            /\ active'[s] = active[s] /\ pending'[s] = pending[s]
            /\ release_pending'[s] = release_pending[s]
      BY <1>2, <3>3, <3>4
    <3> QED BY <3>5, <3>6, <3>7, <3>8 DEF Settles
  <2> QED BY <2>1, <2>2, <2>3
<1> QED BY <1>1, <1>5, <1>7, FinishExact

\* The first phases of a renewal and of a retry.
LEMMA VisitBeginExact ==
  ASSUME IndInv, NEW w \in Workers,
         (\E s \in Sessions, t \in Nat : RenewBegin(w, s, t)) \/ RetryBegin(w),
         \A x \in Sessions : SessionExact(x)
  PROVE  \A x \in Sessions : SessionExact(x)'
<1>1. CASE \E s \in Sessions, t \in Nat : RenewBegin(w, s, t)
  <2>1. PICK s \in Sessions, t \in Nat : RenewBegin(w, s, t)
    BY <1>1
  <2> DEFINE taken == [Empty EXCEPT ![s] = active[s]]
             next == Call("renew", t, {s}, {}, taken)
  <2>2. /\ phase = "up" /\ s \notin inflight /\ active[s] # None
        /\ op' = [op EXCEPT ![w] = next] /\ inflight' = inflight \cup {s}
        /\ UNCHANGED <<clocks, active, pending, release_pending, mirror, recovery>>
        /\ op[w].kind = "idle"
    BY <2>1 DEF RenewBegin, Ready, store
  <2>3. /\ next.batch = {s} /\ next.todo = {s} /\ next.failed = {}
        /\ next.kind = "renew"
    BY DEF Call
  <2> HIDE DEF next
  <2>4. op'[w] = next
    BY <2>2 DEF IndInv, TypeOK
  <2>5. CallExact(w, s)'
    <3>1. Exact(s, active[s])'
      BY <2>2 DEF SessionExact, Exact, clocks
    <3> QED BY <2>3, <2>4, <3>1 DEF CallExact
  <2> QED BY <2>2, <2>3, <2>5, VisitExact
<1>2. CASE RetryBegin(w)
  <2>1. PICK batch \in SUBSET Sessions :
          /\ \A s \in batch : release_pending[s] # None /\ s \notin inflight
          /\ inflight' = inflight \cup batch
          /\ op' = [op EXCEPT ![w] =
                      IF batch = {} THEN Idle
                      ELSE Call("retry", op[w].now, batch, {}, Empty)]
    BY <1>2, RetryBatch
  <2>2. /\ phase = "up" /\ op[w].kind = "retry_due"
        /\ UNCHANGED <<clocks, active, pending, release_pending, mirror, recovery>>
    BY <1>2 DEF RetryBegin, store
  <2> DEFINE next == IF batch = {} THEN Idle
                     ELSE Call("retry", op[w].now, batch, {}, Empty)
  <2>3. /\ next.batch = batch
        /\ batch # {} => next.kind = "retry" /\ next.todo = batch
    BY DEF Idle, Call
  <2>4. op' = [op EXCEPT ![w] = next]
    BY <2>1
  <2> HIDE DEF next
  <2>5. op'[w] = next
    BY <2>4 DEF IndInv, TypeOK
  <2>6. \A s \in batch : CallExact(w, s)'
    BY <2>3, <2>5 DEF CallExact
  <2> QED BY <2>1, <2>2, <2>3, <2>4, <2>6, VisitExact
<1> QED BY <1>1, <1>2

\* The last phases of a renewal and of a retry.
LEMMA VisitEndExact ==
  ASSUME IndInv, JournalOK, Durable, NEW w \in Workers,
         RenewFinish(w) \/ RetryFinish(w),
         \A x \in Sessions : SessionExact(x)
  PROVE  \A x \in Sessions : SessionExact(x)'
<1>1. /\ op' = [op EXCEPT ![w] = Idle] /\ inflight' = inflight \ op[w].batch
      /\ op[w].kind \in {"renew", "retry"} /\ op[w].todo = {}
      /\ UNCHANGED <<clocks, pending, mirror, recovery>>
  BY DEF RenewFinish, RetryFinish, Returns, store
<1>2. /\ phase = "up" /\ op'[w].batch = {} /\ boot \in Nat /\ op[w] \in CallType
      /\ \A v \in Workers : v # w => op'[v] = op[v]
  BY <1>1 DEF IndInv, CallsOK, TypeOK, Idle
<1>3. /\ op[w].batch \subseteq Sessions /\ op[w].failed \subseteq op[w].batch
      /\ stale = {} /\ stale_failed = {}
  BY <1>2 DEF IndInv, TypeOK, CallType, CallsOK, RecoveryOK
<1>4. \A s \in op[w].batch : CallBacked(w, s) /\ CallExact(w, s)
  BY <1>2, <1>3 DEF JournalOK, SessionExact
<1>5. Settles(w)
  <2>1. CASE RenewFinish(w)
    <3>1. /\ op[w].kind = "renew" /\ UNCHANGED release_pending
          /\ active' = [s \in Sessions |->
               IF /\ s \in op[w].batch \ op[w].failed
                  /\ active[s] # None
                  /\ active[s].dev = op[w].taken[s].dev
                  /\ active[s].addr = op[w].taken[s].addr
               THEN [active[s] EXCEPT !.exp = op[w].now + LeaseTTL]
               ELSE active[s]]
      BY <2>1 DEF RenewFinish, Returns
    <3>2. \A s \in op[w].batch :
            /\ active[s] \in Lease /\ active[s] # None /\ pending[s] = None
            /\ active[s].dev = op[w].taken[s].dev /\ active[s].addr = op[w].taken[s].addr
      BY <1>3, <1>4, <3>1 DEF IndInv, TypeOK, CallsOK, SingleHome, CallBacked
    <3>3. \A s \in op[w].failed : Exact(s, active[s])
      BY <1>3, <1>4, <3>1 DEF CallExact
    <3> DEFINE grown(s) == [active[s] EXCEPT !.exp = op[w].now + LeaseTTL]
    <3>4. ASSUME NEW s \in op[w].batch \ op[w].failed
          PROVE  Exact(s, grown(s)) /\ grown(s) # None
      <4>1. mirror[s] = RecordOf(op[w], s)
        BY <1>1, <1>4, <3>1 DEF CallExact
      <4>2. /\ mirror[s].addr = op[w].taken[s].addr
            /\ mirror[s].exp = boot + op[w].now + LeaseTTL
        BY <3>1, <4>1 DEF RecordOf
      <4>3. op[w].now \in Nat /\ LeaseTTL \in Nat
        BY <1>2, BoundsAssumption DEF CallType
      <4>4. mirror[s] # None
        BY <1>4, <3>1 DEF CallBacked, Backs
      <4>5. /\ grown(s).addr = active[s].addr /\ grown(s) \in Lease
            /\ grown(s).exp = op[w].now + LeaseTTL
        BY <3>2, <4>3 DEF Lease
      <4> HIDE DEF grown
      <4> QED BY <1>2, <3>2, <4>2, <4>3, <4>4, <4>5, NoneAssumption DEF Exact
    <3>5. \A s \in op[w].batch :
            active'[s] = IF s \in op[w].failed THEN active[s] ELSE grown(s)
      BY <1>3, <3>1, <3>2
    <3>6. \A s \in Sessions \ op[w].batch :
            /\ active'[s] = active[s] /\ pending'[s] = pending[s]
            /\ release_pending'[s] = release_pending[s]
      BY <1>1, <3>1
    <3> HIDE DEF grown
    <3>7. \A s \in op[w].batch :
            /\ active'[s] # None => Exact(s, active'[s])
            /\ pending'[s] # None => Exact(s, pending'[s])
            /\ active'[s] # None
      BY <1>1, <3>2, <3>3, <3>4, <3>5
    <3> QED BY <3>6, <3>7 DEF Settles
  <2>2. CASE RetryFinish(w)
    <3>1. /\ op[w].kind = "retry" /\ UNCHANGED active
          /\ release_pending' = [s \in Sessions |->
               IF s \in op[w].failed /\ release_pending[s] # None
               THEN [release_pending[s] EXCEPT
                       !.attempts = OneMore(@),
                       !.next = NextRetryDeadline(op[w].now,
                                  OneMore(release_pending[s].attempts))]
               ELSE IF s \in op[w].batch \ op[w].failed THEN None
               ELSE release_pending[s]]
      BY <2>2 DEF RetryFinish, Returns
    <3>2. \A s \in op[w].batch :
            /\ release_pending[s] \in Quarantined /\ release_pending[s] # None
            /\ active[s] = None /\ pending[s] = None
      <4>1. \A s \in op[w].batch : release_pending[s] # None
        BY <3>1 DEF IndInv, CallsOK
      <4> QED BY <1>3, <4>1 DEF IndInv, TypeOK, SingleHome
    <3>3. \A q \in Quarantined : \A n, m \in Nat :
            LET r == [q EXCEPT !.attempts = n, !.next = m]
            IN r.addr = q.addr /\ r \in Quarantined
      BY DEF Quarantined
    <3>4. ASSUME NEW s \in op[w].failed, Fresh(s)
          PROVE  /\ release_pending'[s] # None
                 /\ release_pending'[s].addr = mirror[s].addr
      <4> DEFINE q == release_pending[s]
                 n == OneMore(q.attempts)
                 m == NextRetryDeadline(op[w].now, n)
      <4>1. release_pending'[s] = [q EXCEPT !.attempts = n, !.next = m]
        BY <1>3, <3>1, <3>2
      <4>2. q.addr = mirror[s].addr
        BY <1>3, <1>4, <3>1 DEF CallBacked, Backs
      <4>3. q \in Quarantined /\ n \in Nat /\ m \in Nat
        <5>1. q \in Quarantined /\ op[w].now \in Nat
          BY <1>2, <1>3, <3>2 DEF CallType
        <5>2. n \in Nat
          BY <5>1, BoundsAssumption DEF OneMore, Quarantined
        <5> HIDE DEF n
        <5> QED BY <5>1, <5>2, DeadlineType
      <4> HIDE DEF q, n, m
      <4> DEFINE r == [q EXCEPT !.attempts = n, !.next = m]
      <4>4. r.addr = q.addr /\ r \in Quarantined
        BY <3>3, <4>3
      <4>5. release_pending'[s] = r
        BY <4>1
      <4> HIDE DEF r
      <4> QED BY <4>2, <4>4, <4>5, NoneAssumption
    <3>5. \A s \in op[w].batch \ op[w].failed : ~Fresh(s)
      BY <1>1, <1>4, <3>1 DEF CallExact, Fresh
    <3>6. \A s \in Sessions \ op[w].batch : release_pending'[s] = release_pending[s]
      BY <1>3, <3>1
    <3> QED BY <1>1, <3>1, <3>2, <3>4, <3>5, <3>6 DEF Settles
  <2> QED BY <2>1, <2>2
<1> QED BY <1>1, <1>2, <1>5, FinishExact

\* What changes the maps without the journal: an expired reservation that is
\* dropped, a release that is deferred, and the clock.
LEMMA PlainExact ==
  ASSUME IndInv,
         \/ \E w \in Workers, s \in Sessions, d \in Devices, t \in Nat :
              t <= mono /\ ReserveExhausted(w, s, d, t)
         \/ \E s \in Sessions : ReleaseDeferred(s)
         \/ Tick \/ UNCHANGED vars,
         \A x \in Sessions : SessionExact(x)
  PROVE  \A x \in Sessions : SessionExact(x)'
<1>1. /\ UNCHANGED <<inflight, op, mirror, boot, stale, stale_failed>>
      /\ TypeOK /\ mono \in Nat
  BY DEF ReserveExhausted, ReleaseDeferred, Tick, vars, inner, calls, store,
         clocks, recovery, IndInv, TypeOK
<1>2. Later
  <2>1. UNCHANGED mono \/ mono' = mono + 1
    BY DEF ReserveExhausted, ReleaseDeferred, Tick, vars, clocks
  <2> QED BY <1>1, <2>1 DEF Later
<1>3. ASSUME NEW x \in Sessions, active'[x] = active[x], pending'[x] = pending[x],
             release_pending'[x] = release_pending[x]
      PROVE  SessionExact(x)'
  <2>1. Same(x)
    BY <1>1, <1>3 DEF Same
  <2> QED BY <1>1, <1>2, <2>1, RowKept
<1>4. CASE Tick \/ UNCHANGED vars
  <2>1. UNCHANGED <<active, pending, release_pending>>
    BY <1>4 DEF Tick, vars, inner
  <2> QED BY <1>3, <2>1
<1>5. ASSUME NEW w \in Workers, NEW s \in Sessions, NEW d \in Devices, NEW t \in Nat,
             t <= mono, ReserveExhausted(w, s, d, t)
      PROVE  \A x \in Sessions : SessionExact(x)'
  <2>1. /\ phase = "up" /\ s \notin inflight
        /\ active[s] = None /\ release_pending[s] = None
        /\ pending[s] # None /\ t >= pending[s].exp
        /\ pending' = [pending EXCEPT ![s] = None]
        /\ UNCHANGED <<active, release_pending, mono>>
    BY <1>5 DEF ReserveExhausted, Ready, MayReserve, clocks
  <2>2. pending[s].exp <= mono
    BY <1>1, <1>5, <2>1 DEF TypeOK, Lease
  <2>3. ~Fresh(s)
    BY <2>1, <2>2, NothingFresh
  <2>4. /\ pending'[s] = None /\ active'[s] = None
        /\ \A x \in Sessions : x # s => pending'[x] = pending[x]
    BY <1>1, <2>1 DEF TypeOK
  <2>5. ~Fresh(s)'
    BY <1>1, <2>1, <2>3 DEF Fresh, wall
  <2>6. \A v \in Workers : s \notin op[v].batch
    BY <2>1 DEF IndInv, SingleHome
  <2>7. SessionExact(s)'
    BY <1>1, <2>4, <2>5, <2>6 DEF SessionExact
  <2> QED BY <1>3, <2>1, <2>4, <2>7
<1>6. ASSUME NEW s \in Sessions, ReleaseDeferred(s)
      PROVE  \A x \in Sessions : SessionExact(x)'
  <2> PICK l : l = IF pending[s] # None THEN pending[s] ELSE active[s]
    OBVIOUS
  <2> DEFINE q == Quarantine(l, 0)
  <2>1. /\ \/ /\ release_pending' = [release_pending EXCEPT ![s] = q]
              /\ active' = [active EXCEPT ![s] = None]
           \/ /\ release_pending' = release_pending
              /\ active' = [active EXCEPT ![s] = l]
        /\ pending' = [pending EXCEPT ![s] = None]
        /\ s \notin inflight /\ UNCHANGED mono
    BY <1>6 DEF ReleaseDeferred, clocks
  <2>2. l \in {active[s], pending[s]} \ {None}
    BY <1>6 DEF ReleaseDeferred
  <2>3. q \in Quarantined /\ q.addr = l.addr
    <3>1. l \in Lease
      BY <1>1, <2>2 DEF TypeOK
    <3>2. q \in Quarantined
      BY <3>1, QuarantineType
    <3> QED BY <3>2 DEF Quarantine
  <2> HIDE DEF q
  <2>4. /\ \/ release_pending'[s] = q /\ active'[s] = None
           \/ release_pending'[s] = release_pending[s] /\ active'[s] = l
        /\ pending'[s] = None
        /\ \A x \in Sessions : x # s =>
             /\ active'[x] = active[x] /\ pending'[x] = pending[x]
             /\ release_pending'[x] = release_pending[x]
    BY <1>1, <2>1 DEF TypeOK
  <2>5. Exact(s, l) /\ Exact(s, l)'
    BY <1>1, <2>1, <2>2 DEF SessionExact, Exact
  <2>6. \A v \in Workers : s \notin op[v].batch
    BY <2>1 DEF IndInv, SingleHome
  <2>7. Guarded(s)'
    BY <2>2, <2>3, <2>4, <2>5, NoneAssumption DEF Guarded, Holds, Exact
  <2>8. SessionExact(s)'
    BY <1>1, <2>4, <2>5, <2>6, <2>7 DEF SessionExact
  <2> QED BY <1>3, <2>4, <2>8
<1> QED BY <1>4, <1>5, <1>6

\* A start takes every record for a lease or drops it.
LEMMA RecoverExact ==
  ASSUME IndInv, NEW now \in BootTimes, Recover(now)
  PROVE  \A x \in Sessions : SessionExact(x)'
<1> DEFINE lease(s) == [dev |-> file[s].dev, addr |-> file[s].addr,
                        exp |-> file[s].exp - now]
           kept == Restored(now)
<1>1. /\ mirror' = file /\ mono' = 0 /\ boot' = now /\ stale' = Keys(file) \ kept
      /\ pending' = [s \in Sessions |->
           IF s \in kept /\ file[s].state = "Reserved" THEN lease(s) ELSE None]
      /\ active' = [s \in Sessions |->
           IF s \in kept /\ file[s].state = "Active" THEN lease(s) ELSE None]
      /\ phase # "up" /\ UNCHANGED <<inflight, op>>
  BY DEF Recover, calls
<1>2. inflight' = {} /\ \A v \in Workers : op'[v].batch = {}
  BY <1>1, Quiet
<1>3. now \in Nat
  BY BoundsAssumption
<1>4. ASSUME NEW s \in kept
      PROVE  file[s] \in Record /\ file[s] # None /\ file[s].exp > now
  BY DEF Restored, Keys, IndInv, TypeOK
<1>5. ASSUME NEW s \in kept
      PROVE  /\ lease(s) # None /\ mirror'[s] # None
             /\ mirror'[s].addr = lease(s).addr
             /\ mirror'[s].exp = boot' + lease(s).exp
  <2>1. /\ file[s] \in Record /\ file[s] # None /\ file[s].exp > now
        /\ file[s].exp \in Nat
    BY <1>4 DEF Record
  <2>2. lease(s) \in Lease
    BY <1>3, <2>1 DEF Lease, Record
  <2>3. now + (file[s].exp - now) = file[s].exp
    BY <1>3, <2>1
  <2>4. lease(s).addr = file[s].addr /\ lease(s).exp = file[s].exp - now
    OBVIOUS
  <2> HIDE DEF lease
  <2> QED BY <1>1, <2>1, <2>2, <2>3, <2>4, NoneAssumption
<1> HIDE DEF lease, kept
<1>6. ASSUME NEW s \in Sessions PROVE SessionExact(s)'
  <2>1. /\ active'[s] # None => s \in kept /\ active'[s] = lease(s)
        /\ pending'[s] # None => s \in kept /\ pending'[s] = lease(s)
        /\ s \in kept => active'[s] # None \/ pending'[s] # None
    BY <1>1, <1>4, <1>5 DEF Record
  <2>2. /\ active'[s] # None => Exact(s, active[s])'
        /\ pending'[s] # None => Exact(s, pending[s])'
    BY <1>5, <2>1 DEF Exact
  <2>3. Fresh(s)' => Guarded(s)'
    <3>1. CASE s \in kept
      BY <2>1, <2>2, <3>1 DEF Guarded, Holds, Exact
    <3>2. CASE s \notin kept
      BY <1>1, <3>2 DEF Guarded, Fresh, Keys
    <3> QED BY <3>1, <3>2
  <2> QED BY <1>2, <2>2, <2>3 DEF SessionExact
<1> QED BY <1>6

\* The rest of the start deletes what was dropped, or quarantines it.
LEMMA RecoveryExact ==
  ASSUME IndInv, phase' # "down",
         (\E s \in Sessions : RecoverDelete(s)) \/ RecoverDone,
         \A x \in Sessions : SessionExact(x)
  PROVE  \A x \in Sessions : SessionExact(x)'
<1>1. /\ phase # "up" /\ UNCHANGED <<inflight, op, clocks, active, pending>>
      /\ mono \in Nat
  <2>1. CASE \E s \in Sessions : RecoverDelete(s)
    BY <2>1 DEF RecoverDelete, inner, calls, IndInv, TypeOK
  <2>2. CASE RecoverDone
    BY <2>2 DEF RecoverDone, inner, calls, IndInv, TypeOK
  <2> QED BY <2>1, <2>2
<1>2. /\ inflight' = {} /\ inflight = {}
      /\ \A v \in Workers : op'[v].batch = {} /\ op[v].batch = {}
      /\ \A x \in Sessions : release_pending[x] = None
  BY <1>1, Quiet
<1>3. \A x \in Sessions : \A a : Holds(x, a)' <=> Holds(x, a)
  BY <1>1 DEF Holds, Parked
<1>4. ASSUME NEW s \in Sessions, RecoverDelete(s), NEW x \in Sessions
      PROVE  SessionExact(x)'
  <2>1. /\ s \in stale /\ mirror' \in {mirror, [mirror EXCEPT ![s] = None]}
        /\ stale' = stale \ {s} /\ UNCHANGED release_pending
        /\ \/ mirror' = [mirror EXCEPT ![s] = None] /\ UNCHANGED stale_failed
           \/ mirror' = mirror /\ stale_failed' = stale_failed \cup {s}
    BY <1>4 DEF RecoverDelete, inner
  <2>2. active[s] = None /\ pending[s] = None
    BY <2>1 DEF IndInv, RecoveryOK
  <2>3. mirror'[x] = mirror[x] \/ (x = s /\ mirror'[x] = None)
    BY <2>1 DEF IndInv, TypeOK
  <2>4. x # s => mirror'[x] = mirror[x]
    BY <2>1 DEF IndInv, TypeOK
  <2>5. /\ active'[x] # None => Exact(x, active[x])'
        /\ pending'[x] # None => Exact(x, pending[x])'
    BY <1>1, <1>2, <2>2, <2>4 DEF SessionExact, Exact, clocks
  <2>6. Fresh(x)' => Guarded(x)'
    <3> SUFFICES ASSUME Fresh(x)' PROVE Guarded(x)'
      OBVIOUS
    <3>1. mirror'[x] = mirror[x] /\ Fresh(x)
      BY <1>1, <2>3 DEF Fresh, wall, clocks
    <3>2. Guarded(x)
      BY <3>1 DEF SessionExact
    <3>3. CASE x = s
      <4>1. mirror'[s] = mirror[s] /\ mirror[s] # None
        BY <3>1, <3>3 DEF Fresh
      <4>2. s \in Sessions => [mirror EXCEPT ![s] = None][s] = None
        BY DEF IndInv, TypeOK
      <4> QED BY <2>1, <3>3, <4>1, <4>2 DEF Guarded
    <3>4. CASE x # s
      BY <1>3, <2>1, <3>1, <3>2, <3>4 DEF Guarded
    <3> QED BY <3>3, <3>4
  <2> QED BY <1>2, <2>5, <2>6 DEF SessionExact
<1>5. ASSUME RecoverDone, NEW x \in Sessions PROVE SessionExact(x)'
  <2>1. Room(stale_failed) = stale_failed
    BY <1>5 DEF RecoverDone
  <2>2. /\ stale = {} /\ UNCHANGED <<mirror, stale>>
        /\ release_pending' = [s \in Sessions |->
             IF s \in stale_failed THEN Quarantine(mirror[s], mono)
                                   ELSE release_pending[s]]
    BY <1>5, <2>1 DEF RecoverDone
  <2>3. /\ active'[x] # None => Exact(x, active[x])'
        /\ pending'[x] # None => Exact(x, pending[x])'
    BY <1>1, <1>2, <2>2 DEF SessionExact, Exact, clocks
  <2>4. Fresh(x)' => Guarded(x)'
    <3> SUFFICES ASSUME Fresh(x)' PROVE Guarded(x)'
      OBVIOUS
    <3>1. Guarded(x) /\ mirror[x] # None
      BY <1>1, <2>2 DEF Fresh, wall, SessionExact, clocks
    <3>2. CASE x \in stale_failed
      <4> DEFINE q == Quarantine(mirror[x], mono)
      <4>1. mirror[x] \in Record
        BY <3>1 DEF IndInv, TypeOK
      <4>2. q \in Quarantined
        BY <1>1, <4>1, QuarantineType
      <4>3. q.addr = mirror[x].addr
        BY DEF Quarantine
      <4>4. release_pending'[x] = q
        BY <2>2, <3>2
      <4> HIDE DEF q
      <4> QED BY <2>2, <4>2, <4>3, <4>4, NoneAssumption DEF Guarded
    <3>3. CASE x \notin stale_failed
      BY <1>2, <1>3, <2>2, <3>1, <3>3 DEF Guarded
    <3> QED BY <3>2, <3>3
  <2> QED BY <1>2, <2>3, <2>4 DEF SessionExact
<1> QED BY <1>4, <1>5

-----------------------------------------------------------------------------
\* No session before a holder has a fresh record of its address

\* Who holds an address after such a step held it before.
LEMMA HoldersStay ==
  ASSUME IndInv, IndInv', Surrenders
  PROVE  \A s \in Sessions : \A a : Holds(s, a)' => Holds(s, a)
<1>1. (IndInv => \A w \in Workers : \A s \in Parked(w) :
         s \in Sessions /\ op[w].taken[s] \in Lease)'
  BY ParkedLease, PTL
<1>2. ASSUME NEW s \in Sessions, NEW a, Holds(s, a)' PROVE Holds(s, a)
  <2>1. PICK l \in Lease : At(s, l)' /\ l.addr = a
    <3>1. /\ active'[s] # None => active'[s] \in Lease
          /\ pending'[s] # None => pending'[s] \in Lease
      BY DEF IndInv, TypeOK
    <3> QED BY <1>1, <1>2, <3>1 DEF Holds, At
  <2>2. PICK m \in Lease : At(s, m) /\ m.addr = a
    BY <2>1 DEF Surrenders
  <2> QED BY <2>2 DEF At, Holds
<1> QED BY <1>2

\* A step that lets nobody take an address and makes a record fresh only for the
\* holder of its address.
LEMMA FirstKept ==
  ASSUME TypeOK', UniqueAddresses', FirstOfAddress,
         \A s \in Sessions : \A a : Holds(s, a)' => Holds(s, a),
         \A x \in Sessions : Fresh(x)' =>
           \/ Fresh(x) /\ mirror'[x] = mirror[x]
           \/ Holds(x, mirror[x].addr)'
  PROVE  FirstOfAddress'
<1> SUFFICES ASSUME NEW s \in Sessions, NEW x \in Sessions, x # s, Fresh(x)',
                    Holds(s, mirror[x].addr)'
             PROVE  s < x
  BY DEF FirstOfAddress
<1> PICK a : a = mirror'[x].addr
  OBVIOUS
<1>1. a \in Addresses /\ Holds(s, a)' /\ Holds(s, a)
  <2>1. mirror'[x] \in Record
    BY DEF Fresh, TypeOK
  <2>2. a \in Addresses
    BY <2>1 DEF Record
  <2>3. Holds(s, a)'
    BY DEF Holds
  <2> QED BY <2>2, <2>3
<1>2. ~Holds(x, mirror[x].addr)'
  <2> SUFFICES ASSUME Holds(x, mirror[x].addr)' PROVE FALSE
    OBVIOUS
  <2>1. Holds(x, a)'
    BY DEF Holds
  <2> QED BY <1>1, <2>1 DEF UniqueAddresses
<1>3. Fresh(x) /\ mirror[x].addr = a
  BY <1>2
<1> QED BY <1>1, <1>3 DEF FirstOfAddress

\* reserve_at_time takes an address that no fresh record names.
LEMMA ReserveFirst ==
  ASSUME IndInv, IndInv', NEW w \in Workers, NEW s \in Sessions, NEW d, NEW t,
         ReserveBegin(w, s, d, t),
         \A x \in Sessions : SessionExact(x), FirstOfAddress
  PROVE  FirstOfAddress'
<1> DEFINE rest == [pending EXCEPT ![s] = None]
           lease(a) == [dev |-> d, addr |-> a, exp |-> t + PendingTTL]
           taken(a) == [Empty EXCEPT ![s] = lease(a)]
<1>1. PICK a \in Free(rest) : Park(w, "reserve", t, {s}, {}, taken(a))
  BY DEF ReserveBegin
<1>2. /\ phase = "up" /\ op[w].kind = "idle" /\ pending' = rest
      /\ UNCHANGED <<active, release_pending, mirror, mono, boot>>
      /\ stale = {} /\ stale_failed = {}
  BY DEF ReserveBegin, Ready, clocks, store, IndInv, RecoveryOK
<1>3. a \in Addresses /\ a \notin Used(rest)
  BY DEF Free
<1>4. taken(a)[s] = lease(a) /\ lease(a).addr = a
  BY DEF Empty
<1> DEFINE held == taken(a)
<1>5. held[s].addr = a
  BY <1>4
<1>6. /\ op'[w].batch = {s} /\ op'[w].taken = held
      /\ \A v \in Workers : v # w => op'[v] = op[v]
  BY <1>1 DEF Park, Call, IndInv, TypeOK
<1>7. \A x \in Sessions : /\ pending'[x] = IF x = s THEN None ELSE pending[x]
                          /\ rest[x] = IF x = s THEN None ELSE pending[x]
  BY <1>2 DEF IndInv, TypeOK
<1>8. /\ AddrsOf(active) \subseteq Used(rest) /\ AddrsOf(rest) \subseteq Used(rest)
      /\ AddrsOf(release_pending) \subseteq Used(rest)
      /\ inflight_addr \subseteq Used(rest)
  BY DEF Used
<1> HIDE DEF lease, taken, rest, held
<1>9. \A x \in Sessions : \A b : Holds(x, b)' => Holds(x, b) \/ (x = s /\ b = a)
  <2>1. \A v \in Workers : v # w => Parked(v)' = Parked(v) /\ op'[v].taken = op[v].taken
    BY <1>6 DEF Parked
  <2>2. \A x : x \in Parked(w)' => x = s
    BY <1>6 DEF Parked
  <2>3. ASSUME NEW x \in Sessions, NEW b, Holds(x, b)'
        PROVE  Holds(x, b) \/ (x = s /\ b = a)
    <3>1. CASE active'[x] # None /\ active'[x].addr = b
      BY <1>2, <3>1 DEF Holds
    <3>2. CASE pending'[x] # None /\ pending'[x].addr = b
      BY <1>7, <3>2 DEF Holds
    <3>3. CASE \E v \in Workers : x \in Parked(v)' /\ op'[v].taken[x].addr = b
      <4>1. PICK v \in Workers : x \in Parked(v)' /\ op'[v].taken[x].addr = b
        BY <3>3
      <4>2. CASE v = w
        BY <1>5, <1>6, <2>2, <4>1, <4>2
      <4>3. CASE v # w
        BY <2>1, <4>1, <4>3 DEF Holds
      <4> QED BY <4>2, <4>3
    <3> QED BY <2>3, <3>1, <3>2, <3>3 DEF Holds
  <2> QED BY <2>3
<1>10. \A x \in Sessions : Fresh(x)' = Fresh(x)
  BY <1>2 DEF Fresh, wall
<1>11. ASSUME NEW x \in Sessions, x # s, Fresh(x), mirror[x].addr = a
       PROVE  FALSE
  <2>1. CASE Holds(x, a)
    <3>1. CASE active[x] # None /\ a = active[x].addr
      BY <1>3, <1>8, <3>1 DEF AddrsOf, Keys
    <3>2. CASE pending[x] # None /\ a = pending[x].addr
      BY <1>3, <1>7, <1>8, <1>11, <3>2 DEF AddrsOf, Keys
    <3>3. CASE \E v \in Workers : x \in Parked(v) /\ a = op[v].taken[x].addr
      BY <1>3, <1>8, <3>3 DEF IndInv, CallsOK
    <3> QED BY <2>1, <3>1, <3>2, <3>3 DEF Holds
  <2>2. CASE release_pending[x] # None /\ release_pending[x].addr = a
    BY <1>3, <1>8, <2>2 DEF AddrsOf, Keys
  <2> QED BY <1>2, <1>11, <2>1, <2>2 DEF SessionExact, Guarded
<1> SUFFICES ASSUME NEW y \in Sessions, NEW x \in Sessions, x # y, Fresh(x)',
                    Holds(y, mirror[x].addr)'
             PROVE  y < x
  BY DEF FirstOfAddress
<1>12. Fresh(x) /\ (Holds(y, mirror[x].addr) \/ (y = s /\ mirror[x].addr = a))
  <2>1. Holds(y, mirror[x].addr) \/ (y = s /\ mirror[x].addr = a)
    <3> PICK b : b = mirror[x].addr
      OBVIOUS
    <3>1. Holds(y, b)'
      BY <1>2 DEF Holds
    <3> QED BY <1>9, <3>1
  <2> QED BY <1>10, <2>1
<1> QED BY <1>11, <1>12 DEF FirstOfAddress

\* Of two fresh records of one address, recovery restores the first.
LEMMA RecoverFirst ==
  ASSUME IndInv, IndInv', NEW now \in BootTimes, Recover(now)
  PROVE  FirstOfAddress'
<1> DEFINE lease(s) == [dev |-> file[s].dev, addr |-> file[s].addr,
                        exp |-> file[s].exp - now]
           kept == Restored(now)
           within == {s \in Keys(file) :
                        Rank(s, Keys(file)) < MaxLeases + MaxPendingReleases}
           fresh == {s \in within : file[s].exp > now}
<1>1. /\ mirror' = file /\ mono' = 0 /\ boot' = now
      /\ pending' = [s \in Sessions |->
           IF s \in kept /\ file[s].state = "Reserved" THEN lease(s) ELSE None]
      /\ active' = [s \in Sessions |->
           IF s \in kept /\ file[s].state = "Active" THEN lease(s) ELSE None]
      /\ phase # "up" /\ UNCHANGED <<inflight, op>>
  BY DEF Recover, calls
<1>2. \A v \in Workers : Parked(v)' = {}
  BY <1>1, Quiet DEF Parked
<1>3. \A s \in kept : s \in fresh
                      /\ \A x \in fresh : x < s => file[x].addr # file[s].addr
  BY DEF Restored
<1>4. \A s : lease(s).addr = file[s].addr
  OBVIOUS
<1>5. /\ Keys(file) \in SUBSET Nat /\ IsFiniteSet(Keys(file)) /\ now \in Nat
      /\ Sessions \subseteq Nat /\ MaxLeases + MaxPendingReleases \in Nat
      /\ \A x \in Keys(file) : file[x] \in Record
  <2>1. Keys(file) \in SUBSET Sessions /\ \A x \in Keys(file) : file[x] \in Record
    BY DEF Keys, IndInv, TypeOK
  <2>2. IsFiniteSet(Keys(file))
    BY <2>1, SetsAssumption, FS_Subset
  <2>3. now \in Nat /\ MaxLeases + MaxPendingReleases \in Nat
    BY BoundsAssumption
  <2> QED BY <2>1, <2>2, <2>3, SetsAssumption
<1>6. \A s \in fresh : s \in Keys(file) /\ Rank(s, Keys(file)) < MaxLeases + MaxPendingReleases
  OBVIOUS
<1>7. ASSUME NEW x \in Keys(file), file[x].exp > now, NEW s \in fresh, x < s
      PROVE  x \in fresh
  <2>1. Rank(x, Keys(file)) < Rank(s, Keys(file))
    BY <1>5, <1>6, <1>7, RankRises
  <2>2. Rank(x, Keys(file)) \in Nat /\ Rank(s, Keys(file)) \in Nat
    BY <1>5, <1>6, RankRises
  <2>3. Rank(x, Keys(file)) < MaxLeases + MaxPendingReleases
    BY <1>5, <1>6, <2>1, <2>2
  <2> QED BY <1>7, <2>3
<1> HIDE DEF lease, kept, fresh, within
<1> SUFFICES ASSUME NEW s \in Sessions, NEW x \in Sessions, x # s, Fresh(x)',
                    Holds(s, mirror[x].addr)'
             PROVE  s < x
  BY DEF FirstOfAddress
<1>8. s \in kept /\ file[s].addr = file[x].addr
  BY <1>1, <1>2, <1>4 DEF Holds
<1>9. x \in Keys(file) /\ file[x].exp > now
  <2>1. file[x] # None /\ file[x].exp > now + 0
    BY <1>1 DEF Fresh, wall
  <2> QED BY <1>5, <2>1 DEF Keys
<1>10. ~(x < s)
  BY <1>3, <1>7, <1>8, <1>9
<1>11. s \in Nat /\ x \in Nat
  BY <1>5
<1> QED BY <1>10, <1>11

-----------------------------------------------------------------------------
\* The journal's agreement with the memory is inductive

LEMMA NextExact ==
  ASSUME IndInv, JournalOK, CrashOK, [Next]_vars
  PROVE  CrashOK'
<1> DEFINE Agrees == /\ mirror = file
                     /\ \A x \in Sessions : SessionExact(x)
                     /\ FirstOfAddress
<1> SUFFICES ASSUME Durable, ~TornWrites, phase' # "down"
             PROVE  Agrees'
  BY DEF CrashOK
<1>1. /\ IndInv' /\ TypeOK' /\ UniqueAddresses' /\ TypeOK
      /\ \A t \in Captured : t \in Nat /\ t <= mono
      /\ \A t \in Captured \cup {0} : t \in Nat
  <2>1. IndInv'
    BY NextIndInv
  <2>2. mono \in Nat
    BY DEF IndInv, TypeOK
  <2> QED BY <2>1, <2>2 DEF IndInv, Captured
<1>2. phase # "down" => Agrees
  BY DEF CrashOK
<1>3. ASSUME FirstOfAddress, \A x \in Sessions : SessionExact(x)',
             UNCHANGED <<mirror, file>>, mirror = file, Later, Surrenders
      PROVE  Agrees'
  <2>1. \A s \in Sessions : \A a : Holds(s, a)' => Holds(s, a)
    BY <1>1, <1>3, HoldersStay
  <2>2. \A x \in Sessions : Fresh(x)' => Fresh(x) /\ mirror'[x] = mirror[x]
    BY <1>1, <1>3, FreshBefore
  <2>3. FirstOfAddress'
    BY <1>1, <1>3, <2>1, <2>2, FirstKept
  <2> QED BY <1>3, <2>3
<1>4. ASSUME NEW w \in Workers, Begin(w) PROVE Agrees'
  <2>1. /\ phase = "up" /\ UNCHANGED <<mirror, file, clocks>>
    BY <1>4 DEF Begin, ReserveBegin, ReserveExhausted, CommitBegin, RenewBegin,
                ReleaseBegin, SweepBegin, Ready, store
  <2>2. Later /\ Agrees
    BY <1>1, <1>2, <2>1 DEF Later, clocks, TypeOK
  <2>3. ASSUME NEW s \in Sessions, NEW t \in Captured, NEW d \in Devices,
               ReserveBegin(w, s, d, t)
        PROVE  Agrees'
    <3>1. \A x \in Sessions : SessionExact(x)'
      BY <1>1, <2>2, <2>3, BeginExact
    <3>2. FirstOfAddress'
      BY <1>1, <2>2, <2>3, ReserveFirst
    <3> QED BY <2>1, <2>2, <3>1, <3>2
  <2>4. CASE ~\E s \in Sessions, t \in Captured, d \in Devices :
               ReserveBegin(w, s, d, t)
    <3>1. Surrenders
      BY <1>1, <1>4, <2>4, BeginSurrenders, SweepBeginSurrenders, PlainSurrenders
      DEF Begin
    <3>2. \A x \in Sessions : SessionExact(x)'
      BY <1>1, <1>4, <2>2, <2>4, BeginExact, SweepBeginExact, VisitBeginExact,
         PlainExact DEF Begin
    <3> QED BY <1>3, <2>1, <2>2, <3>1, <3>2
  <2> QED BY <2>3, <2>4
<1>5. ASSUME NEW w \in Workers, Continue(w) PROVE Agrees'
  <2>1. op[w].kind # "idle"
    BY <1>5 DEF Continue, StorePersist, StoreRelease, ReserveFinish, PromoteFinish,
                ExpireFinish, ReleaseFinish, RenewFinish, SweepFinish, RetryBegin,
                RetryFinish, Returns
  <2>2. phase = "up" /\ Agrees
    BY <1>2, <2>1 DEF IndInv, CallsOK
  <2>3. Surrenders
    BY <1>5, EndSurrenders, PlainSurrenders DEF Continue
  <2>4. CASE StorePersist(w) \/ StoreRelease(w)
    <3>1. /\ mirror' = file'
          /\ \A s \in Sessions : SessionExact(s)'
          /\ \A s \in Sessions : Fresh(s)' =>
               \/ Fresh(s) /\ mirror'[s] = mirror[s]
               \/ Holds(s, mirror[s].addr)'
      BY <2>2, <2>4, StoreExact
    <3>2. FirstOfAddress'
      BY <1>1, <2>2, <2>3, <3>1, HoldersStay, FirstKept
    <3> QED BY <3>1, <3>2
  <2>5. CASE ~(StorePersist(w) \/ StoreRelease(w))
    <3>1. UNCHANGED <<mirror, file, clocks>>
      BY <1>5, <2>5 DEF Continue, ReserveFinish, PromoteFinish, ExpireFinish,
                ReleaseFinish, RenewFinish, SweepFinish, RetryBegin, RetryFinish,
                DeleteFinish, store
    <3>2. Later
      BY <1>1, <3>1 DEF Later, clocks, TypeOK
    <3>3. \A x \in Sessions : SessionExact(x)'
      BY <1>5, <2>2, <2>5, EndExact, VisitBeginExact, VisitEndExact DEF Continue
    <3> QED BY <1>3, <2>2, <2>3, <3>1, <3>2, <3>3
  <2> QED BY <2>4, <2>5
<1>6. CASE (\E s \in Sessions : ReleaseDeferred(s)) \/ Tick
  <2>1. phase = "up" /\ UNCHANGED <<mirror, file, boot>>
    BY <1>6 DEF ReleaseDeferred, Tick, store, clocks
  <2>2. Agrees /\ Later
    <3>1. UNCHANGED mono \/ mono' = mono + 1
      BY <1>6 DEF ReleaseDeferred, Tick, clocks
    <3> QED BY <1>1, <1>2, <2>1, <3>1 DEF Later, TypeOK
  <2> QED BY <1>3, <1>6, <2>1, <2>2, PlainExact, PlainSurrenders
<1>7. CASE UNCHANGED vars
  <2>1. UNCHANGED <<phase, active, pending, op, mirror, file, mono, boot>>
    BY <1>7 DEF vars, inner, calls, store, clocks
  <2>2. Agrees /\ Later
    BY <1>1, <1>2, <2>1 DEF Later, TypeOK
  <2>3. \A s \in Sessions : \A a : Holds(s, a)' => Holds(s, a)
    BY <2>1 DEF Holds, Parked
  <2>4. \A x \in Sessions : Fresh(x)' => Fresh(x) /\ mirror'[x] = mirror[x]
    BY <1>1, <2>1, <2>2, FreshBefore
  <2>5. FirstOfAddress'
    BY <1>1, <2>2, <2>3, <2>4, FirstKept
  <2> QED BY <1>7, <2>1, <2>2, <2>5, PlainExact
<1>8. ASSUME NEW now \in BootTimes, Recover(now) PROVE Agrees'
  <2>1. mirror' = file'
    BY <1>8 DEF Recover
  <2> QED BY <1>1, <1>8, <2>1, RecoverExact, RecoverFirst
<1>9. CASE (\E s \in Sessions : RecoverDelete(s)) \/ RecoverDone
  <2>1. /\ phase = "recovering" /\ UNCHANGED <<active, pending, op, mono, boot>>
        /\ \A x \in Sessions : mirror'[x] \in {mirror[x], None}
        /\ mirror = file => mirror' = file'
    <3>1. ASSUME NEW s \in Sessions, RecoverDelete(s)
          PROVE  \A x \in Sessions : mirror'[x] \in {mirror[x], None}
      BY <3>1 DEF RecoverDelete, IndInv, TypeOK
    <3>2. CASE \E s \in Sessions : RecoverDelete(s)
      BY <3>1, <3>2 DEF RecoverDelete, inner, calls, clocks
    <3>3. CASE RecoverDone
      <4>1. Room(stale_failed) = stale_failed
        BY <3>3 DEF RecoverDone
      <4> QED BY <3>3, <4>1 DEF RecoverDone, calls, clocks
    <3> QED BY <1>9, <3>2, <3>3
  <2>2. Agrees /\ Later
    BY <1>1, <1>2, <2>1 DEF Later, TypeOK
  <2>3. \A s \in Sessions : \A a : Holds(s, a)' => Holds(s, a)
    BY <2>1 DEF Holds, Parked
  <2>4. \A x \in Sessions : Fresh(x)' => Fresh(x) /\ mirror'[x] = mirror[x]
    <3>1. \A x \in Sessions : Fresh(x)' => mirror'[x] = mirror[x]
      BY <2>1 DEF Fresh
    <3> QED BY <1>1, <2>2, <3>1, FreshBefore
  <2>5. FirstOfAddress'
    BY <1>1, <2>2, <2>3, <2>4, FirstKept
  <2> QED BY <1>9, <2>1, <2>2, <2>5, RecoveryExact
<1>10. ~Crash
  BY DEF Crash
<1> HIDE DEF Agrees
<1> QED BY <1>4, <1>5, <1>6, <1>7, <1>8, <1>9, <1>10 DEF Next

\* What recovery would restore of the journal at this moment.
LEMMA AgreesSurvives ==
  ASSUME IndInv, CrashOK, ~TornWrites, JournalFits
  PROVE  SurvivesCrash
<1> SUFFICES ASSUME Durable, phase = "up", NEW s \in Sessions \ inflight,
                    \/ active[s] # None /\ mono < active[s].exp
                    \/ pending[s] # None /\ mono < pending[s].exp
             PROVE  s \in Restored(wall)
  BY DEF SurvivesCrash
<1> DEFINE within == {x \in Keys(file) :
                        Rank(x, Keys(file)) < MaxLeases + MaxPendingReleases}
           fresh == {x \in within : file[x].exp > wall}
           valid == {x \in fresh : \A y \in fresh :
                       y < x => file[y].addr # file[x].addr}
           all == {x \in Keys(file) : file[x].exp > wall}
<1>1. mirror = file /\ SessionExact(s) /\ FirstOfAddress
  BY DEF CrashOK
<1>2. /\ Keys(file) \in SUBSET Nat /\ IsFiniteSet(Keys(file))
      /\ Sessions \subseteq Nat /\ Keys(file) \subseteq Sessions
      /\ mono \in Nat /\ boot \in Nat
      /\ MaxLeases \in Nat /\ MaxPendingReleases \in Nat
  <2>1. Keys(file) \in SUBSET Sessions /\ mono \in Nat /\ boot \in Nat
    BY DEF Keys, IndInv, TypeOK
  <2>2. IsFiniteSet(Keys(file))
    BY <2>1, SetsAssumption, FS_Subset
  <2> QED BY <2>1, <2>2, SetsAssumption, BoundsAssumption
<1>3. PICK l \in Lease : /\ l \in {active[s], pending[s]} /\ mono < l.exp
                         /\ Exact(s, l) /\ Holds(s, l.addr)
  BY <1>1 DEF IndInv, TypeOK, SessionExact, Holds
<1>4. s \in Keys(file) /\ file[s].exp > wall /\ Holds(s, file[s].addr)
  <2>1. file[s] # None /\ file[s].addr = l.addr /\ file[s].exp = boot + l.exp
    BY <1>1, <1>3 DEF Exact
  <2> QED BY <1>2, <1>3, <2>1 DEF Keys, wall, Lease
<1>5. \A x \in Keys(file) : Rank(x, Keys(file)) < MaxLeases + MaxPendingReleases
  <2>1. Cardinality(Keys(file)) \in Nat
    BY <1>2, FS_CardinalityType
  <2>2. Cardinality(Keys(file)) <= MaxLeases + MaxPendingReleases
    BY DEF JournalFits
  <2>3. \A x \in Keys(file) : /\ Rank(x, Keys(file)) \in Nat
                              /\ Rank(x, Keys(file)) < Cardinality(Keys(file))
    BY <1>2, RankRises
  <2> QED BY <1>2, <2>1, <2>2, <2>3
<1>6. fresh = all
  BY <1>5
<1>7. valid \in SUBSET all /\ all \in SUBSET Keys(file)
  BY <1>6
<1>8. s \in valid
  <2>1. s \in fresh
    BY <1>4, <1>6
  <2>2. ASSUME NEW y \in fresh, y < s PROVE file[y].addr # file[s].addr
    <3>1. y \in Sessions /\ file[y] # None /\ file[y].exp > wall
      BY <1>2, <2>2 DEF Keys
    <3>2. Fresh(y) /\ y # s /\ ~(s < y)
      BY <1>1, <1>2, <2>2, <3>1 DEF Fresh
    <3> QED BY <1>1, <1>4, <3>1, <3>2 DEF FirstOfAddress
  <2> QED BY <2>1, <2>2
<1>9. Rank(s, valid) < MaxLeases
  <2>1. IsFiniteSet(all) /\ valid \in SUBSET Nat
    BY <1>2, <1>7, FS_Subset
  <2>2. /\ IsFiniteSet(valid) /\ Cardinality(valid) <= Cardinality(all)
        /\ Cardinality(valid) \in Nat /\ Cardinality(all) \in Nat
    BY <1>7, <2>1, FS_Subset, FS_CardinalityType
  <2>3. Cardinality(all) <= MaxLeases
    BY DEF JournalFits
  <2> HIDE DEF valid, all
  <2>4. Rank(s, valid) \in Nat /\ Rank(s, valid) < Cardinality(valid)
    BY <1>8, <2>1, <2>2, RankRises
  <2> QED BY <1>2, <2>2, <2>3, <2>4
<1>10. Restored(wall) = {x \in valid : Rank(x, valid) < MaxLeases}
  BY DEF Restored
<1> HIDE DEF valid
<1> QED BY <1>8, <1>9, <1>10

\* A crash at any moment, and a restart at once, brings back every unexpired lease
\* that no call is busy with, whatever calls are between their phases, whichever
\* writes failed and whatever earlier crashes left behind: as long as a write
\* that fails leaves the journal alone and recovery's caps do not cut it off.
\* Without the second condition pool_tight refutes it.
THEOREM CrashSurvived == Spec => [](~TornWrites /\ JournalFits => SurvivesCrash)
<1>1. Init => JournalOK /\ CrashOK
  BY DEF Init, JournalOK, CrashOK
<1>2. IndInv /\ JournalOK /\ CrashOK /\ [Next]_vars => JournalOK' /\ CrashOK'
  BY NextJournal, NextExact
<1>3. IndInv /\ CrashOK => (~TornWrites /\ JournalFits => SurvivesCrash)
  BY AgreesSurvives
<1> QED BY <1>1, <1>2, <1>3, Inductive, PTL DEF Spec
=============================================================================
