----------------------------- MODULE AddressPool -----------------------------
(***************************************************************************)
(* The V2 gateway's address pool (v2/address_pool.rs) with its lease       *)
(* journal.  Every mutating call of the pool runs in three phases:         *)
(*                                                                         *)
(*   1. under the pool mutex: look, take the lease, park the session (and  *)
(*      its addresses) in the inflight sets;                               *)
(*   2. with the mutex released: one store operation per parked session;   *)
(*   3. under the mutex again: unpark, then commit, restore or quarantine. *)
(*                                                                         *)
(* Each phase is one step here, so calls of different threads interleave   *)
(* between the phases, and the process may crash between any two of them.  *)
(*                                                                         *)
(* An address stands for the pair (IPv4 address, IPv6 /64) of a lease.     *)
(* The pool hands out the lowest free member of both families in the same  *)
(* critical section and frees both together, so the k-th usable IPv4 host  *)
(* and the k-th usable /64 always travel together.                         *)
(***************************************************************************)
EXTENDS Naturals, FiniteSets, Sequences, SequencesExt, Ordering

CONSTANTS
  Sessions,            \* session identifiers, ordered as the journal sorts them
  Devices,             \* device identifiers
  Addresses,           \* usable address pairs, in allocation order
  Workers,             \* threads that may be inside a pool call
  MaxLeases,           \* maximum_leases
  MaxPendingReleases,  \* maximum_pending_releases
  PendingTTL,          \* pending_ttl_ms, in ticks
  LeaseTTL,            \* lease_ttl_ms, in ticks
  RetryBase,           \* RETRY_BASE_MS, in ticks
  RetryCap,            \* RETRY_CAP_MS, in ticks
  MaxShift,            \* attempts beyond it no longer lengthen the backoff (16)
  MaxRetryBatch,       \* MAX_RETRY_BATCH
  Durable,             \* TRUE: SelfHosted or Managed store; FALSE: Ephemeral
  TornWrites,          \* TRUE: a journal write may fail after its rename
  BootTimes,           \* wall-clock times at which the gateway may start
  WallStepsBack,       \* TRUE: the wall clock may be set back across a restart
  MaxTime,             \* bound on the wall clock
  MaxSkew,             \* bound on the age of the time a caller passes in
  None                 \* absence of a lease or of a record

ASSUME SetsAssumption ==
  /\ Sessions \subseteq Nat /\ IsFiniteSet(Sessions)
  /\ Addresses \subseteq Nat
ASSUME BoundsAssumption ==
  /\ MaxLeases \in Nat \ {0} /\ MaxPendingReleases \in Nat \ {0}
  /\ PendingTTL \in Nat \ {0} /\ LeaseTTL \in Nat \ {0}
  /\ RetryBase \in Nat /\ RetryCap \in Nat /\ MaxShift \in Nat
  /\ MaxRetryBatch \in Nat \ {0}
  /\ MaxTime \in Nat /\ MaxSkew \in Nat
  /\ BootTimes \subseteq Nat
  /\ Durable \in BOOLEAN /\ TornWrites \in BOOLEAN
  /\ WallStepsBack \in BOOLEAN

\* A Reserved or Active lease in memory; exp is on the monotonic clock.
Lease == [dev : Devices, addr : Addresses, exp : Nat]

\* A quarantined lease: its durable delete is still owed.
Quarantined == [dev : Devices, addr : Addresses, attempts : Nat, next : Nat]

\* A journal record; exp is on the wall clock.
Record ==
  [dev : Devices, addr : Addresses, state : {"Reserved", "Active"}, exp : Nat]

ASSUME NoneAssumption ==
  None \notin Lease /\ None \notin Quarantined /\ None \notin Record

VARIABLES
  phase,            \* "down", "recovering" or "up"
  mono,             \* monotonic clock of this process
  boot,             \* wall clock when the process started
  active,           \* Inner.active: Active leases
  pending,          \* Inner.pending: Reserved leases
  release_pending,  \* Inner.release_pending: the quarantine
  release_order,    \* Inner.release_order: FIFO of owed deletes
  inflight,         \* Inner.inflight: sessions parked by a call
  inflight_addr,    \* Inner.inflight_v4 / inflight_v6
  op,               \* what each thread is doing
  retry_seq,        \* the retry batch of each thread, in order
  mirror,           \* JournalLeaseStore.entries
  file,             \* the journal file
  stale,            \* records recovery dropped and has yet to delete
  stale_failed      \* dropped records whose delete failed

clocks == <<mono, boot>>
inner == <<active, pending, release_pending, release_order,
           inflight, inflight_addr>>
calls == <<op, retry_seq>>
store == <<mirror, file>>
recovery == <<stale, stale_failed>>
vars == <<phase, clocks, inner, calls, store, recovery>>

-----------------------------------------------------------------------------
\* Helpers

Keys(m) == {s \in Sessions : m[s] # None}
AddrsOf(m) == {m[s].addr : s \in Keys(m)}
Empty == [s \in Sessions |-> None]

wall == boot + mono

\* The times a caller may have read before its call runs.
Captured == {t \in 0 .. mono : mono - t <= MaxSkew}

\* Mutant: the allocator forgets the addresses parked by running calls.
UsedIgnoringParked(reserved) ==
  AddrsOf(active) \cup AddrsOf(reserved) \cup AddrsOf(release_pending)

\* find_free_ipv4 and find_free_ipv6 skip live, quarantined and parked addresses.
Used(reserved) ==
  AddrsOf(active) \cup AddrsOf(reserved) \cup AddrsOf(release_pending)
    \cup inflight_addr
Free(reserved) == Addresses \ Used(reserved)

AtCapacity(reserved) ==
  Cardinality(Keys(active)) + Cardinality(Keys(reserved))
    + Cardinality(inflight) >= MaxLeases

\* next_retry_deadline: exponential, capped.
NextRetryDeadline(now, attempts) ==
  LET backoff == RetryBase * 2 ^ attempts
  IN now + IF backoff \in 0 .. RetryCap THEN backoff ELSE RetryCap

\* The attempts counter only matters up to MaxShift, so it stops there.
OneMore(attempts) == IF attempts < MaxShift THEN attempts + 1 ELSE attempts

Idle ==
  [kind |-> "idle", now |-> 0, batch |-> {}, todo |-> {}, failed |-> {},
   was_pending |-> {}, taken |-> Empty]

Call(kind, now, batch, was_pending, taken) ==
  [kind |-> kind, now |-> now, batch |-> batch, todo |-> batch,
   failed |-> {}, was_pending |-> was_pending, taken |-> taken]

ParkingKinds == {"reserve", "promote", "expire", "release", "sweep"}
PersistKinds == {"reserve", "promote", "renew"}
DeleteKinds == {"expire", "release", "sweep", "retry"}
Kinds == {"idle", "retry_due"} \cup PersistKinds \cup DeleteKinds

\* Phase 1 of a call that takes the leases of a batch of sessions.
Park(w, kind, now, batch, was_pending, taken) ==
  /\ op' = [op EXCEPT ![w] = Call(kind, now, batch, was_pending, taken)]
  /\ inflight' = inflight \cup batch
  /\ inflight_addr' = inflight_addr \cup {taken[s].addr : s \in batch}
  /\ UNCHANGED retry_seq

\* The start of phase 3.
Unpark(w) ==
  /\ inflight' = inflight \ op[w].batch
  /\ inflight_addr' =
       inflight_addr \ {op[w].taken[s].addr : s \in op[w].batch}

\* Mutant: a call starts although another one is busy with the session.
ReadyIgnoringInflight(w, s) ==
  /\ phase = "up"
  /\ op[w].kind = "idle"

Ready(w, s) ==
  /\ phase = "up"
  /\ op[w].kind = "idle"
  /\ s \notin inflight

Returns(w, kind) ==
  /\ op[w].kind = kind
  /\ op[w].todo = {}

-----------------------------------------------------------------------------
\* Phase 2: the journal.  The mirror lock covers the whole rewrite, so a write
\* is one step.  A failed write leaves the mirror alone; when it fails after
\* the rename (parent fsync, final validation) the file is already the new one.

JournalWrite(new, w, s) ==
  \/ /\ mirror' = IF Durable THEN new ELSE mirror
     /\ file' = IF Durable THEN new ELSE file
     /\ op' = [op EXCEPT ![w].todo = @ \ {s}]
  \/ /\ Durable
     /\ file' \in {file} \cup (IF TornWrites THEN {new} ELSE {})
     /\ op' = [op EXCEPT ![w].todo = @ \ {s}, ![w].failed = @ \cup {s}]
     /\ UNCHANGED mirror

\* Mutant: the journal gets the monotonic deadline instead of the wall one.
RecordOfMonotonic(c, s) ==
  [dev |-> c.taken[s].dev, addr |-> c.taken[s].addr,
   state |-> IF c.kind = "reserve" THEN "Reserved" ELSE "Active",
   exp |-> c.now + IF c.kind = "reserve" THEN PendingTTL ELSE LeaseTTL]

\* What a persisting call writes for its session.
RecordOf(c, s) ==
  [dev |-> c.taken[s].dev, addr |-> c.taken[s].addr,
   state |-> IF c.kind = "reserve" THEN "Reserved" ELSE "Active",
   exp |-> boot + c.now + IF c.kind = "reserve" THEN PendingTTL ELSE LeaseTTL]

StorePersist(w) ==
  /\ op[w].kind \in PersistKinds
  /\ \E s \in op[w].todo :
       JournalWrite([mirror EXCEPT ![s] = RecordOf(op[w], s)], w, s)
  /\ UNCHANGED <<phase, clocks, inner, retry_seq, recovery>>

\* A batch is deleted one session after the other: a sweep in session order, a
\* retry in FIFO order.
NextInBatch(w, s) ==
  IF op[w].kind = "retry"
  THEN \E i \in DOMAIN retry_seq[w] :
         /\ retry_seq[w][i] = s
         /\ \A j \in 1 .. i - 1 : retry_seq[w][j] \notin op[w].todo
  ELSE \A x \in op[w].todo : s <= x

StoreRelease(w) ==
  /\ op[w].kind \in DeleteKinds
  /\ \E s \in op[w].todo :
       /\ NextInBatch(w, s)
       /\ JournalWrite([mirror EXCEPT ![s] = None], w, s)
  /\ UNCHANGED <<phase, clocks, inner, retry_seq, recovery>>

-----------------------------------------------------------------------------
\* reserve_at_time

\* A session with no lease, or whose own reservation has expired.
MayReserve(s, d, t) ==
  /\ release_pending[s] = None
  /\ active[s] = None
  /\ pending[s] # None => pending[s].dev = d /\ t >= pending[s].exp

\* The expired reservation is dropped before the capacity check fails.
ReserveExhausted(w, s, d, t) ==
  /\ Ready(w, s)
  /\ MayReserve(s, d, t)
  /\ pending[s] # None
  /\ LET rest == [pending EXCEPT ![s] = None]
     IN /\ AtCapacity(rest) \/ Free(rest) = {}
        /\ pending' = rest
  /\ UNCHANGED <<phase, clocks, active, release_pending, release_order,
                 inflight, inflight_addr, calls, store, recovery>>

ReserveBegin(w, s, d, t) ==
  /\ Ready(w, s)
  /\ MayReserve(s, d, t)
  /\ LET rest == [pending EXCEPT ![s] = None]
     IN /\ ~AtCapacity(rest)
        /\ \E a \in Free(rest) :
             /\ \A b \in Free(rest) : a <= b
             /\ Park(w, "reserve", t, {s}, {},
                  [Empty EXCEPT ![s] =
                     [dev |-> d, addr |-> a, exp |-> t + PendingTTL]])
        /\ pending' = rest
  /\ UNCHANGED <<phase, clocks, active, release_pending, release_order,
                 store, recovery>>

\* Mutant: the reservation counts although its record was not written.
ReserveFinishUnwritten(w) ==
  /\ Returns(w, "reserve")
  /\ Unpark(w)
  /\ pending' = [s \in Sessions |->
       IF s \in op[w].batch THEN op[w].taken[s] ELSE pending[s]]
  /\ op' = [op EXCEPT ![w] = Idle]
  /\ UNCHANGED <<phase, clocks, active, release_pending, release_order,
                 retry_seq, store, recovery>>

ReserveFinish(w) ==
  /\ Returns(w, "reserve")
  /\ Unpark(w)
  /\ pending' = [s \in Sessions |->
       IF s \in op[w].batch \ op[w].failed
            /\ release_pending[s] = None /\ active[s] = None
       THEN op[w].taken[s] ELSE pending[s]]
  /\ op' = [op EXCEPT ![w] = Idle]
  /\ UNCHANGED <<phase, clocks, active, release_pending, release_order,
                 retry_seq, store, recovery>>

-----------------------------------------------------------------------------
\* commit_at_time: promote a reservation, or expire it

CommitBegin(w, s, t) ==
  /\ Ready(w, s)
  /\ active[s] = None
  /\ release_pending[s] = None
  /\ pending[s] # None
  /\ Park(w, IF t >= pending[s].exp THEN "expire" ELSE "promote",
          t, {s}, {s}, [Empty EXCEPT ![s] = pending[s]])
  /\ pending' = [pending EXCEPT ![s] = None]
  /\ UNCHANGED <<phase, clocks, active, release_pending, release_order,
                 store, recovery>>

PromoteFinish(w) ==
  /\ Returns(w, "promote")
  /\ Unpark(w)
  /\ pending' = [s \in Sessions |->
       IF s \in op[w].failed THEN op[w].taken[s] ELSE pending[s]]
  /\ active' = [s \in Sessions |->
       IF s \in op[w].batch \ op[w].failed
            /\ release_pending[s] = None /\ active[s] = None
       THEN [op[w].taken[s] EXCEPT !.exp = op[w].now + LeaseTTL]
       ELSE active[s]]
  /\ op' = [op EXCEPT ![w] = Idle]
  /\ UNCHANGED <<phase, clocks, release_pending, release_order,
                 retry_seq, store, recovery>>

-----------------------------------------------------------------------------
\* enqueue_release_locked

\* Mutant: one quarantine entry too many.
RoomOffByOne(F) ==
  {s \in F : Cardinality(Keys(release_pending)) + Rank(s, F)
               <= MaxPendingReleases}

\* The members of F, in session order, that still fit into the quarantine.
Room(F) ==
  {s \in F : Cardinality(Keys(release_pending)) + Rank(s, F)
               < MaxPendingReleases}

Quarantine(l, now) ==
  [dev |-> l.dev, addr |-> l.addr, attempts |-> 0,
   next |-> NextRetryDeadline(now, 0)]

\* Phase 3 of a delete: a failed delete goes to the quarantine; when that is
\* full the lease goes back to pending (those in reserved) or to active.
DeleteFinish(w, reserved, next) ==
  LET failed == op[w].failed
      queued == Room(failed)
      kept == failed \ queued
  IN /\ Unpark(w)
     /\ release_pending' = [s \in Sessions |->
          IF s \in queued THEN Quarantine(op[w].taken[s], op[w].now)
                          ELSE release_pending[s]]
     /\ release_order' = release_order \o InOrder(queued)
     /\ pending' = [s \in Sessions |->
          IF s \in kept \cap reserved THEN op[w].taken[s] ELSE pending[s]]
     /\ active' = [s \in Sessions |->
          IF s \in kept \ reserved THEN op[w].taken[s] ELSE active[s]]
     /\ op' = [op EXCEPT ![w] = next]
     /\ UNCHANGED <<phase, clocks, retry_seq, store, recovery>>

ExpireFinish(w) ==
  /\ Returns(w, "expire")
  /\ DeleteFinish(w, op[w].batch, Idle)

-----------------------------------------------------------------------------
\* release_at, and release, which passes 0 for the time

ReleaseBegin(w, s, t) ==
  /\ Ready(w, s)
  /\ release_pending[s] = None
  /\ \/ /\ pending[s] # None
        /\ Park(w, "release", t, {s}, {s}, [Empty EXCEPT ![s] = pending[s]])
        /\ pending' = [pending EXCEPT ![s] = None]
        /\ UNCHANGED active
     \/ /\ pending[s] = None
        /\ active[s] # None
        /\ Park(w, "release", t, {s}, {}, [Empty EXCEPT ![s] = active[s]])
        /\ active' = [active EXCEPT ![s] = None]
        /\ UNCHANGED pending
  /\ UNCHANGED <<phase, clocks, release_pending, release_order, store,
                 recovery>>

\* A full quarantine puts the lease back as Active, whatever it was.
ReleaseFinish(w) ==
  /\ Returns(w, "release")
  /\ DeleteFinish(w, {}, Idle)

\* release_deferred: session cleanup, on any thread, without store I/O.
ReleaseDeferred(s) ==
  /\ phase = "up"
  /\ s \notin inflight
  /\ release_pending[s] = None
  /\ pending[s] # None \/ active[s] # None
  /\ LET l == IF pending[s] # None THEN pending[s] ELSE active[s]
         fits == Room({s}) = {s}
     IN /\ release_pending' =
             IF fits THEN [release_pending EXCEPT ![s] = Quarantine(l, 0)]
                     ELSE release_pending
        /\ release_order' = IF fits THEN Append(release_order, s)
                                    ELSE release_order
        /\ active' = [active EXCEPT ![s] = IF fits THEN None ELSE l]
        /\ pending' = [pending EXCEPT ![s] = None]
  /\ UNCHANGED <<phase, clocks, inflight, inflight_addr, calls, store,
                 recovery>>

-----------------------------------------------------------------------------
\* renew_at_time: the lease stays in active while the session is parked

RenewBegin(w, s, t) ==
  /\ Ready(w, s)
  /\ active[s] # None
  /\ t < active[s].exp
  /\ op' = [op EXCEPT ![w] =
              Call("renew", t, {s}, {}, [Empty EXCEPT ![s] = active[s]])]
  /\ inflight' = inflight \cup {s}
  /\ UNCHANGED <<phase, clocks, active, pending, release_pending,
                 release_order, inflight_addr, retry_seq, store, recovery>>

RenewFinish(w) ==
  /\ Returns(w, "renew")
  /\ inflight' = inflight \ op[w].batch
  /\ active' = [s \in Sessions |->
       IF /\ s \in op[w].batch \ op[w].failed
          /\ active[s] # None
          /\ active[s].dev = op[w].taken[s].dev
          /\ active[s].addr = op[w].taken[s].addr
       THEN [active[s] EXCEPT !.exp = op[w].now + LeaseTTL]
       ELSE active[s]]
  /\ op' = [op EXCEPT ![w] = Idle]
  /\ UNCHANGED <<phase, clocks, pending, release_pending, release_order,
                 inflight_addr, retry_seq, store, recovery>>

-----------------------------------------------------------------------------
\* sweep, which ends with retry_pending_releases_bounded

Expired(m, t) ==
  {s \in Keys(m) : s \notin inflight /\ t >= m[s].exp}

\* An ephemeral pool's retry returns at once: it has no store.
AfterSweep(t) ==
  IF Durable THEN [Idle EXCEPT !.kind = "retry_due", !.now = t] ELSE Idle

SweepBegin(w, t) ==
  /\ phase = "up"
  /\ op[w].kind = "idle"
  /\ LET p == Expired(pending, t)
         a == Expired(active, t)
     IN IF p \cup a = {}
        THEN /\ op' = [op EXCEPT ![w] = AfterSweep(t)]
             /\ UNCHANGED <<active, pending, inflight, inflight_addr, retry_seq>>
        ELSE /\ Park(w, "sweep", t, p \cup a, p,
                  [s \in Sessions |-> IF s \in p THEN pending[s]
                                      ELSE IF s \in a THEN active[s]
                                      ELSE None])
             /\ pending' = [s \in Sessions |->
                  IF s \in p THEN None ELSE pending[s]]
             /\ active' = [s \in Sessions |->
                  IF s \in a THEN None ELSE active[s]]
  /\ UNCHANGED <<phase, clocks, release_pending, release_order, store,
                 recovery>>

SweepFinish(w) ==
  /\ Returns(w, "sweep")
  /\ DeleteFinish(w, op[w].was_pending, AfterSweep(op[w].now))

\* The first MaxRetryBatch due entries leave the FIFO; the rest keep their
\* places.  Only the session is parked: its entry stays in the quarantine.
RetryBegin(w) ==
  /\ phase = "up"
  /\ op[w].kind = "retry_due"
  /\ LET due(s) == /\ release_pending[s] # None
                   /\ s \notin inflight
                   /\ release_pending[s].next <= op[w].now
         all == Kept(release_order,
                     {i \in DOMAIN release_order : due(release_order[i])})
         seq == SubSeq(all, 1, IF Len(all) < MaxRetryBatch THEN Len(all)
                                                           ELSE MaxRetryBatch)
         batch == {s \in Sessions : due(s) /\ \E i \in DOMAIN seq : seq[i] = s}
         stays(s) == release_pending[s] # None /\ s \notin batch
     IN /\ release_order' =
             Kept(release_order, {i \in DOMAIN release_order : stays(release_order[i])})
        /\ retry_seq' = [retry_seq EXCEPT ![w] = seq]
        /\ inflight' = inflight \cup batch
        /\ op' = [op EXCEPT ![w] =
                    IF batch = {} THEN Idle
                    ELSE Call("retry", op[w].now, batch, {}, Empty)]
  /\ UNCHANGED <<phase, clocks, active, pending, release_pending,
                 inflight_addr, store, recovery>>

\* Mutant: a failed retry is not queued again.
RetryFinishForgets(w) ==
  /\ Returns(w, "retry")
  /\ inflight' = inflight \ op[w].batch
  /\ release_pending' = [s \in Sessions |->
       IF s \in op[w].batch \ op[w].failed THEN None ELSE release_pending[s]]
  /\ op' = [op EXCEPT ![w] = Idle]
  /\ retry_seq' = [retry_seq EXCEPT ![w] = <<>>]
  /\ UNCHANGED <<phase, clocks, active, pending, release_order,
                 inflight_addr, store, recovery>>

RetryFinish(w) ==
  /\ Returns(w, "retry")
  /\ inflight' = inflight \ op[w].batch
  /\ release_pending' = [s \in Sessions |->
       IF s \in op[w].failed /\ release_pending[s] # None
       THEN [release_pending[s] EXCEPT
               !.attempts = OneMore(@),
               !.next = NextRetryDeadline(op[w].now,
                          OneMore(release_pending[s].attempts))]
       ELSE IF s \in op[w].batch \ op[w].failed THEN None
       ELSE release_pending[s]]
  /\ release_order' =
       release_order \o Kept(retry_seq[w], {i \in DOMAIN retry_seq[w] :
                                              retry_seq[w][i] \in op[w].failed})
  /\ op' = [op EXCEPT ![w] = Idle]
  /\ retry_seq' = [retry_seq EXCEPT ![w] = <<>>]
  /\ UNCHANGED <<phase, clocks, active, pending, inflight_addr, store,
                 recovery>>

-----------------------------------------------------------------------------
\* Crash and recovery (with_store_at_time, recover_locked_at_time)

NoCalls ==
  /\ op' = [w \in Workers |-> Idle]
  /\ retry_seq' = [w \in Workers |-> <<>>]
  /\ inflight' = {}
  /\ inflight_addr' = {}

Crash ==
  /\ phase # "down"
  /\ phase' = "down"
  /\ active' = Empty /\ pending' = Empty /\ release_pending' = Empty
  /\ release_order' = <<>>
  /\ NoCalls
  /\ stale' = {} /\ stale_failed' = {}
  /\ mirror' = Empty
  /\ UNCHANGED <<clocks, file>>

\* The records recovery restores when it starts at wall time now: among the
\* first MaxLeases + MaxPendingReleases in session order, unexpired, the first
\* with its address, and within maximum_leases.
Restored(now) ==
  LET within == {s \in Keys(file) :
                   Rank(s, Keys(file)) < MaxLeases + MaxPendingReleases}
      fresh == {s \in within : file[s].exp > now}
      valid == {s \in fresh : \A x \in fresh :
                  x < s => file[x].addr # file[s].addr}
  IN {s \in valid : Rank(s, valid) < MaxLeases}

\* Opens the journal, restores what is valid, and drops the rest.
Recover(now) ==
  LET lease(s) == [dev |-> file[s].dev, addr |-> file[s].addr,
                   exp |-> file[s].exp - now]
      kept == Restored(now)
  IN /\ phase = "down"
     /\ WallStepsBack \/ now >= wall
     /\ phase' = "recovering"
     /\ mono' = 0
     /\ boot' = now
     /\ mirror' = file
     /\ pending' = [s \in Sessions |->
          IF s \in kept /\ file[s].state = "Reserved" THEN lease(s) ELSE None]
     /\ active' = [s \in Sessions |->
          IF s \in kept /\ file[s].state = "Active" THEN lease(s) ELSE None]
     /\ stale' = Keys(file) \ kept
     /\ UNCHANGED <<release_pending, release_order, inflight, inflight_addr,
                    calls, file, stale_failed>>

\* Deletes one dropped record; a failure is remembered for the quarantine.
RecoverDelete(s) ==
  LET new == [mirror EXCEPT ![s] = None]
  IN /\ phase = "recovering"
     /\ s \in stale
     /\ stale' = stale \ {s}
     /\ \/ mirror' = new /\ file' = new /\ UNCHANGED stale_failed
        \/ /\ file' \in {file} \cup (IF TornWrites THEN {new} ELSE {})
           /\ stale_failed' = stale_failed \cup {s}
           /\ UNCHANGED mirror
     /\ UNCHANGED <<phase, clocks, inner, calls>>

\* Construction ends; it fails when the quarantine cannot hold the failures.
RecoverDone ==
  /\ phase = "recovering"
  /\ stale = {}
  /\ IF Room(stale_failed) = stale_failed
     THEN /\ phase' = "up"
          /\ release_pending' = [s \in Sessions |->
               IF s \in stale_failed THEN Quarantine(mirror[s], mono)
                                     ELSE release_pending[s]]
          /\ release_order' = release_order \o InOrder(stale_failed)
          /\ UNCHANGED <<active, pending, mirror>>
     ELSE /\ phase' = "down"
          /\ active' = Empty /\ pending' = Empty /\ mirror' = Empty
          /\ UNCHANGED <<release_pending, release_order>>
  /\ stale_failed' = {}
  /\ UNCHANGED <<clocks, inflight, inflight_addr, calls, file, stale>>

-----------------------------------------------------------------------------
Tick ==
  /\ phase = "up"
  /\ wall < MaxTime
  /\ mono' = mono + 1
  /\ UNCHANGED <<phase, boot, inner, calls, store, recovery>>

Init ==
  /\ phase = "down"
  /\ mono = 0
  /\ boot = 0
  /\ active = Empty /\ pending = Empty /\ release_pending = Empty
  /\ release_order = <<>>
  /\ inflight = {} /\ inflight_addr = {}
  /\ op = [w \in Workers |-> Idle]
  /\ retry_seq = [w \in Workers |-> <<>>]
  /\ mirror = Empty /\ file = Empty
  /\ stale = {} /\ stale_failed = {}

Begin(w) ==
  \/ \E s \in Sessions, t \in Captured :
       \/ \E d \in Devices : ReserveBegin(w, s, d, t)
                             \/ ReserveExhausted(w, s, d, t)
       \/ CommitBegin(w, s, t)
       \/ RenewBegin(w, s, t)
  \/ \E s \in Sessions, t \in Captured \cup {0} : ReleaseBegin(w, s, t)
  \/ \E t \in Captured : SweepBegin(w, t)

Continue(w) ==
  \/ StorePersist(w) \/ StoreRelease(w)
  \/ ReserveFinish(w) \/ PromoteFinish(w) \/ ExpireFinish(w)
  \/ ReleaseFinish(w) \/ RenewFinish(w) \/ SweepFinish(w)
  \/ RetryBegin(w) \/ RetryFinish(w)

Next ==
  \/ \E w \in Workers : Begin(w) \/ Continue(w)
  \/ \E s \in Sessions : ReleaseDeferred(s)
  \/ Tick
  \/ Crash
  \/ \E now \in BootTimes : Recover(now)
  \/ \E s \in Sessions : RecoverDelete(s)
  \/ RecoverDone

Spec == Init /\ [][Next]_vars

\* A store delete for s that succeeds.
DeleteSucceeds(w, s) ==
  /\ StoreRelease(w)
  /\ s \in op[w].todo
  /\ s \notin op'[w].todo
  /\ s \notin op'[w].failed

\* A call that has begun runs to its end; the supervised sweep task gets its
\* turn with the current time again and again; a store that is
\* asked again and again does not refuse for ever.
FairSpec ==
  /\ Spec
  /\ \A w \in Workers : WF_vars(Continue(w))
  /\ SF_vars(\E w \in Workers : SweepBegin(w, mono))
  /\ \A s \in Sessions : SF_vars(\E w \in Workers : DeleteSucceeds(w, s))

-----------------------------------------------------------------------------
\* Invariants

CallType ==
  [kind : Kinds, now : Nat, batch : SUBSET Sessions, todo : SUBSET Sessions,
   failed : SUBSET Sessions, was_pending : SUBSET Sessions,
   taken : [Sessions -> Lease \cup {None}]]

\* Types of the pool state: maps of leases, parked sets, calls and journal.
TypeOK ==
  /\ phase \in {"down", "recovering", "up"}
  /\ mono \in Nat /\ boot \in Nat
  /\ active \in [Sessions -> Lease \cup {None}]
  /\ pending \in [Sessions -> Lease \cup {None}]
  /\ release_pending \in [Sessions -> Quarantined \cup {None}]
  /\ inflight \subseteq Sessions /\ inflight_addr \subseteq Addresses
  /\ op \in [Workers -> CallType]
  /\ mirror \in [Sessions -> Record \cup {None}]
  /\ file \in [Sessions -> Record \cup {None}]
  /\ stale \subseteq Sessions /\ stale_failed \subseteq Sessions

\* The sessions a thread took out of the maps and has not put back.
Parked(w) == IF op[w].kind \in ParkingKinds THEN op[w].batch ELSE {}

\* Session s holds address a: Reserved, Active, or inside a call.
Holds(s, a) ==
  \/ active[s] # None /\ active[s].addr = a
  \/ pending[s] # None /\ pending[s].addr = a
  \/ \E w \in Workers : s \in Parked(w) /\ op[w].taken[s].addr = a

\* No two sessions hold the same address, whatever calls are between their
\* phases and after any crash ("one unique IPv4 address plus one IPv6 /64 per
\* active V2 session", address_pool.rs).
UniqueAddresses ==
  \A s1, s2 \in Sessions, a \in Addresses :
    Holds(s1, a) /\ Holds(s2, a) => s1 = s2

\* A session is in one place only: one of the three maps or one call that took
\* it; and the inflight set is exactly what the running calls parked.
SingleHome ==
  /\ \A s \in Sessions :
       /\ active[s] # None => pending[s] = None /\ release_pending[s] = None
       /\ pending[s] # None => release_pending[s] = None
       /\ \A w \in Workers : s \in Parked(w) =>
            active[s] = None /\ pending[s] = None /\ release_pending[s] = None
  /\ \A w1, w2 \in Workers :
       w1 # w2 => op[w1].batch \cap op[w2].batch = {}
  /\ \A s \in Sessions : s \in inflight <=> \E w \in Workers : s \in op[w].batch

\* Sessions that count towards maximum_leases.
Live ==
  {s \in Sessions : \/ active[s] # None
                    \/ pending[s] # None
                    \/ s \in inflight /\ release_pending[s] = None}

\* maximum_leases and maximum_pending_releases hold at every instant, the
\* leases that are inside a call included.
WithinBounds ==
  /\ Cardinality(Live) <= MaxLeases
  /\ Cardinality(Keys(release_pending)) <= MaxPendingReleases

\* Every quarantined session is owed a retry: it is in the FIFO once, or in the
\* batch of exactly the retry that took it out.  None is forgotten.
RetryOwed ==
  /\ IsInjective(release_order)
  /\ Range(release_order) \cup UNION {Range(retry_seq[w]) : w \in Workers}
       = Keys(release_pending)
  /\ \A w \in Workers :
       /\ Range(retry_seq[w]) \cap Range(release_order) = {}
       /\ op[w].kind = "retry" => Range(retry_seq[w]) = op[w].batch

\* Between calls on it, a durable pool has a record of everything it blocks: same
\* owner and address as the Reserved, Active or quarantined lease in memory.
Backs(s, l) ==
  mirror[s] # None /\ mirror[s].addr = l.addr /\ mirror[s].dev = l.dev
Backed(m) == \A s \in Keys(m) \ inflight : Backs(s, m[s])
DurablyBacked ==
  Durable /\ phase = "up" =>
    Backed(active) /\ Backed(pending) /\ Backed(release_pending)

\* If the gateway crashed now and restarted at once, every unexpired Reserved or
\* Active lease that no call is busy with would come back: "a crash before commit still recovers the
\* reservation and blocks reuse by other sessions".
SurvivesCrash ==
  Durable /\ phase = "up" =>
    \A s \in Sessions \ inflight :
      (\/ active[s] # None /\ mono < active[s].exp
       \/ pending[s] # None /\ mono < pending[s].exp) => s \in Restored(wall)

\* Every quarantined lease is eventually freed: the retry FIFO starves nobody
\* ("the bounded retry path performs the actual durable delete").
QuarantineDrains ==
  \A s \in Sessions : release_pending[s] # None ~> release_pending[s] = None

\* What a call between two phases can rely on: the leases it took are its own,
\* the entry it renews or retries has stayed where it was, and the parked
\* addresses are exactly those of the leases that are inside calls.
CallsOK ==
  /\ \A w \in Workers :
       /\ op[w].todo \subseteq op[w].batch
       /\ op[w].failed \subseteq op[w].batch
       /\ op[w].kind \in {"idle", "retry_due"} => op[w].batch = {}
       /\ phase # "up" => op[w].kind = "idle"
       /\ \A s \in op[w].batch :
            /\ op[w].kind # "retry" => op[w].taken[s] # None
            /\ op[w].kind = "retry" => release_pending[s] # None
            /\ op[w].kind = "renew" => active[s] # None
  /\ \A a \in Addresses : a \in inflight_addr <=>
       \E w \in Workers : \E s \in Parked(w) : op[w].taken[s].addr = a

\* What recovery can rely on: nothing is quarantined or in a call before the
\* pool is up, and a dropped record is of a session that was not restored.
RecoveryOK ==
  /\ phase # "recovering" => stale = {} /\ stale_failed = {}
  /\ phase # "up" => \A s \in Sessions : release_pending[s] = None
  /\ phase = "down" =>
       \A s \in Sessions : active[s] = None /\ pending[s] = None
  /\ stale \cap stale_failed = {}
  /\ \A s \in stale \cup stale_failed :
       mirror[s] # None /\ active[s] = None /\ pending[s] = None

\* The inductive invariant behind the theorems of AddressPoolProofs.
IndInv ==
  /\ TypeOK
  /\ SingleHome
  /\ CallsOK
  /\ RecoveryOK
  /\ UniqueAddresses
  /\ WithinBounds

\* What the journal holds of session s while call w is busy with it: the lease
\* the call took (a reservation's only once it is written), or the quarantined
\* one it retries, until the record is deleted.
CallBacked(w, s) ==
  LET c == op[w]
      open == s \in c.todo \cup c.failed
  IN /\ s \notin c.todo \cap c.failed
     /\ c.kind \in {"promote", "renew"} \/ (c.kind = "reserve" /\ ~open)
          \/ (c.kind \in DeleteKinds \ {"retry"} /\ open) => Backs(s, c.taken[s])
     /\ c.kind = "retry" /\ open => Backs(s, release_pending[s])
     /\ c.kind = "renew" =>
          active[s].dev = c.taken[s].dev /\ active[s].addr = c.taken[s].addr

\* The journal between any two steps, the recovery included.
JournalOK ==
  Durable /\ phase # "down" =>
    /\ Backed(active) /\ Backed(pending) /\ Backed(release_pending)
    /\ \A w \in Workers : \A s \in op[w].batch : CallBacked(w, s)

\* A record that a restart at this moment would take for a lease.
Fresh(s) == mirror[s] # None /\ mirror[s].exp > wall

\* The record of session s says what lease l says.
Exact(s, l) ==
  mirror[s] # None /\ mirror[s].addr = l.addr /\ mirror[s].exp = boot + l.exp

\* The record of session s while call w is busy with it: still that of the lease
\* it took or renews, or already what the call wrote. A reservation finds no
\* record that is fresh.
CallExact(w, s) ==
  LET c == op[w]
      open == s \in c.todo \cup c.failed
  IN /\ c.kind = "reserve" => c.taken[s].exp = c.now + PendingTTL
     /\ c.kind = "reserve" /\ open => ~Fresh(s)
     /\ c.kind \in {"promote", "expire", "release", "sweep"} /\ open => Exact(s, c.taken[s])
     /\ c.kind = "renew" /\ open => Exact(s, active[s])
     /\ c.kind \in PersistKinds /\ ~open => mirror[s] = RecordOf(c, s)
     /\ c.kind \in DeleteKinds /\ ~open => mirror[s] = None

\* Somebody keeps the address of a record that is fresh.
Guarded(s) ==
  \/ s \in stale \cup stale_failed
  \/ Holds(s, mirror[s].addr)
  \/ release_pending[s] # None /\ release_pending[s].addr = mirror[s].addr

SessionExact(s) ==
  /\ s \notin inflight /\ active[s] # None => Exact(s, active[s])
  /\ s \notin inflight /\ pending[s] # None => Exact(s, pending[s])
  /\ \A w \in Workers : s \in op[w].batch => CallExact(w, s)
  /\ Fresh(s) => Guarded(s)

\* Of a session that holds an address, no session before it has a fresh record.
FirstOfAddress ==
  \A s, x \in Sessions :
    x # s /\ Fresh(x) /\ Holds(s, mirror[x].addr) => s < x

\* The journal and the memory agree on the leases and their expiry, when a write
\* that fails leaves the file alone.
CrashOK ==
  Durable /\ ~TornWrites /\ phase # "down" =>
    /\ mirror = file
    /\ \A s \in Sessions : SessionExact(s)
    /\ FirstOfAddress

\* A restart at this moment would read the whole journal and could restore
\* every record that is fresh: neither of recovery's caps cuts any off.
JournalFits ==
  /\ Cardinality(Keys(file)) <= MaxLeases + MaxPendingReleases
  /\ Cardinality({s \in Keys(file) : file[s].exp > wall}) <= MaxLeases

\* The sequence q lists the set S: every member of S is in it, once.
Lists(q, S) ==
  /\ \A i, j \in 1 .. Len(q) : q[i] = q[j] => i = j
  /\ \A s \in Sessions : s \in S <=> \E i \in 1 .. Len(q) : q[i] = s

\* The batch a retry took out of the FIFO, and the entries it left there.
Retrying(w) == IF op[w].kind = "retry" THEN op[w].batch ELSE {}
Waiting ==
  {s \in Keys(release_pending) : \A w \in Workers : s \notin Retrying(w)}

\* The FIFO lists what waits, and the queue of a retry what it took: the form of
\* RetryOwed that a call between its phases can rely on.
RetryOK ==
  /\ release_order \in Seq(Sessions)
  /\ retry_seq \in [Workers -> Seq(Sessions)]
  /\ Lists(release_order, Waiting)
  /\ \A w \in Workers : Lists(retry_seq[w], Retrying(w))
=============================================================================
