----------------------------- MODULE FlowReceive -----------------------------
(***************************************************************************)
(* The V2 receive side of sg-multipath: SessionDedup in front of           *)
(* SessionReorder, as the engine is meant to call them for every datagram, *)
(* and their expire calls.                                                 *)
(*                                                                         *)
(* Times are ages: what the code derives from now_ms by subtraction is     *)
(* kept as the time since it was set, and stops growing where the code     *)
(* stops telling the difference. MaxId stands for u64::MAX.                *)
(***************************************************************************)
EXTENDS Naturals, FiniteSetsExt, SequencesExt, Option

CONSTANTS
  Keys,               \* receive keys, numbered in their deterministic order
  MaxId,              \* u64::MAX
  Classes,            \* traffic classes of datagrams
  Deadline,           \* deadline_for
  Lengths,            \* payload lengths
  MaxFlows, MaxPackets, MaxBytesPerFlow, MaxBytesPerSession, MaxFutureGap,
  DedupFlows, DedupPackets,
  FlowIdleTTL, TombstoneTTL, MaxTombstones    \* of either table

ReorderLimits ==
  {MaxFlows, MaxPackets, MaxBytesPerFlow, MaxBytesPerSession, MaxFutureGap,
   FlowIdleTTL, TombstoneTTL, MaxTombstones} \cup {Deadline[c] : c \in Classes}

DedupLimits == {DedupFlows, DedupPackets, FlowIdleTTL, TombstoneTTL, MaxTombstones}

ASSUME ReceiveLimits ==
  /\ Keys \subseteq Nat /\ MaxId \in Nat
  /\ ReorderLimits \cup DedupLimits \subseteq Nat \ {0}

Ids == 0..MaxId

VARIABLES
  flows,              \* SessionReorder.flows
  tombstones,
  session_bytes,      \* buffered_bytes_session
  dedup_flows,        \* SessionDedup.flows
  dedup_tombstones,
  batch,              \* what the last call delivered, by key
  high                \* the highest identifier delivered while the key is remembered

reorder == <<flows, tombstones, session_bytes>>
dedup == <<dedup_flows, dedup_tombstones>>
vars == <<reorder, dedup, batch, high>>

-----------------------------------------------------------------------------
\* Tombstones, the same in both tables

Known(table) == {k \in Keys : table[k] # None}
Minus(a, b) == IF a > b THEN a - b ELSE 0

PurgeExpired(T) ==
  [k \in Keys |-> IF T[k] # None /\ T[k].left = 0 THEN None ELSE T[k]]

\* The order of expiry, then watermark, then key.
Sooner(T, k, j) ==
  \/ T[k].left < T[j].left
  \/ T[k].left = T[j].left /\ T[k].watermark < T[j].watermark
  \/ T[k].left = T[j].left /\ T[k].watermark = T[j].watermark /\ k < j

\* min_by of that order.
Soonest(T) == CHOOSE k \in Known(T) : \A j \in Known(T) \ {k} : Sooner(T, k, j)

InsertTombstone(T, k, watermark) ==
  LET P == PurgeExpired(T)
      Q == IF Cardinality(Known(P)) >= MaxTombstones
           THEN [P EXCEPT ![Soonest(P)] = None] ELSE P
  IN [Q EXCEPT ![k] = [watermark |-> watermark, left |-> TombstoneTTL]]

\* Mutant: the watermark itself may be received again.
BuriedBelow(T, k, id) == T[k] # None /\ T[k].left > 0 /\ id < T[k].watermark

\* A replay at or below the watermark of a remembered key.
Buried(T, k, id) == T[k] # None /\ T[k].left > 0 /\ id <= T[k].watermark

\* The flows that were idle longest: one of them is evicted.
Oldest(table) ==
  {k \in Known(table) : \A j \in Known(table) : table[j].idle <= table[k].idle}

Touched(f) == [f EXCEPT !.idle = 0]

-----------------------------------------------------------------------------
\* SessionDedup

DedupWatermark(f) == Max(f.seen)

\* observe for a key with a flow: a full window forgets its smallest entry.
Recorded(f, id) ==
  LET kept == IF Cardinality(f.seen) >= DedupPackets
              THEN f.seen \ {Min(f.seen)} ELSE f.seen
  IN [seen |-> kept \cup {id}, idle |-> 0]

ObserveDuplicate(k, id) ==
  \/ /\ dedup_flows[k] # None /\ id \in dedup_flows[k].seen
     /\ dedup_flows' = [dedup_flows EXCEPT ![k] = Touched(@)]
     /\ UNCHANGED dedup_tombstones
  \/ /\ dedup_flows[k] = None /\ Buried(dedup_tombstones, k, id)
     /\ UNCHANGED dedup

ObserveNew(k, id) ==
  \/ /\ dedup_flows[k] # None /\ id \notin dedup_flows[k].seen
     /\ dedup_flows' = [dedup_flows EXCEPT ![k] = Recorded(@, id)]
     /\ UNCHANGED dedup_tombstones
  \/ /\ dedup_flows[k] = None /\ ~Buried(dedup_tombstones, k, id)
     /\ LET T == [dedup_tombstones EXCEPT ![k] = None]
            first == [seen |-> {id}, idle |-> 0]
        IN \/ /\ Cardinality(Known(dedup_flows)) < DedupFlows
              /\ dedup_flows' = [dedup_flows EXCEPT ![k] = first]
              /\ dedup_tombstones' = T
           \/ /\ Cardinality(Known(dedup_flows)) >= DedupFlows
              /\ \E old \in Oldest(dedup_flows) :
                   /\ dedup_flows' = [dedup_flows EXCEPT ![old] = None, ![k] = first]
                   /\ dedup_tombstones' =
                        InsertTombstone(T, old, DedupWatermark(dedup_flows[old]))

\* The idle flows are buried one by one, in the arbitrary order of the map, each
\* in the place of the soonest when the table is full: the last one stays, and
\* of the others those that fit and come last in the order of eviction.
Bury(T, mark) ==
  LET all == [k \in Keys |-> IF k \in DOMAIN mark
                             THEN [watermark |-> mark[k], left |-> TombstoneTTL] ELSE T[k]]
      later(k, last) == {j \in Known(all) \ {last} : Sooner(all, k, j)}
      left(last) == [k \in Keys |->
        IF k = last \/ (all[k] # None /\ Cardinality(later(k, last)) + 1 < MaxTombstones)
        THEN all[k] ELSE None]
  IN IF DOMAIN mark = {} THEN {T} ELSE {left(last) : last \in DOMAIN mark}

ExpireDedup ==
  LET idle == {k \in Known(dedup_flows) : dedup_flows[k].idle >= FlowIdleTTL}
  IN /\ dedup_tombstones' \in Bury(PurgeExpired(dedup_tombstones),
                                   [k \in idle |-> DedupWatermark(dedup_flows[k])])
     /\ dedup_flows' = [k \in Keys |-> IF k \in idle THEN None ELSE dedup_flows[k]]
     /\ batch' = [k \in Keys |-> {}]
     /\ UNCHANGED <<reorder, high>>

-----------------------------------------------------------------------------
\* SessionReorder

Held(f) == DOMAIN f.buffer
Bytes(f, S) == MapThenSumSet(LAMBDA i : f.buffer[i].len, S)

\* Mutant: only the first packet behind a filled gap goes with it.
ChainHead(f, id) == {id} \cap Held(f)

\* The held packets that follow id without a gap.
Chain(f, id) == {i \in Held(f) : i >= id /\ \A j \in id..i : j \in Held(f)}

\* max_observed_for_flow
Watermark(f) ==
  IF f.exhausted THEN MaxId
  ELSE Max(Held(f) \cup {Minus(f.next_expected, 1)})

\* The flow once everything in S was delivered, S not empty.
Delivered(f, S) ==
  LET out == S \cap Held(f)
  IN [f EXCEPT !.next_expected = IF Max(S) = MaxId THEN MaxId ELSE Max(S) + 1,
               !.exhausted = Max(S) = MaxId,
               !.buffer = [i \in Held(f) \ out |-> f.buffer[i]],
               !.bytes = Minus(@, Bytes(f, out)),
               !.idle = 0]

\* ReorderOutcome: what a call delivers, or nothing.
Outcome(k, S) == batch' = [j \in Keys |-> IF j = k THEN S ELSE {}]
Quiet == batch' = [k \in Keys |-> {}]

Deliver(k, f, S) ==
  /\ flows' = [flows EXCEPT ![k] = Delivered(f, S)]
  /\ Outcome(k, S)
  /\ UNCHANGED tombstones

Refused(k) ==
  /\ flows' = [flows EXCEPT ![k] = Touched(@)]
  /\ Quiet /\ UNCHANGED <<tombstones, session_bytes>>

NewFlow(c, id) ==
  [class |-> c, next_expected |-> IF id = MaxId THEN MaxId ELSE id + 1,
   exhausted |-> id = MaxId, buffer |-> [i \in {} |-> 0], bytes |-> 0, idle |-> 0]

\* Mutant: the bytes of an evicted flow stay accounted.
SessionBytesKept(S) == session_bytes

SessionBytesWithout(S) ==
  Minus(session_bytes, MapThenSumSet(LAMBDA k : flows[k].bytes, S))

\* receive for a key without a flow.
Open(k, c, id) ==
  LET T == [tombstones EXCEPT ![k] = None]
  IN /\ flows[k] = None
     /\ \/ /\ Buried(tombstones, k, id)
           /\ Quiet /\ UNCHANGED reorder
        \/ /\ ~Buried(tombstones, k, id) /\ Cardinality(Known(flows)) < MaxFlows
           /\ flows' = [flows EXCEPT ![k] = NewFlow(c, id)]
           /\ tombstones' = T
           /\ Outcome(k, {id})
           /\ UNCHANGED session_bytes
        \/ /\ ~Buried(tombstones, k, id) /\ Cardinality(Known(flows)) >= MaxFlows
           /\ \E old \in Oldest(flows) :
                /\ flows' = [flows EXCEPT ![old] = None, ![k] = NewFlow(c, id)]
                /\ tombstones' = InsertTombstone(T, old, Watermark(flows[old]))
                /\ session_bytes' = SessionBytesWithout({old})
           /\ Outcome(k, {id})

\* The next packet of the flow, and the chain it completes.
InSequence(k, id) ==
  LET f == flows[k]
      S == {id} \cup (IF id = MaxId THEN {} ELSE Chain(f, id + 1))
  IN /\ id = f.next_expected
     /\ Deliver(k, f, S)
     /\ session_bytes' = Minus(session_bytes, Bytes(f, S \cap Held(f)))

\* A duplicate, or beyond the window, or no room: counted and dropped.
Droppable(f, id, len) ==
  \/ id < f.next_expected \/ id \in Held(f)
  \/ id - f.next_expected > MaxFutureGap
  \/ Cardinality(Held(f)) >= MaxPackets
  \/ f.bytes + len > MaxBytesPerFlow
  \/ session_bytes + len > MaxBytesPerSession

\* skip_head_gap_if_expired gives up for good on a packet it should have delivered.
Stuck(f) == f.exhausted \/ \E i \in Held(f) : i <= f.next_expected

\* The smallest held packet has waited long enough.
HeadExpired(f) ==
  ~Stuck(f) /\ Held(f) # {} /\ f.buffer[Min(Held(f))].age >= Deadline[f.class]

\* Buffered; the head may be due at that moment.
Buffer(k, id, len) ==
  LET f == [flows[k] EXCEPT
              !.buffer = [i \in Held(flows[k]) \cup {id} |->
                            IF i = id THEN [len |-> len, age |-> 0]
                            ELSE flows[k].buffer[i]],
              !.bytes = @ + len, !.idle = 0]
      S == Chain(f, Min(Held(f)))
  IN /\ id > flows[k].next_expected /\ ~Droppable(flows[k], id, len)
     /\ \/ /\ HeadExpired(f)
           /\ Deliver(k, f, S)
           /\ session_bytes' = Minus(session_bytes + len, Bytes(f, S))
        \/ /\ ~HeadExpired(f)
           /\ flows' = [flows EXCEPT ![k] = f]
           /\ session_bytes' = session_bytes + len
           /\ Quiet /\ UNCHANGED tombstones

\* Control traffic never rides datagrams.
Receive(k, c, id, len) ==
  \/ c = "Control" /\ Quiet /\ UNCHANGED reorder
  \/ c # "Control" /\ Open(k, c, id)
  \/ /\ c # "Control" /\ flows[k] # None
     /\ \/ flows[k].exhausted /\ Refused(k)
        \/ /\ ~flows[k].exhausted /\ flows[k].class # c
           /\ Quiet /\ UNCHANGED reorder
        \/ /\ ~flows[k].exhausted /\ flows[k].class = c
           /\ \/ InSequence(k, id)
              \/ id # flows[k].next_expected /\ Droppable(flows[k], id, len) /\ Refused(k)
              \/ Buffer(k, id, len)

\* expire skips gap after gap: a held packet goes when the first packet of
\* its chain and of every chain before it has waited long enough.
Overdue(f) ==
  IF Stuck(f) THEN {}
  ELSE {i \in Held(f) : \A h \in Held(f) :
          h <= i /\ h - 1 \notin Held(f) => f.buffer[h].age >= Deadline[f.class]}

Expire ==
  LET idle == {k \in Known(flows) : flows[k].idle >= FlowIdleTTL}
      kept == Known(flows) \ idle
      out(k) == IF k \in kept THEN Overdue(flows[k]) ELSE {}
  IN /\ tombstones' \in Bury(PurgeExpired(tombstones), [k \in idle |-> Watermark(flows[k])])
     /\ flows' = [k \in Keys |->
          IF k \notin kept THEN None
          ELSE IF out(k) = {} THEN flows[k] ELSE Delivered(flows[k], out(k))]
     /\ batch' = [k \in Keys |-> out(k)]
     /\ session_bytes' =
          Minus(SessionBytesWithout(idle),
                MapThenSumSet(LAMBDA k : Bytes(flows[k], out(k)), kept))

-----------------------------------------------------------------------------
\* The engine's datagram path: deduplicate, then reorder.
Remembered(k) ==
  flows[k] # None \/ (tombstones[k] # None /\ tombstones[k].left > 0)

Delivers ==
  high' = [k \in Keys |->
    IF flows'[k] = None /\ tombstones'[k] = None THEN None
    ELSE IF batch'[k] # {} THEN Max(batch'[k]) ELSE high[k]]

Arrive(k, c, id, len) ==
  \/ ObserveDuplicate(k, id) /\ Quiet /\ UNCHANGED <<reorder, high>>
  \/ ObserveNew(k, id) /\ Receive(k, c, id, len) /\ Delivers

ExpireReorder == Expire /\ Delivers /\ UNCHANGED dedup

Aged(x, cap) == IF x < cap THEN x + 1 ELSE x
Ticking(T) ==
  [k \in Keys |-> IF T[k] = None THEN None ELSE [T[k] EXCEPT !.left = Minus(@, 1)]]

Older(f) ==
  [f EXCEPT !.idle = Aged(@, FlowIdleTTL),
            !.buffer = [i \in Held(f) |->
              [f.buffer[i] EXCEPT !.age = Aged(@, Deadline[f.class])]]]

Tick ==
  /\ flows' = [k \in Keys |-> IF flows[k] = None THEN None ELSE Older(flows[k])]
  /\ dedup_flows' = [k \in Keys |-> IF dedup_flows[k] = None THEN None
       ELSE [dedup_flows[k] EXCEPT !.idle = Aged(@, FlowIdleTTL)]]
  /\ tombstones' = Ticking(tombstones)
  /\ dedup_tombstones' = Ticking(dedup_tombstones)
  /\ Quiet /\ UNCHANGED <<session_bytes, high>>

NewReorder ==
  flows = [k \in Keys |-> None] /\ tombstones = [k \in Keys |-> None] /\ session_bytes = 0

NewDedup == dedup_flows = [k \in Keys |-> None] /\ dedup_tombstones = [k \in Keys |-> None]

Init ==
  /\ NewReorder /\ NewDedup
  /\ batch = [k \in Keys |-> {}] /\ high = [k \in Keys |-> None]

Next ==
  \/ \E k \in Keys, c \in Classes, id \in Ids, len \in Lengths : Arrive(k, c, id, len)
  \/ ExpireDedup \/ ExpireReorder \/ Tick

Spec == Init /\ [][Next]_vars

-----------------------------------------------------------------------------
\* The two byte accounts are what is held, and within their limits, after any
\* order of deliveries, skips, evictions and expiries.
Accounted ==
  /\ session_bytes = MapThenSumSet(LAMBDA k : flows[k].bytes, Known(flows))
  /\ session_bytes <= MaxBytesPerSession
  /\ \A k \in Known(flows) :
       flows[k].bytes = Bytes(flows[k], Held(flows[k])) /\ flows[k].bytes <= MaxBytesPerFlow

\* Packets held lie ahead of the one expected, in the window of their flow, and
\* nothing is left behind at the end of the identifiers.
InWindow(f) ==
  /\ Cardinality(Held(f)) <= MaxPackets
  /\ \A i \in Held(f) : f.next_expected < i /\ i - f.next_expected <= MaxFutureGap
  /\ f.exhausted => Held(f) = {}

\* No table outgrows its limit, and no delivery, skip or eviction leaves behind a
\* packet at or below the one expected, which would stop every later skip.
Windowed ==
  /\ Cardinality(Known(flows)) <= MaxFlows
  /\ Cardinality(Known(tombstones)) <= MaxTombstones
  /\ \A k \in Known(flows) : InWindow(flows[k])

\* For as long as a key is remembered, by its flow or by an unexpired
\* tombstone, every delivery is above everything delivered before: no
\* eviction, expiry, skipped gap or forgotten deduplication window delivers a
\* packet twice or out of order.
DeliversInOrder ==
  [][\A k \in Keys : \A i \in batch'[k] :
       Remembered(k) /\ high[k] # None => i > high[k]]_vars
=============================================================================
