------------------------- MODULE SessionManagerProofs -------------------------
(***************************************************************************)
(* Proofs about the session manager.  IndInv joins the types, the three    *)
(* views of a path, the capabilities, the limits of the manager and of     *)
(* every session, and what a task between reserve_attach and commit_attach *)
(* can rely on.  The first part is about the operations of a session       *)
(* (V2Session) as values; the second about the maps, again as values       *)
(* (Agree, Limits), so that an action that prunes, removes and then        *)
(* changes one session cites one lemma for each.                           *)
(***************************************************************************)
EXTENDS SessionManager, FiniteSetTheorems, SequenceTheorems, TLAPS

\* A nonempty set of naturals has a least element.
LEMMA LeastElement ==
  ASSUME NEW T \in SUBSET Nat, T # {}
  PROVE  \E i \in T : \A j \in T : i <= j
<1> DEFINE U == {1 .. i : i \in T}
           R == StrictSubsetOrdering(Nat)
<1>1. U \subseteq FiniteSubsetsOf(Nat) /\ U # {}
  <2>1. \A i \in T : 1 .. i \in SUBSET Nat /\ IsFiniteSet(1 .. i)
    BY FS_Interval
  <2> QED BY <2>1 DEF FiniteSubsetsOf
<1>2. IsWellFoundedOn(R, FiniteSubsetsOf(Nat))
  BY FS_StrictSubsetOrderingWellFounded
<1> HIDE DEF R
<1>3. PICK x \in U : \A y \in U : ~(<<y, x>> \in R)
  <2> HIDE DEF U
  <2> QED BY <1>1, <1>2, WFMin
<1>4. PICK i \in T : x = 1 .. i
  BY <1>3
<1>5. ASSUME NEW j \in T, j < i PROVE FALSE
  <2>1. i \in Nat /\ j \in Nat
    OBVIOUS
  <2>2. 1 .. j \subseteq 1 .. i /\ 1 .. j \in SUBSET Nat /\ 1 .. i \in SUBSET Nat
    BY <1>5, <2>1
  <2>3. i \in 1 .. i /\ i \notin 1 .. j
    BY <1>5, <2>1
  <2>4. <<1 .. j, 1 .. i>> \in R
    BY <2>2, <2>3 DEF R, StrictSubsetOrdering
  <2>5. 1 .. j \in U
    OBVIOUS
  <2> QED BY <1>3, <1>4, <2>4, <2>5
<1>6. \A j \in T : i <= j
  BY <1>5
<1> QED BY <1>6

-----------------------------------------------------------------------------
\* Sizes of the maps of a session

LEMMA PathIdsFinite ==
  /\ IsFiniteSet(PathIds)
  /\ PathIds \subseteq Nat /\ 1 \in PathIds
  /\ \A S \in SUBSET PathIds : IsFiniteSet(S) /\ Cardinality(S) \in Nat
<1>1. IsFiniteSet(PathIds) /\ PathIds \subseteq Nat /\ 1 \in PathIds
  BY PathBounds, FS_Interval DEF PathIds
<1> QED BY <1>1, FS_Subset, FS_CardinalityType

\* Fewer identifiers present, no larger a map.
LEMMA PresentMono ==
  ASSUME NEW f, NEW g, Present(g) \subseteq Present(f)
  PROVE  /\ Cardinality(Present(f)) \in Nat /\ Cardinality(Present(g)) \in Nat
         /\ Cardinality(Present(g)) <= Cardinality(Present(f))
<1>1. Present(f) \in SUBSET PathIds /\ Present(g) \in SUBSET PathIds
  BY DEF Present
<1> HIDE DEF Present
<1> QED BY <1>1, PathIdsFinite, FS_Subset

\* One identifier more, at most one entry more.
LEMMA PresentAdd ==
  ASSUME NEW f, NEW g, NEW p \in PathIds, Present(g) \subseteq Present(f) \cup {p}
  PROVE  /\ Cardinality(Present(f)) \in Nat /\ Cardinality(Present(g)) \in Nat
         /\ Cardinality(Present(g)) <= Cardinality(Present(f)) + 1
<1>1. Present(f) \in SUBSET PathIds /\ Present(g) \in SUBSET PathIds
  BY DEF Present
<1>2. Cardinality(Present(f) \cup {p}) <= Cardinality(Present(f)) + 1
  BY <1>1, PathIdsFinite, FS_AddElement
<1>3. Present(f) \cup {p} \in SUBSET PathIds
  BY <1>1
<1>4. Cardinality(Present(g)) <= Cardinality(Present(f) \cup {p})
  BY <1>3, PathIdsFinite, FS_Subset
<1> QED BY <1>1, <1>2, <1>3, <1>4, PathIdsFinite

\* One identifier gone and one come in, no entry more.
LEMMA PresentSwap ==
  ASSUME NEW f, NEW g, NEW p \in PathIds, NEW q \in Present(f),
         Present(g) \subseteq (Present(f) \ {q}) \cup {p}
  PROVE  Cardinality(Present(g)) <= Cardinality(Present(f))
<1>1. Present(f) \in SUBSET PathIds /\ Present(g) \in SUBSET PathIds
  BY DEF Present
<1> DEFINE rest == Present(f) \ {q}
<1>2. /\ rest \in SUBSET PathIds
      /\ Cardinality(rest) = Cardinality(Present(f)) - 1
  BY <1>1, PathIdsFinite, FS_RemoveElement
<1> HIDE DEF rest
<1>3. rest \in SUBSET PathIds /\ rest \cup {p} \in SUBSET PathIds
  BY <1>2
<1>4. Cardinality(rest) \in Nat /\ IsFiniteSet(rest)
  BY <1>3, PathIdsFinite
<1>5. Cardinality(rest \cup {p})
        = IF p \in rest THEN Cardinality(rest) ELSE Cardinality(rest) + 1
  BY <1>4, FS_AddElement, Zenon
<1>6. Cardinality(Present(g)) <= Cardinality(rest \cup {p})
  BY <1>3, PathIdsFinite, FS_Subset DEF rest
<1> QED BY <1>1, <1>2, <1>3, <1>4, <1>5, <1>6, PathIdsFinite

-----------------------------------------------------------------------------
\* What is true of every session in the map, as a predicate of its value

\* The queue of the quarantine lists its identifiers, each once.
Queued(x) ==
  /\ \A i, j \in 1 .. Len(x.order) : x.order[i] = x.order[j] => i = j
  /\ {x.order[i] : i \in 1 .. Len(x.order)} = Present(x.tombs)
  /\ Present(x.tombs) \cap Present(x.paths) = {}

\* Every path has its epochs in the history.
Remembered(x) ==
  \A p \in Present(x.paths) : /\ x.history[p] # None
                              /\ x.history[p].pe = x.paths[p].pe
                              /\ x.history[p].ke = x.paths[p].ke

Small(x) ==
  /\ Cardinality(Present(x.paths)) <= MaxPaths
  /\ Cardinality(Present(x.history)) <= MaxHistory
  /\ Cardinality(Present(x.tombs)) <= MaxTombstones

Sound(x) == x \in Session /\ Queued(x) /\ Remembered(x) /\ Small(x)

\* A session starts with nothing.
LEMMA NewSessionSound ==
  ASSUME NEW dev \in Devices, NEW exp \in Nat, NEW t \in Nat
  PROVE  Sound(NewSession(dev, exp, t)) /\ Present(NewSession(dev, exp, t).paths) = {}
<1> DEFINE x == NewSession(dev, exp, t)
<1>1. /\ Present(x.paths) = {} /\ Present(x.history) = {} /\ Present(x.tombs) = {}
      /\ x.order = <<>>
  BY DEF NewSession, NoPaths, Present
<1>2. x \in Session
  BY PathIdsFinite DEF NewSession, NoPaths, Session
<1> HIDE DEF x
<1>3. Len(x.order) = 0
  BY <1>1
<1>4. Queued(x) /\ Remembered(x)
  BY <1>1, <1>3 DEF Queued, Remembered
<1>5. Small(x)
  BY <1>1, FS_EmptySet, PathBounds DEF Small
<1> QED BY <1>1, <1>2, <1>4, <1>5 DEF Sound, x

\* The paths of x may go, or change their reserved flag; nothing else changes.
LEMMA FewerPathsSound ==
  ASSUME NEW x, Sound(x), NEW paths \in [PathIds -> Path \cup {None}],
         \A p \in PathIds : paths[p] # None =>
            /\ x.paths[p] # None
            /\ paths[p].pe = x.paths[p].pe /\ paths[p].ke = x.paths[p].ke
  PROVE  Sound([x EXCEPT !.paths = paths])
<1> DEFINE y == [x EXCEPT !.paths = paths]
<1>1. /\ y \in Session /\ y.paths = paths /\ y.history = x.history
      /\ y.tombs = x.tombs /\ y.order = x.order
  BY DEF Sound, Session
<1> HIDE DEF y
<1>2. Present(y.paths) \subseteq Present(x.paths)
  BY <1>1 DEF Present
<1>3. Queued(y)
  BY <1>1, <1>2 DEF Sound, Queued
<1>4. Remembered(y)
  BY <1>1, <1>2 DEF Sound, Remembered, Present
<1>5. Small(y)
  <2>1. Cardinality(Present(y.paths)) <= Cardinality(Present(x.paths))
    BY <1>2, PresentMono
  <2> QED BY <1>1, <2>1, <1>2, PresentMono, PathBounds DEF Sound, Small
<1> QED BY <1>1, <1>3, <1>4, <1>5 DEF Sound, y

\* prune_path_tombstones: a prefix of the queue and its identifiers go, the
\* rest stays listed.
LEMMA PruneSound ==
  ASSUME NEW x, Sound(x), NEW t \in Nat
  PROVE  /\ Sound(PrunePathTombstones(x, t))
         /\ PrunePathTombstones(x, t).paths = x.paths
         /\ PrunePathTombstones(x, t).history = x.history
         /\ \A p \in PathIds : PrunePathTombstones(x, t).tombs[p] # None =>
                                 x.tombs[p] # None
<1> DEFINE n == Len(x.order)
           first == FirstKept(x, t)
           popped == {x.order[i] : i \in 1 .. first - 1}
           queue == SubSeq(x.order, first, n)
           tombs == [p \in PathIds |-> IF p \in popped THEN None ELSE x.tombs[p]]
           y == PrunePathTombstones(x, t)
<1>1. /\ x \in Session /\ x.order \in Seq(PathIds) /\ n \in Nat
      /\ x.tombs \in [PathIds -> Nat \cup {None}]
  BY DEF Sound, Session
<1>2. first \in 1 .. n + 1
  <2> DEFINE kept == {i \in 1 .. n : x.tombs[x.order[i]] # None /\ x.tombs[x.order[i]] > t}
  <2>1. CASE kept = {}
    BY <1>1, <2>1 DEF FirstKept
  <2>2. CASE kept # {}
    <3>1. kept \in SUBSET Nat /\ kept \subseteq 1 .. n
      OBVIOUS
    <3> HIDE DEF kept
    <3>2. \E i \in kept : \A j \in kept : i <= j
      BY <2>2, <3>1, LeastElement
    <3>3. first = CHOOSE i \in kept : \A j \in kept : i <= j
      BY <2>2 DEF FirstKept, kept
    <3>4. first \in kept
      BY <3>2, <3>3
    <3> HIDE DEF first, n
    <3>5. first \in 1 .. n
      BY <3>1, <3>4
    <3> QED BY <1>1, <3>5
  <2> QED BY <2>1, <2>2
<1> HIDE DEF first
<1>3. y = [x EXCEPT !.tombs = tombs, !.order = queue]
  BY DEF PrunePathTombstones, first
<1>4. /\ queue \in Seq(PathIds) /\ Len(queue) = n - first + 1
      /\ \A i \in 1 .. Len(queue) : queue[i] = x.order[first + i - 1]
  <2>1. \A i \in 1 .. n : x.order[i] \in PathIds
    BY <1>1
  <2>2. first \in 1 .. n + 1 /\ n \in 0 .. n
    BY <1>1, <1>2
  <2>3. \A i \in first .. n : x.order[i] \in PathIds
    BY <1>2, <2>1
  <2>4. /\ queue \in Seq(PathIds)
        /\ Len(queue) = IF first <= n THEN n - first + 1 ELSE 0
        /\ \A i \in 1 .. n - first + 1 : queue[i] = x.order[first + i - 1]
    BY <1>1, <1>2, <2>3, SubSeqProperties
  <2> QED BY <1>1, <1>2, <2>4
<1>5. tombs \in [PathIds -> Nat \cup {None}]
  BY <1>1
<1>6. /\ y \in Session /\ y.paths = x.paths /\ y.history = x.history
      /\ y.tombs = tombs /\ y.order = queue
  BY <1>1, <1>3, <1>4, <1>5 DEF Session
<1>7. Queued(y)
  <2> HIDE DEF queue
  <2>1. ASSUME NEW i \in 1 .. Len(queue), NEW j \in 1 .. Len(queue), queue[i] = queue[j]
        PROVE  i = j
    <3>3. first + i - 1 \in 1 .. n /\ first + j - 1 \in 1 .. n
      <4> HIDE DEF n
      <4> QED BY <1>1, <1>2, <1>4
    <3>1. x.order[first + i - 1] = x.order[first + j - 1]
      BY <1>4, <2>1
    <3>2. first + i - 1 = first + j - 1
      BY <3>1, <3>3 DEF Sound, Queued
    <3> QED BY <1>2, <3>2
  <2>2. ASSUME NEW i \in 1 .. Len(queue)
        PROVE  queue[i] \in Present(tombs)
    <3>1. first + i - 1 \in first .. n /\ queue[i] = x.order[first + i - 1]
      BY <1>1, <1>2, <1>4
    <3>2. first + i - 1 \in 1 .. n /\ queue[i] \in Present(x.tombs)
      BY <1>2, <3>1 DEF Sound, Queued
    <3>3. queue[i] \notin popped
      <4> SUFFICES ASSUME NEW k \in 1 .. first - 1, x.order[k] = x.order[first + i - 1]
                   PROVE  FALSE
        BY <3>1
      <4>1. k \in 1 .. n /\ k < first + i - 1
        BY <1>1, <1>2, <3>1
      <4> QED BY <3>2, <4>1 DEF Sound, Queued
    <3> QED BY <3>2, <3>3 DEF Present
  <2>3. ASSUME NEW p \in Present(tombs)
        PROVE  \E i \in 1 .. Len(queue) : queue[i] = p
    <3>1. p \in Present(x.tombs) /\ p \notin popped
      BY DEF Present
    <3>2. PICK k \in 1 .. n : x.order[k] = p
      BY <3>1 DEF Sound, Queued
    <3>3. k \notin 1 .. first - 1
      BY <3>1, <3>2
    <3>4. k - first + 1 \in 1 .. Len(queue) /\ first + (k - first + 1) - 1 = k
      BY <1>1, <1>2, <1>4, <3>3
    <3> QED BY <1>4, <3>2, <3>4
  <2>4. Present(tombs) \subseteq Present(x.tombs)
    BY DEF Present
  <2>5. {queue[i] : i \in 1 .. Len(queue)} = Present(tombs)
    BY <2>2, <2>3
  <2> QED BY <1>6, <2>1, <2>4, <2>5 DEF Sound, Queued
<1>8. Present(y.tombs) \subseteq Present(x.tombs)
  BY <1>6 DEF Present
<1>9. Small(y)
  <2>1. Cardinality(Present(y.tombs)) <= Cardinality(Present(x.tombs))
    BY <1>8, PresentMono
  <2> QED BY <1>6, <2>1, <1>8, PresentMono, PathBounds DEF Sound, Small
<1>10. Remembered(y)
  BY <1>6 DEF Sound, Remembered
<1>11. \A p \in PathIds : y.tombs[p] # None => x.tombs[p] # None
  BY <1>6
<1> QED BY <1>6, <1>7, <1>9, <1>10, <1>11 DEF Sound

\* A reserved identifier was neither a path nor quarantined, and fits.
LEMMA ReserveSound ==
  ASSUME NEW x, Sound(x), NEW c \in Conns, NEW t \in Nat,
         NEW pe \in Epochs, NEW ke \in Epochs, NEW p,
         MayReserve(x, c, t), p \in Allocatable(x, pe, ke)
  PROVE  Sound(ReservePath(x, c, p, pe, ke))
<1> DEFINE y == ReservePath(x, c, p, pe, ke)
           entry == [conn |-> c, pe |-> pe, ke |-> ke, reserved |-> TRUE]
           epochs == [pe |-> pe, ke |-> ke]
<1>1. /\ p \in PathIds /\ x.paths[p] = None /\ x.tombs[p] = None
      /\ x.history[p] = None => Cardinality(Present(x.history)) < MaxHistory
  BY DEF Allocatable
<1>0. entry \in Path /\ epochs \in PathEpochs
  BY DEF Path, PathEpochs
<1>2. entry \in Path /\ epochs \in PathEpochs /\ entry # None /\ epochs # None
  BY <1>0, SessionNone
<1>3. /\ y \in Session /\ y.tombs = x.tombs /\ y.order = x.order
      /\ y.paths = [x.paths EXCEPT ![p] = entry]
      /\ y.history = [x.history EXCEPT ![p] = epochs]
  <2>1. (IF p = LastPathId THEN 1 ELSE p + 1) \in PathIds
    BY <1>1, PathBounds DEF PathIds
  <2> QED BY <1>1, <1>2, <2>1 DEF Sound, Session, ReservePath
<1>4. /\ Present(y.paths) = Present(x.paths) \cup {p}
      /\ Present(y.history) = Present(x.history) \cup {p}
  BY <1>1, <1>2, <1>3 DEF Sound, Session, Present
<1>5. Queued(y)
  <2>1. p \notin Present(x.tombs)
    BY <1>1 DEF Present
  <2>2. Present(y.tombs) \cap Present(y.paths) = {}
    BY <1>3, <1>4, <2>1 DEF Sound, Queued
  <2>3. y.tombs = x.tombs /\ y.order = x.order /\ Queued(x)
    BY <1>3 DEF Sound
  <2> HIDE DEF y
  <2> QED BY <2>2, <2>3 DEF Queued
<1>6. Remembered(y)
  <2> SUFFICES ASSUME NEW q \in Present(y.paths)
               PROVE  /\ y.history[q] # None
                      /\ y.history[q].pe = y.paths[q].pe
                      /\ y.history[q].ke = y.paths[q].ke
    BY DEF Remembered
  <2>1. q \in PathIds
    BY DEF Present
  <2>2. CASE q = p
    BY <1>1, <1>2, <1>3, <2>2 DEF Sound, Session
  <2>3. CASE q # p
    <3>1. q \in Present(x.paths) /\ y.paths[q] = x.paths[q] /\ y.history[q] = x.history[q]
      BY <1>3, <1>4, <2>1, <2>3 DEF Sound, Session
    <3> QED BY <3>1 DEF Sound, Remembered
  <2> QED BY <2>2, <2>3
<1>7. Small(y)
  <2>1. Cardinality(Present(y.paths)) <= MaxPaths
    <3>1. Cardinality(Present(x.paths)) < MaxPaths
      BY DEF MayReserve
    <3>2. /\ Cardinality(Present(x.paths)) \in Nat /\ Cardinality(Present(y.paths)) \in Nat
          /\ Cardinality(Present(y.paths)) <= Cardinality(Present(x.paths)) + 1
      BY <1>1, <1>4, PresentAdd
    <3> QED BY <3>1, <3>2, PathBounds
  <2>2. Cardinality(Present(y.history)) <= MaxHistory
    <3>1. CASE x.history[p] # None
      <4>1. Present(y.history) = Present(x.history)
        BY <1>1, <1>4, <3>1 DEF Present
      <4> QED BY <4>1 DEF Sound, Small
    <3>2. CASE x.history[p] = None
      <4>1. /\ Cardinality(Present(x.history)) \in Nat
            /\ Cardinality(Present(y.history)) \in Nat
            /\ Cardinality(Present(y.history)) <= Cardinality(Present(x.history)) + 1
        BY <1>1, <1>4, PresentAdd
      <4> QED BY <1>1, <3>2, <4>1, PathBounds
    <3> QED BY <3>1, <3>2
  <2> QED BY <1>3, <2>1, <2>2 DEF Sound, Small
<1> QED BY <1>3, <1>5, <1>6, <1>7 DEF Sound

\* A commit clears the reserved flag of one path.
LEMMA CommitSound ==
  ASSUME NEW x, Sound(x), NEW p \in PathIds, x.paths[p] # None
  PROVE  /\ Sound(CommitPath(x, p))
         /\ CommitPath(x, p).paths = [x.paths EXCEPT ![p].reserved = FALSE]
         /\ CommitPath(x, p).history = x.history
<1> DEFINE paths == [x.paths EXCEPT ![p].reserved = FALSE]
<1>1. x.paths \in [PathIds -> Path \cup {None}] /\ x \in Session
  BY DEF Sound, Session
<1>2. x.paths[p] \in Path
  BY <1>1
<1>3. [x.paths[p] EXCEPT !.reserved = FALSE] \in Path
      /\ [x.paths[p] EXCEPT !.reserved = FALSE].pe = x.paths[p].pe
      /\ [x.paths[p] EXCEPT !.reserved = FALSE].ke = x.paths[p].ke
  BY <1>2 DEF Path
<1>4. /\ paths \in [PathIds -> Path \cup {None}]
      /\ \A q \in PathIds : paths[q] # None =>
           /\ x.paths[q] # None
           /\ paths[q].pe = x.paths[q].pe /\ paths[q].ke = x.paths[q].ke
  BY <1>1, <1>3
<1>5. CommitPath(x, p) = [x EXCEPT !.paths = paths]
  BY DEF CommitPath
<1> HIDE DEF paths
<1>6. Sound([x EXCEPT !.paths = paths])
  BY <1>4, FewerPathsSound
<1>7. [x EXCEPT !.paths = paths].paths = paths /\ [x EXCEPT !.paths = paths].history = x.history
  BY <1>1 DEF Session
<1> QED BY <1>5, <1>6, <1>7 DEF paths

\* insert_tombstone for a path that goes: a full quarantine loses the front of
\* its queue, which is one of its identifiers.
LEMMA DetachSound ==
  ASSUME NEW x, Sound(x), NEW p \in PathIds, NEW c, NEW pe, NEW t \in Nat
  PROVE  /\ Sound(Detach(x, p, c, pe, t))
         /\ Detach(x, p, c, pe, t).history = x.history
         /\ Detach(x, p, c, pe, t).paths =
              IF /\ x.paths[p] # None /\ ~x.paths[p].reserved
                 /\ x.paths[p].conn = c /\ x.paths[p].pe = pe
              THEN [x.paths EXCEPT ![p] = None] ELSE x.paths
<1> DEFINE goes == /\ x.paths[p] # None /\ ~x.paths[p].reserved
                   /\ x.paths[p].conn = c /\ x.paths[p].pe = pe
           y == Detach(x, p, c, pe, t)
           full == Cardinality(Present(x.tombs)) >= MaxTombstones /\ x.order # <<>>
           kept == IF full THEN [x.tombs EXCEPT ![Head(x.order)] = None] ELSE x.tombs
           queue == IF full THEN Tail(x.order) ELSE x.order
           tombs == [kept EXCEPT ![p] = t + TombstoneTTL]
           order == Append(queue, p)
           paths == [x.paths EXCEPT ![p] = None]
<1>1. /\ x \in Session /\ x.order \in Seq(PathIds)
      /\ x.tombs \in [PathIds -> Nat \cup {None}]
      /\ x.paths \in [PathIds -> Path \cup {None}]
  BY DEF Sound, Session
<1>2. CASE ~goes
  BY <1>2 DEF Detach
<1>3. CASE goes
  <2>1. /\ y = [x EXCEPT !.tombs = tombs, !.order = order, !.paths = paths]
    BY <1>1, <1>3 DEF Detach, InsertTombstone, Session
  <2>2. p \in Present(x.paths) /\ p \notin Present(x.tombs)
    BY <1>3 DEF Sound, Queued, Present
  <2>3. /\ queue \in Seq(PathIds) /\ kept \in [PathIds -> Nat \cup {None}]
        /\ \A i, j \in 1 .. Len(queue) : queue[i] = queue[j] => i = j
        /\ \A i \in 1 .. Len(queue) : queue[i] \in Present(kept)
        /\ \A q \in Present(kept) : \E i \in 1 .. Len(queue) : queue[i] = q
        /\ Present(kept) \subseteq Present(x.tombs)
        /\ Cardinality(Present(tombs)) <= MaxTombstones
    <3>1. CASE full
      <4> DEFINE h == Head(x.order)
      <4>1. /\ x.order # <<>> /\ Len(x.order) \in Nat /\ Len(x.order) >= 1
            /\ h = x.order[1] /\ 1 \in 1 .. Len(x.order)
            /\ queue = Tail(x.order) /\ queue \in Seq(PathIds)
            /\ Len(queue) = Len(x.order) - 1
            /\ \A i \in 1 .. Len(queue) : queue[i] = x.order[i + 1]
        BY <1>1, <3>1, HeadTailProperties
      <4>2. h \in Present(x.tombs) /\ h \in PathIds
        BY <4>1 DEF Sound, Queued, Present
      <4>3. kept = [x.tombs EXCEPT ![h] = None]
        BY <3>1
      <4>4. kept \in [PathIds -> Nat \cup {None}] /\ Present(kept) = Present(x.tombs) \ {h}
        BY <1>1, <4>2, <4>3 DEF Present
      <4> HIDE DEF h, queue, kept
      <4>5. \A i, j \in 1 .. Len(queue) : queue[i] = queue[j] => i = j
        <5> SUFFICES ASSUME NEW i \in 1 .. Len(queue), NEW j \in 1 .. Len(queue),
                            queue[i] = queue[j]
                     PROVE  i = j
          OBVIOUS
        <5>1. i + 1 \in 1 .. Len(x.order) /\ j + 1 \in 1 .. Len(x.order)
          BY <4>1
        <5>2. i + 1 = j + 1
          BY <4>1, <5>1 DEF Sound, Queued
        <5> QED BY <5>2
      <4>6. ASSUME NEW i \in 1 .. Len(queue) PROVE queue[i] \in Present(kept)
        <5>1. i + 1 \in 1 .. Len(x.order) /\ i + 1 # 1 /\ queue[i] = x.order[i + 1]
          BY <4>1
        <5>2. queue[i] \in Present(x.tombs) /\ queue[i] # h
          BY <4>1, <5>1 DEF Sound, Queued
        <5> QED BY <4>4, <5>2
      <4>7. ASSUME NEW q \in Present(kept) PROVE \E i \in 1 .. Len(queue) : queue[i] = q
        <5>1. q \in Present(x.tombs) /\ q # h
          BY <4>4
        <5>2. PICK k \in 1 .. Len(x.order) : x.order[k] = q
          BY <5>1 DEF Sound, Queued
        <5>3. k # 1 /\ k \in Nat
          BY <4>1, <5>1, <5>2
        <5>4. k - 1 \in 1 .. Len(queue) /\ (k - 1) + 1 = k
          BY <4>1, <5>3
        <5> QED BY <4>1, <5>2, <5>4
      <4>8. Cardinality(Present(tombs)) <= MaxTombstones
        <5>1. Present(tombs) \subseteq (Present(x.tombs) \ {h}) \cup {p}
          BY <4>4 DEF Present
        <5>2. Cardinality(Present(tombs)) <= Cardinality(Present(x.tombs))
          BY <4>2, <5>1, PresentSwap
        <5>3. Cardinality(Present(x.tombs)) \in Nat /\ Cardinality(Present(tombs)) \in Nat
          BY PresentMono
        <5> QED BY <5>2, <5>3, PathBounds DEF Sound, Small
      <4> QED BY <4>1, <4>4, <4>5, <4>6, <4>7, <4>8
    <3>2. CASE ~full
      <4>1. queue = x.order /\ kept = x.tombs
        BY <3>2
      <4>2. Cardinality(Present(x.tombs)) < MaxTombstones
        <5>1. Cardinality(Present(x.tombs)) \in Nat
          BY PresentMono
        <5>2. CASE x.order = <<>>
          <6>1. Present(x.tombs) = {}
            BY <5>2 DEF Sound, Queued
          <6> QED BY <6>1, FS_EmptySet, PathBounds
        <5> QED BY <3>2, <5>1, <5>2, PathBounds
      <4> HIDE DEF queue, kept
      <4>3. Present(tombs) \subseteq Present(x.tombs) \cup {p}
        BY <1>1, <4>1 DEF Present
      <4>4. Cardinality(Present(tombs)) <= MaxTombstones
        <5>1. /\ Cardinality(Present(x.tombs)) \in Nat /\ Cardinality(Present(tombs)) \in Nat
              /\ Cardinality(Present(tombs)) <= Cardinality(Present(x.tombs)) + 1
          BY <4>3, PresentAdd
        <5> QED BY <4>2, <5>1, PathBounds
      <4> QED BY <1>1, <4>1, <4>4 DEF Sound, Queued
    <3> QED BY <3>1, <3>2
  <2> HIDE DEF full, kept, queue
  <2>4. /\ order \in Seq(PathIds) /\ Len(order) = Len(queue) + 1 /\ Len(queue) \in Nat
        /\ \A i \in 1 .. Len(queue) : order[i] = queue[i]
        /\ order[Len(queue) + 1] = p
    BY <2>3, AppendProperties
  <2>5. /\ tombs \in [PathIds -> Nat \cup {None}]
        /\ Present(tombs) = Present(kept) \cup {p}
    <3>1. t + TombstoneTTL \in Nat /\ t + TombstoneTTL # None
      BY PathBounds, SessionNone
    <3> QED BY <2>3, <3>1 DEF Present
  <2>6. paths \in [PathIds -> Path \cup {None}] /\ Present(paths) = Present(x.paths) \ {p}
    BY <1>1 DEF Present
  <2>7. /\ y \in Session /\ y.tombs = tombs /\ y.order = order
        /\ y.paths = paths /\ y.history = x.history
    BY <1>1, <2>1, <2>4, <2>5, <2>6 DEF Session
  <2> HIDE DEF order, tombs, paths, y
  <2>8. \A i, j \in 1 .. Len(order) : order[i] = order[j] => i = j
    <3> SUFFICES ASSUME NEW i \in 1 .. Len(order), NEW j \in 1 .. Len(order),
                        order[i] = order[j]
                 PROVE  i = j
      OBVIOUS
    <3>1. \A k \in 1 .. Len(queue) : order[k] # p
      BY <2>2, <2>3, <2>4
    <3>2. /\ i \in 1 .. Len(queue) \/ i = Len(queue) + 1
          /\ j \in 1 .. Len(queue) \/ j = Len(queue) + 1
      BY <2>4
    <3> QED BY <2>3, <2>4, <3>1, <3>2
  <2>9. {order[i] : i \in 1 .. Len(order)} = Present(tombs)
    <3>1. ASSUME NEW i \in 1 .. Len(order) PROVE order[i] \in Present(tombs)
      <4>1. i \in 1 .. Len(queue) \/ i = Len(queue) + 1
        BY <2>4
      <4> QED BY <2>3, <2>4, <2>5, <4>1
    <3>2. ASSUME NEW q \in Present(tombs) PROVE \E i \in 1 .. Len(order) : order[i] = q
      <4>1. CASE q = p
        <5>1. Len(queue) + 1 \in 1 .. Len(order)
          BY <2>4
        <5> QED BY <2>4, <4>1, <5>1
      <4>2. CASE q # p
        <5>1. PICK i \in 1 .. Len(queue) : queue[i] = q
          BY <2>3, <2>5, <4>2
        <5>2. i \in 1 .. Len(order)
          BY <2>4
        <5> QED BY <2>4, <5>1, <5>2
      <4> QED BY <4>1, <4>2
    <3> QED BY <3>1, <3>2
  <2>10. Present(tombs) \cap Present(paths) = {}
    BY <2>3, <2>5, <2>6 DEF Sound, Queued
  <2>11. Queued(y)
    BY <2>7, <2>8, <2>9, <2>10 DEF Queued
  <2>12. Remembered(y)
    <3>1. \A q \in Present(paths) : q \in Present(x.paths) /\ paths[q] = x.paths[q]
      BY <1>1, <2>6 DEF paths
    <3> QED BY <2>7, <3>1 DEF Sound, Remembered
  <2>13. Small(y)
    <3>1. /\ Cardinality(Present(x.paths)) \in Nat /\ Cardinality(Present(paths)) \in Nat
          /\ Cardinality(Present(paths)) <= Cardinality(Present(x.paths))
      BY <2>6, PresentMono
    <3> QED BY <2>3, <2>7, <3>1, PathBounds DEF Sound, Small
  <2> QED BY <1>3, <2>7, <2>11, <2>12, <2>13 DEF Sound, y, paths
<1> QED BY <1>2, <1>3

\* A session that is renewed or drained keeps everything else.
LEMMA StampSound ==
  ASSUME NEW x, Sound(x), NEW t \in Nat
  PROVE  /\ Sound([x EXCEPT !.last = t]) /\ Sound([x EXCEPT !.state = "Draining"])
         /\ [x EXCEPT !.last = t].paths = x.paths
         /\ [x EXCEPT !.last = t].history = x.history
         /\ [x EXCEPT !.state = "Draining"].paths = x.paths
         /\ [x EXCEPT !.state = "Draining"].history = x.history
BY DEF Sound, Session, Queued, Remembered, Small

-----------------------------------------------------------------------------
\* The maps of the manager, as values

Entry(c, b, reserved) ==
  [conn |-> c, pe |-> b.pe, ke |-> b.ke, reserved |-> reserved]

\* A binding of connection c is a committed path of the session that c is
\* authenticated for.
ConnOK(sess, conn, pend, auth, c) ==
  conn[c] # None =>
    /\ pend[c] = None
    /\ auth[c] = conn[c].session
    /\ sess[conn[c].session] # None
    /\ sess[conn[c].session].paths[conn[c].path] = Entry(c, conn[c], FALSE)

\* A pending attach of connection c is a reserved path of that session.
PendOK(sess, pend, auth, c) ==
  pend[c] # None =>
    /\ auth[c] = pend[c].session
    /\ sess[pend[c].session] # None
    /\ sess[pend[c].session].paths[pend[c].path] = Entry(c, pend[c], TRUE)

\* A path of a session is in one of the two maps, under its connection.
PathOK(sess, conn, pend, s, p) ==
  sess[s] # None /\ sess[s].paths[p] # None =>
    LET x == sess[s].paths[p]
    IN IF x.reserved
       THEN /\ pend[x.conn] # None
            /\ pend[x.conn].session = s /\ pend[x.conn].path = p
            /\ x = Entry(x.conn, pend[x.conn], TRUE)
       ELSE /\ conn[x.conn] # None
            /\ conn[x.conn].session = s /\ conn[x.conn].path = p
            /\ x = Entry(x.conn, conn[x.conn], FALSE)

Typed(sess, conn, pend, auth) ==
  /\ sess \in [Sessions -> Session \cup {None}]
  /\ conn \in [Conns -> Binding \cup {None}]
  /\ pend \in [Conns -> PendingAttach \cup {None}]
  /\ auth \in [Conns -> Sessions \cup {None}]

Agree(sess, conn, pend, auth) ==
  /\ Typed(sess, conn, pend, auth)
  /\ \A s \in Sessions : sess[s] # None => Sound(sess[s])
  /\ \A c \in Conns : auth[c] # None => sess[auth[c]] # None
  /\ \A c \in Conns : ConnOK(sess, conn, pend, auth, c) /\ PendOK(sess, pend, auth, c)
  /\ \A s \in Sessions, p \in PathIds : PathOK(sess, conn, pend, s, p)

\* A path entry exists and names its connection.
LEMMA PathEntry ==
  ASSUME NEW c \in Conns, NEW b, NEW reserved \in BOOLEAN,
         b.pe \in Epochs, b.ke \in Epochs
  PROVE  Entry(c, b, reserved) # None
BY SessionNone DEF Entry, Path

\* No session that lives on gets a path or another history.
Calm(old, new) ==
  \A s \in Sessions : old[s] # None /\ new[s] # None =>
    /\ new[s].history = old[s].history
    /\ \A p \in PathIds : new[s].paths[p] # None => old[s].paths[p] # None

\* remove_session takes the session and every entry that names it.
LEMMA RemoveAgree ==
  ASSUME NEW S \in SUBSET Sessions, NEW kept, NEW pending,
         Agree(kept, connections, pending, authenticated_connections),
         Remove(S, kept, pending)
  PROVE  /\ Agree(sessions', connections', pending_connections',
                  authenticated_connections')
         /\ \A s \in Sessions : sessions'[s] = IF s \in S THEN None ELSE kept[s]
         /\ \A c \in Conns :
              /\ authenticated_connections'[c] # None =>
                   authenticated_connections'[c] = authenticated_connections[c]
              /\ pending_connections'[c] # None => pending_connections'[c] = pending[c]
         /\ Calm(kept, sessions')
<1> DEFINE auth == authenticated_connections
<1>1. /\ kept \in [Sessions -> Session \cup {None}]
      /\ connections \in [Conns -> Binding \cup {None}]
      /\ pending \in [Conns -> PendingAttach \cup {None}]
      /\ auth \in [Conns -> Sessions \cup {None}]
  BY DEF Agree, Typed
<1>2. \A s \in Sessions : sessions'[s] = IF s \in S THEN None ELSE kept[s]
  BY DEF Remove
<1>3. \A c \in Conns :
        /\ connections'[c] = IF connections[c] # None /\ connections[c].session \in S
                             THEN None ELSE connections[c]
        /\ pending_connections'[c] = IF pending[c] # None /\ pending[c].session \in S
                                     THEN None ELSE pending[c]
        /\ auth'[c] = IF auth[c] \in S THEN None ELSE auth[c]
  BY DEF Remove
<1>4. Typed(sessions', connections', pending_connections', auth')
  BY <1>1 DEF Remove, Typed
<1>5. \A s \in Sessions : sessions'[s] # None => Sound(sessions'[s])
  BY <1>2 DEF Agree
<1>6. \A c \in Conns : auth'[c] # None => sessions'[auth'[c]] # None
  BY <1>1, <1>2, <1>3 DEF Agree
<1>7. ASSUME NEW c \in Conns
      PROVE  /\ ConnOK(sessions', connections', pending_connections', auth', c)
             /\ PendOK(sessions', pending_connections', auth', c)
  <2>1. connections[c] # None => connections[c].session \in Sessions
    BY <1>1 DEF Binding
  <2>2. pending[c] # None => pending[c].session \in Sessions
    BY <1>1 DEF PendingAttach
  <2>3. ConnOK(kept, connections, pending, auth, c) /\ PendOK(kept, pending, auth, c)
    BY DEF Agree
  <2>4. ConnOK(sessions', connections', pending_connections', auth', c)
    BY <1>2, <1>3, <2>1, <2>3 DEF ConnOK
  <2>5. PendOK(sessions', pending_connections', auth', c)
    BY <1>2, <1>3, <2>2, <2>3 DEF PendOK
  <2> QED BY <2>4, <2>5
<1>8. ASSUME NEW s \in Sessions, NEW p \in PathIds
      PROVE  PathOK(sessions', connections', pending_connections', s, p)
  <2>1. CASE sessions'[s] = None \/ sessions'[s].paths[p] = None
    BY <2>1 DEF PathOK
  <2>2. CASE sessions'[s] # None /\ sessions'[s].paths[p] # None
    <3>1. s \notin S /\ sessions'[s] = kept[s]
      BY <1>2, <2>2
    <3>2. kept[s].paths[p].conn \in Conns
      BY <1>1, <2>2, <3>1 DEF Session, Path
    <3> DEFINE x == kept[s].paths[p]
    <3>3. PathOK(kept, connections, pending, s, p) /\ kept[s] # None /\ x # None
      BY <2>2, <3>1 DEF Agree
    <3>4. CASE x.reserved
      <4>1. /\ pending[x.conn] # None /\ pending[x.conn].session = s
            /\ pending[x.conn].path = p /\ x = Entry(x.conn, pending[x.conn], TRUE)
        BY <3>3, <3>4 DEF PathOK
      <4>2. pending_connections'[x.conn] = pending[x.conn]
        BY <1>3, <3>1, <3>2, <4>1
      <4>3. sessions'[s].paths[p] = x
        BY <3>1
      <4> HIDE DEF x
      <4> QED BY <3>4, <4>1, <4>2, <4>3 DEF PathOK
    <3>5. CASE ~x.reserved
      <4>1. /\ connections[x.conn] # None /\ connections[x.conn].session = s
            /\ connections[x.conn].path = p
            /\ x = Entry(x.conn, connections[x.conn], FALSE)
        BY <3>3, <3>5 DEF PathOK
      <4>2. connections'[x.conn] = connections[x.conn]
        BY <1>3, <3>1, <3>2, <4>1
      <4>3. sessions'[s].paths[p] = x
        BY <3>1
      <4> HIDE DEF x
      <4> QED BY <3>5, <4>1, <4>2, <4>3 DEF PathOK
    <3> QED BY <3>4, <3>5
  <2> QED BY <2>1, <2>2
<1>9. Calm(kept, sessions')
  BY <1>2 DEF Calm
<1> QED BY <1>2, <1>3, <1>4, <1>5, <1>6, <1>7, <1>8, <1>9 DEF Agree

\* prune_pending_attaches: an overdue attach and its reserved path go together.
LEMMA PruneAgree ==
  ASSUME NEW t \in Nat,
         Agree(sessions, connections, pending_connections, authenticated_connections)
  PROVE  /\ Agree(SessionsAfter(t), connections, PendingAfter(t),
                  authenticated_connections)
         /\ \A s \in Sessions : SessionsAfter(t)[s] = None <=> sessions[s] = None
         /\ \A c \in Conns : PendingAfter(t)[c] # None =>
              PendingAfter(t)[c] = pending_connections[c]
         /\ Calm(sessions, SessionsAfter(t))
<1> DEFINE sess == SessionsAfter(t)
           pend == PendingAfter(t)
           auth == authenticated_connections
           aborted(s, p) ==
             \E c \in Overdue(t) :
               /\ pending_connections[c].session = s
               /\ pending_connections[c].path = p
               /\ IsReservation(sessions[s], c, pending_connections[c])
           paths(s) == [p \in PathIds |-> IF aborted(s, p) THEN None
                                          ELSE sessions[s].paths[p]]
<1>1. /\ sessions \in [Sessions -> Session \cup {None}]
      /\ connections \in [Conns -> Binding \cup {None}]
      /\ pending_connections \in [Conns -> PendingAttach \cup {None}]
      /\ auth \in [Conns -> Sessions \cup {None}]
  BY DEF Agree, Typed
<1>2. \A s \in Sessions :
        sess[s] = IF sessions[s] = None THEN None
                  ELSE [sessions[s] EXCEPT !.paths = paths(s)]
  BY DEF SessionsAfter
<1>3. \A c \in Conns : pend[c] = IF c \in Overdue(t) THEN None
                                 ELSE pending_connections[c]
  BY DEF PendingAfter
<1>4. ASSUME NEW s \in Sessions, sessions[s] # None
      PROVE  /\ sess[s] # None /\ Sound(sess[s])
             /\ sess[s].paths = paths(s) /\ sess[s].history = sessions[s].history
  <2>1. sessions[s] \in Session /\ sessions[s].paths \in [PathIds -> Path \cup {None}]
    BY <1>1, <1>4 DEF Session
  <2>2. paths(s) \in [PathIds -> Path \cup {None}]
    BY <2>1
  <2>3. Sound(sessions[s])
    BY <1>4 DEF Agree
  <2>4. \A p \in PathIds : paths(s)[p] # None => paths(s)[p] = sessions[s].paths[p]
    OBVIOUS
  <2>5. sess[s] = [sessions[s] EXCEPT !.paths = paths(s)]
    BY <1>2, <1>4
  <2> HIDE DEF paths
  <2>6. Sound([sessions[s] EXCEPT !.paths = paths(s)])
    BY <2>2, <2>3, <2>4, FewerPathsSound
  <2>7. /\ [sessions[s] EXCEPT !.paths = paths(s)].paths = paths(s)
        /\ [sessions[s] EXCEPT !.paths = paths(s)].history = sessions[s].history
    BY <2>1 DEF Session
  <2>8. sess[s] \in Session
    BY <2>5, <2>6 DEF Sound
  <2> QED BY <2>5, <2>6, <2>7, <2>8, SessionNone
<1>5. \A s \in Sessions : sess[s] = None <=> sessions[s] = None
  BY <1>2, <1>4
<1>6. Typed(sess, connections, pend, auth)
  <2>1. \A s \in Sessions : sess[s] \in Session \cup {None}
    BY <1>2, <1>4 DEF Sound
  <2>2. DOMAIN sess = Sessions /\ sess = [s \in Sessions |-> sess[s]]
    BY DEF SessionsAfter
  <2>3. sess \in [Sessions -> Session \cup {None}]
    BY <2>1, <2>2
  <2>4. pend \in [Conns -> PendingAttach \cup {None}]
    BY <1>1 DEF PendingAfter
  <2> QED BY <1>1, <2>3, <2>4 DEF Typed
<1> HIDE DEF sess, pend
<1>7. ASSUME NEW c \in Conns
      PROVE  ConnOK(sess, connections, pend, auth, c) /\ PendOK(sess, pend, auth, c)
  <2>1. CASE connections[c] # None
    <3> DEFINE s == connections[c].session
               p == connections[c].path
    <3>1. s \in Sessions /\ p \in PathIds
      BY <1>1, <2>1 DEF Binding
    <3>2. /\ pending_connections[c] = None /\ auth[c] = s /\ sessions[s] # None
          /\ sessions[s].paths[p] = Entry(c, connections[c], FALSE)
      BY <2>1 DEF Agree, ConnOK
    <3>3. ~aborted(s, p)
      <4> SUFFICES ASSUME NEW d \in Overdue(t), pending_connections[d].path = p,
                          IsReservation(sessions[s], d, pending_connections[d])
                   PROVE  FALSE
        OBVIOUS
      <4>1. sessions[s].paths[p].reserved
        BY DEF IsReservation
      <4> QED BY <3>2, <4>1 DEF Entry
    <3>4. sess[s].paths[p] = Entry(c, connections[c], FALSE) /\ sess[s] # None
      BY <1>4, <3>1, <3>2, <3>3
    <3>5. pend[c] = None
      BY <1>3, <3>2
    <3> QED BY <3>2, <3>4, <3>5 DEF ConnOK, PendOK
  <2>2. CASE connections[c] = None /\ pend[c] # None
    <3> DEFINE s == pend[c].session
               p == pend[c].path
    <3>1. c \notin Overdue(t) /\ pend[c] = pending_connections[c]
      BY <1>3, <2>2
    <3>2. s \in Sessions /\ p \in PathIds
      BY <1>1, <2>2, <3>1 DEF PendingAttach
    <3>3. /\ auth[c] = s /\ sessions[s] # None
          /\ sessions[s].paths[p] = Entry(c, pend[c], TRUE)
      BY <2>2, <3>1 DEF Agree, PendOK
    <3>4. ~aborted(s, p)
      <4> SUFFICES ASSUME NEW d \in Overdue(t), pending_connections[d].session = s,
                          pending_connections[d].path = p,
                          IsReservation(sessions[s], d, pending_connections[d])
                   PROVE  FALSE
        OBVIOUS
      <4>1. sessions[s].paths[p].conn = d
        BY DEF IsReservation
      <4> QED BY <3>1, <3>3, <4>1 DEF Entry
    <3>5. sess[s].paths[p] = Entry(c, pend[c], TRUE) /\ sess[s] # None
      BY <1>4, <3>2, <3>3, <3>4
    <3> QED BY <2>2, <3>3, <3>5 DEF ConnOK, PendOK
  <2>3. CASE connections[c] = None /\ pend[c] = None
    BY <2>3 DEF ConnOK, PendOK
  <2> QED BY <2>1, <2>2, <2>3
<1>8. ASSUME NEW s \in Sessions, NEW p \in PathIds
      PROVE  PathOK(sess, connections, pend, s, p)
  <2>1. CASE sess[s] = None \/ sess[s].paths[p] = None
    BY <2>1 DEF PathOK
  <2>2. CASE sess[s] # None /\ sess[s].paths[p] # None
    <3> DEFINE x == sessions[s].paths[p]
    <3>1. /\ sessions[s] # None /\ sess[s].paths[p] = x /\ ~aborted(s, p) /\ x # None
          /\ sessions[s].paths[p] = x
      <4>1. sessions[s] # None /\ sess[s].paths = paths(s)
        BY <1>4, <1>5, <2>2
      <4>2. paths(s)[p] = IF aborted(s, p) THEN None ELSE x
        OBVIOUS
      <4> HIDE DEF aborted, paths, x
      <4>3. ~aborted(s, p) /\ sess[s].paths[p] = x /\ x # None
        BY <2>2, <4>1, <4>2
      <4> QED BY <4>1, <4>3 DEF x
    <3>2. x.conn \in Conns /\ x \in Path
      BY <1>1, <3>1 DEF Session, Path
    <3>3. PathOK(sessions, connections, pending_connections, s, p)
      BY DEF Agree
    <3>4. CASE x.reserved
      <4>1. /\ pending_connections[x.conn] # None
            /\ pending_connections[x.conn].session = s
            /\ pending_connections[x.conn].path = p
            /\ x = Entry(x.conn, pending_connections[x.conn], TRUE)
        BY <3>1, <3>3, <3>4 DEF PathOK
      <4>2. IsReservation(sessions[s], x.conn, pending_connections[x.conn])
        <5> HIDE DEF x
        <5> QED BY <3>1, <4>1 DEF IsReservation, Entry
      <4>3. x.conn \notin Overdue(t)
        BY <3>1, <4>1, <4>2
      <4>4. pend[x.conn] = pending_connections[x.conn]
        BY <1>3, <3>2, <4>3
      <4> HIDE DEF x
      <4> QED BY <3>1, <3>4, <4>1, <4>4 DEF PathOK
    <3>5. CASE ~x.reserved
      <4>1. /\ connections[x.conn] # None
            /\ connections[x.conn].session = s
            /\ connections[x.conn].path = p
            /\ x = Entry(x.conn, connections[x.conn], FALSE)
        BY <3>1, <3>3, <3>5 DEF PathOK
      <4> HIDE DEF x
      <4> QED BY <3>1, <3>5, <4>1 DEF PathOK
    <3> QED BY <3>4, <3>5
  <2> QED BY <2>1, <2>2
<1>9. \A c \in Conns : auth[c] # None => sess[auth[c]] # None
  <2>1. \A c \in Conns : auth[c] # None => auth[c] \in Sessions /\ sessions[auth[c]] # None
    BY <1>1 DEF Agree
  <2> HIDE DEF auth
  <2> QED BY <1>5, <2>1
<1>10. Calm(sessions, sess)
  <2> SUFFICES ASSUME NEW s \in Sessions, sessions[s] # None, sess[s] # None
               PROVE  /\ sess[s].history = sessions[s].history
                      /\ \A p \in PathIds : sess[s].paths[p] # None =>
                                              sessions[s].paths[p] # None
    BY DEF Calm
  <2>1. \A p \in PathIds : paths(s)[p] # None => sessions[s].paths[p] # None
    OBVIOUS
  <2> HIDE DEF paths
  <2> QED BY <1>4, <2>1
<1>11. \A c \in Conns : pend[c] # None => pend[c] = pending_connections[c]
  BY <1>3
<1>12. \A s \in Sessions : sess[s] # None => Sound(sess[s])
  BY <1>4, <1>5
<1>13. Agree(sess, connections, pend, auth)
  <2> HIDE DEF auth
  <2> QED BY <1>6, <1>7, <1>8, <1>9, <1>12 DEF Agree
<1> QED BY <1>5, <1>10, <1>11, <1>13 DEF sess, pend

\* A session replaced by one with the same paths: renewed, drained, pruned.
LEMMA ReplaceAgree ==
  ASSUME NEW sess, NEW conn, NEW pend, NEW auth, Agree(sess, conn, pend, auth),
         NEW s \in Sessions, NEW x, Sound(x), sess[s] # None, x.paths = sess[s].paths
  PROVE  Agree([sess EXCEPT ![s] = x], conn, pend, auth)
<1> DEFINE new == [sess EXCEPT ![s] = x]
<1>1. x \in Session /\ x # None
  BY SessionNone DEF Sound
<1>2. Typed(sess, conn, pend, auth)
  BY DEF Agree
<1>3. \A r \in Sessions : new[r] = IF r = s THEN x ELSE sess[r]
  BY <1>2 DEF Typed
<1>4. Typed(new, conn, pend, auth)
  BY <1>1, <1>2 DEF Typed
<1>5. \A r \in Sessions : /\ new[r] = None <=> sess[r] = None
                          /\ new[r].paths = sess[r].paths
                          /\ new[r] # None => Sound(new[r])
  BY <1>1, <1>3 DEF Agree
<1> HIDE DEF new
<1>6. ASSUME NEW r \in Sessions, NEW p \in PathIds PROVE PathOK(new, conn, pend, r, p)
  <2>1. PathOK(sess, conn, pend, r, p)
    BY DEF Agree
  <2>2. new[r].paths[p] = sess[r].paths[p] /\ (new[r] = None <=> sess[r] = None)
    BY <1>5
  <2> QED BY <2>1, <2>2 DEF PathOK
<1>7. \A c \in Conns : auth[c] # None => new[auth[c]] # None
  BY <1>2, <1>5 DEF Agree, Typed
<1>8. ASSUME NEW c \in Conns PROVE ConnOK(new, conn, pend, auth, c)
  <2>1. conn[c] # None => conn[c].session \in Sessions
    BY <1>2 DEF Typed, Binding
  <2>2. ConnOK(sess, conn, pend, auth, c)
    BY DEF Agree
  <2> QED BY <1>5, <2>1, <2>2 DEF ConnOK
<1>9. ASSUME NEW c \in Conns PROVE PendOK(new, pend, auth, c)
  <2>1. pend[c] # None => pend[c].session \in Sessions
    BY <1>2 DEF Typed, PendingAttach
  <2>2. PendOK(sess, pend, auth, c)
    BY DEF Agree
  <2> QED BY <1>5, <2>1, <2>2 DEF PendOK
<1>10. Agree(new, conn, pend, auth)
  BY <1>4, <1>5, <1>6, <1>7, <1>8, <1>9 DEF Agree
<1> QED BY <1>10 DEF new

\* Connection c and the paths P of session s change together: the session becomes
\* x, and only c's entries of the other maps change.
Edited(sess, conn, pend, auth, s, c, P, x, conn2, pend2, auth2) ==
  /\ s \in Sessions /\ c \in Conns /\ P \in SUBSET PathIds
  /\ Sound(x) /\ sess[s] # None
  /\ Typed(sess, conn2, pend2, auth2)
  /\ \A p \in P : sess[s].paths[p] # None => sess[s].paths[p].conn = c
  /\ \A p \in PathIds \ P : x.paths[p] = sess[s].paths[p]
  /\ conn[c] # None => conn[c].session = s /\ conn[c].path \in P
  /\ pend[c] # None => pend[c].session = s /\ pend[c].path \in P
  /\ \A d \in Conns \ {c} :
        conn2[d] = conn[d] /\ pend2[d] = pend[d] /\ auth2[d] = auth[d]
  /\ auth2[c] # None => auth2[c] = auth[c]

\* What is left to show is about that connection and those paths alone.
LEMMA EditAgree ==
  ASSUME NEW sess, NEW conn, NEW pend, NEW auth, Agree(sess, conn, pend, auth),
         NEW conn2, NEW pend2, NEW auth2, NEW s, NEW c, NEW P, NEW x,
         Edited(sess, conn, pend, auth, s, c, P, x, conn2, pend2, auth2),
         ConnOK([sess EXCEPT ![s] = x], conn2, pend2, auth2, c),
         PendOK([sess EXCEPT ![s] = x], pend2, auth2, c),
         \A p \in P : PathOK([sess EXCEPT ![s] = x], conn2, pend2, s, p)
  PROVE  Agree([sess EXCEPT ![s] = x], conn2, pend2, auth2)
<1> USE DEF Edited
<1> DEFINE new == [sess EXCEPT ![s] = x]
<1>1. x \in Session /\ x # None
  BY SessionNone DEF Sound
<1>2. Typed(sess, conn, pend, auth)
  BY DEF Agree
<1>3. \A r \in Sessions : new[r] = IF r = s THEN x ELSE sess[r]
  BY <1>2 DEF Typed
<1>4. Typed(new, conn2, pend2, auth2)
  BY <1>1, <1>2 DEF Typed
<1>5. \A r \in Sessions : /\ new[r] = None <=> sess[r] = None
                          /\ new[r] # None => Sound(new[r])
  BY <1>1, <1>3 DEF Agree
<1>6. \A r \in Sessions, p \in PathIds :
        ~(r = s /\ p \in P) => new[r].paths[p] = sess[r].paths[p]
  BY <1>3
<1> HIDE DEF new
<1>7. \A d \in Conns : auth2[d] # None => new[auth2[d]] # None
  BY <1>2, <1>5 DEF Agree, Typed
<1>8. ASSUME NEW d \in Conns PROVE ConnOK(new, conn2, pend2, auth2, d)
  <2>1. CASE d = c
    BY <2>1 DEF new
  <2>2. CASE d # c /\ conn[d] # None
    <3> DEFINE r == conn[d].session
               p == conn[d].path
    <3>1. r \in Sessions /\ p \in PathIds
      BY <1>2, <2>2 DEF Typed, Binding
    <3>2. /\ pend[d] = None /\ auth[d] = r /\ sess[r] # None
          /\ sess[r].paths[p] = Entry(d, conn[d], FALSE)
      BY <2>2 DEF Agree, ConnOK
    <3>3. ~(r = s /\ p \in P)
      <4>1. conn[d].pe \in Epochs /\ conn[d].ke \in Epochs
        BY <1>2, <2>2 DEF Typed, Binding
      <4>2. Entry(d, conn[d], FALSE) # None
        BY <4>1, PathEntry
      <4>3. Entry(d, conn[d], FALSE).conn = d
        BY DEF Entry
      <4> QED BY <2>2, <3>2, <4>2, <4>3
    <3>4. new[r].paths[p] = Entry(d, conn[d], FALSE) /\ new[r] # None
      BY <1>5, <1>6, <3>1, <3>2, <3>3
    <3> QED BY <2>2, <3>2, <3>4 DEF ConnOK
  <2>3. CASE d # c /\ conn[d] = None
    BY <2>3 DEF ConnOK
  <2> QED BY <2>1, <2>2, <2>3
<1>9. ASSUME NEW d \in Conns PROVE PendOK(new, pend2, auth2, d)
  <2>1. CASE d = c
    BY <2>1 DEF new
  <2>2. CASE d # c /\ pend[d] # None
    <3> DEFINE r == pend[d].session
               p == pend[d].path
    <3>1. r \in Sessions /\ p \in PathIds
      BY <1>2, <2>2 DEF Typed, PendingAttach
    <3>2. /\ auth[d] = r /\ sess[r] # None
          /\ sess[r].paths[p] = Entry(d, pend[d], TRUE)
      BY <2>2 DEF Agree, PendOK
    <3>3. ~(r = s /\ p \in P)
      <4>1. pend[d].pe \in Epochs /\ pend[d].ke \in Epochs
        BY <1>2, <2>2 DEF Typed, PendingAttach
      <4>2. Entry(d, pend[d], TRUE) # None
        BY <4>1, PathEntry
      <4>3. Entry(d, pend[d], TRUE).conn = d
        BY DEF Entry
      <4> QED BY <2>2, <3>2, <4>2, <4>3
    <3>4. new[r].paths[p] = Entry(d, pend[d], TRUE) /\ new[r] # None
      BY <1>5, <1>6, <3>1, <3>2, <3>3
    <3> QED BY <2>2, <3>2, <3>4 DEF PendOK
  <2>3. CASE d # c /\ pend[d] = None
    BY <2>3 DEF PendOK
  <2> QED BY <2>1, <2>2, <2>3
<1>10. ASSUME NEW r \in Sessions, NEW p \in PathIds
       PROVE  PathOK(new, conn2, pend2, r, p)
  <2>1. CASE r = s /\ p \in P
    BY <2>1 DEF new
  <2>2. CASE ~(r = s /\ p \in P) /\ new[r] # None /\ new[r].paths[p] # None
    <3> DEFINE e == sess[r].paths[p]
    <3>1. sess[r] # None /\ new[r].paths[p] = e /\ e # None
      BY <1>5, <1>6, <2>2
    <3>2. PathOK(sess, conn, pend, r, p)
      BY DEF Agree
    <3>3. e.conn \in Conns
      BY <1>2, <3>1 DEF Typed, Session, Path
    <3>4. e.reserved => pend[e.conn] # None /\ pend[e.conn].session = r
                          /\ pend[e.conn].path = p /\ e = Entry(e.conn, pend[e.conn], TRUE)
      BY <3>1, <3>2 DEF PathOK
    <3>5. ~e.reserved => conn[e.conn] # None /\ conn[e.conn].session = r
                          /\ conn[e.conn].path = p /\ e = Entry(e.conn, conn[e.conn], FALSE)
      BY <3>1, <3>2 DEF PathOK
    <3> HIDE DEF e
    <3>6. e.conn # c
      <4>1. CASE e.reserved
        BY <2>2, <3>4, <4>1
      <4>2. CASE ~e.reserved
        BY <2>2, <3>5, <4>2
      <4> QED BY <4>1, <4>2
    <3>7. conn2[e.conn] = conn[e.conn] /\ pend2[e.conn] = pend[e.conn]
      BY <3>3, <3>6
    <3>8. CASE e.reserved
      <4>1. /\ pend2[e.conn] # None /\ pend2[e.conn].session = r
            /\ pend2[e.conn].path = p /\ e = Entry(e.conn, pend2[e.conn], TRUE)
        BY <3>4, <3>7, <3>8
      <4> QED BY <3>1, <3>8, <4>1 DEF PathOK
    <3>9. CASE ~e.reserved
      <4>1. /\ conn2[e.conn] # None /\ conn2[e.conn].session = r
            /\ conn2[e.conn].path = p /\ e = Entry(e.conn, conn2[e.conn], FALSE)
        BY <3>5, <3>7, <3>9
      <4> QED BY <3>1, <3>9, <4>1 DEF PathOK
    <3> QED BY <3>8, <3>9
  <2>3. CASE new[r] = None \/ new[r].paths[p] = None
    BY <2>3 DEF PathOK
  <2> QED BY <2>1, <2>2, <2>3
<1>11. Agree(new, conn2, pend2, auth2)
  BY <1>4, <1>5, <1>7, <1>8, <1>9, <1>10 DEF Agree
<1> QED BY <1>11 DEF new

\* A new session is named by nothing yet.
LEMMA CreateAgree ==
  ASSUME NEW sess, NEW conn, NEW pend, NEW auth, Agree(sess, conn, pend, auth),
         NEW s \in Sessions, NEW x, Sound(x), Present(x.paths) = {}, sess[s] = None
  PROVE  Agree([sess EXCEPT ![s] = x], conn, pend, auth)
<1> DEFINE new == [sess EXCEPT ![s] = x]
<1>1. x \in Session /\ x # None
  BY SessionNone DEF Sound
<1>2. Typed(sess, conn, pend, auth)
  BY DEF Agree
<1>3. \A r \in Sessions : new[r] = IF r = s THEN x ELSE sess[r]
  BY <1>2 DEF Typed
<1>4. Typed(new, conn, pend, auth)
  BY <1>1, <1>2 DEF Typed
<1>5. \A r \in Sessions : /\ new[r] # None => Sound(new[r])
                          /\ sess[r] # None => r # s /\ new[r] = sess[r]
  BY <1>1, <1>3 DEF Agree
<1> HIDE DEF new
<1>6. ASSUME NEW r \in Sessions, NEW p \in PathIds PROVE PathOK(new, conn, pend, r, p)
  <2>1. CASE r = s
    <3>1. new[r].paths[p] = None
      BY <1>3, <2>1 DEF Present
    <3> QED BY <3>1 DEF PathOK
  <2>2. CASE r # s
    <3>1. new[r] = sess[r] /\ PathOK(sess, conn, pend, r, p)
      BY <1>3, <2>2 DEF Agree
    <3> QED BY <3>1 DEF PathOK
  <2> QED BY <2>1, <2>2
<1>7. \A c \in Conns : auth[c] # None => new[auth[c]] # None
  BY <1>2, <1>5 DEF Agree, Typed
<1>8. ASSUME NEW c \in Conns PROVE ConnOK(new, conn, pend, auth, c)
  <2>1. conn[c] # None => conn[c].session \in Sessions
    BY <1>2 DEF Typed, Binding
  <2>2. ConnOK(sess, conn, pend, auth, c)
    BY DEF Agree
  <2> QED BY <1>5, <2>1, <2>2 DEF ConnOK
<1>9. ASSUME NEW c \in Conns PROVE PendOK(new, pend, auth, c)
  <2>1. pend[c] # None => pend[c].session \in Sessions
    BY <1>2 DEF Typed, PendingAttach
  <2>2. PendOK(sess, pend, auth, c)
    BY DEF Agree
  <2> QED BY <1>5, <2>1, <2>2 DEF PendOK
<1>10. Agree(new, conn, pend, auth)
  BY <1>4, <1>5, <1>6, <1>7, <1>8, <1>9 DEF Agree
<1> QED BY <1>10 DEF new

\* A connection that is authenticated for the first time is bound to nothing.
LEMMA BindAgree ==
  ASSUME NEW sess, NEW conn, NEW pend, NEW auth, Agree(sess, conn, pend, auth),
         NEW s \in Sessions, sess[s] # None, NEW c \in Conns, auth[c] = None
  PROVE  Agree(sess, conn, pend, [auth EXCEPT ![c] = s])
<1> DEFINE new == [auth EXCEPT ![c] = s]
<1>1. Typed(sess, conn, pend, auth)
  BY DEF Agree
<1>2. Typed(sess, conn, pend, new)
  BY <1>1 DEF Typed
<1>3. \A d \in Conns : new[d] = IF d = c THEN s ELSE auth[d]
  BY <1>1 DEF Typed
<1> HIDE DEF new
<1>4. conn[c] = None /\ pend[c] = None
  <2>1. conn[c] # None => conn[c].session \in Sessions /\ conn[c].session # None
    BY <1>1, ManagerNone DEF Typed, Binding
  <2>2. pend[c] # None => pend[c].session \in Sessions /\ pend[c].session # None
    BY <1>1, ManagerNone DEF Typed, PendingAttach
  <2>3. ConnOK(sess, conn, pend, auth, c) /\ PendOK(sess, pend, auth, c)
    BY DEF Agree
  <2> QED BY <2>1, <2>2, <2>3 DEF ConnOK, PendOK
<1>5. ASSUME NEW d \in Conns
      PROVE  ConnOK(sess, conn, pend, new, d) /\ PendOK(sess, pend, new, d)
  <2>1. CASE d = c
    BY <1>4, <2>1 DEF ConnOK, PendOK
  <2>2. CASE d # c
    <3>1. ConnOK(sess, conn, pend, auth, d) /\ PendOK(sess, pend, auth, d)
      BY DEF Agree
    <3>2. new[d] = auth[d]
      BY <1>3, <2>2
    <3> QED BY <3>1, <3>2 DEF ConnOK, PendOK
  <2> QED BY <2>1, <2>2
<1>6. \A d \in Conns : new[d] # None => sess[new[d]] # None
  BY <1>3 DEF Agree
<1>7. Agree(sess, conn, pend, new)
  BY <1>2, <1>5, <1>6 DEF Agree
<1> QED BY <1>7 DEF new

-----------------------------------------------------------------------------
\* The inductive invariant

\* Types of what Agree says nothing of.
Held ==
  /\ now \in Nat
  /\ admissions \in [Sessions -> Admission \cup {None}]
  /\ next_connection_id \in Nat
  /\ grant \in [Tasks -> Grant \cup {None}]
  /\ handle \in [Conns -> Sessions \cup {None}]
  /\ attach \in [Conns -> Binding \cup {None}]
  /\ owed \in [Sessions -> Nat]

\* An authenticated connection keeps the session its capability was issued for,
\* and identifiers yet to come were never handed out.
Issued ==
  \A c \in Conns :
    /\ authenticated_connections[c] # None => authenticated_connections[c] = handle[c]
    /\ handle[c] # None => c < next_connection_id

\* A pending attach is the one its listener is about to commit.
Attaching ==
  \A c \in Conns : pending_connections[c] # None =>
                     attach[c] # None /\ IsPending(c, attach[c])

\* maximum_sessions counts the sessions and the reservations.
SessionsCounted ==
  /\ Cardinality(Live) + Cardinality(Reserved) <= MaxSessions
  /\ Live \cap Reserved = {}

\* The bounds of the manager's own maps.
Counted ==
  /\ SessionsCounted
  /\ Cardinality(Bound(authenticated_connections)) <= MaxSessions * MaxPaths
  /\ Cardinality(Bound(pending_connections)) <= MaxPending

IndInv ==
  /\ Held
  /\ Agree(sessions, connections, pending_connections, authenticated_connections)
  /\ Issued
  /\ Attaching
  /\ Counted

\* The epochs of a session that lives on, as EpochsAdvance compares them.
Advances(old, new) ==
  \A s \in Sessions : old[s] # None /\ new[s] # None =>
    \A p \in Present(old[s].history) :
      /\ new[s].history[p] # None
      /\ new[s].history[p].pe >= old[s].history[p].pe
      /\ new[s].history[p].ke >= old[s].history[p].ke
      /\ old[s].paths[p] = None /\ new[s].paths[p] # None =>
           /\ new[s].paths[p].pe > old[s].history[p].pe
           /\ new[s].paths[p].ke > old[s].history[p].ke

\* The sets that are counted are finite.
LEMMA CountedSets ==
  /\ \A S \in SUBSET Sessions : IsFiniteSet(S) /\ Cardinality(S) \in Nat
  /\ \A S \in SUBSET Conns : IsFiniteSet(S) /\ Cardinality(S) \in Nat
  /\ Live \in SUBSET Sessions /\ Reserved \in SUBSET Sessions
  /\ \A f : Bound(f) \in SUBSET Conns
BY ManagerBounds, FS_Subset, FS_CardinalityType DEF Live, Reserved, Bound

\* A session that lives on and gains nothing keeps its epochs.
LEMMA CalmAdvances ==
  ASSUME NEW old, NEW new, Calm(old, new),
         \A s \in Sessions : old[s] # None => Sound(old[s])
  PROVE  Advances(old, new)
<1> SUFFICES ASSUME NEW s \in Sessions, old[s] # None, new[s] # None,
                    NEW p \in Present(old[s].history)
             PROVE  /\ new[s].history[p] # None
                    /\ new[s].history[p].pe >= old[s].history[p].pe
                    /\ new[s].history[p].ke >= old[s].history[p].ke
                    /\ ~(old[s].paths[p] = None /\ new[s].paths[p] # None)
  BY DEF Advances
<1>1. p \in PathIds /\ old[s].history[p] # None
  BY DEF Present
<1>2. new[s].history = old[s].history
  BY DEF Calm
<1>3. old[s].history[p] \in PathEpochs
  BY <1>1 DEF Sound, Session
<1>4. old[s].history[p].pe \in Nat /\ old[s].history[p].ke \in Nat
  BY <1>3, EpochsAssumption DEF PathEpochs
<1>5. ~(old[s].paths[p] = None /\ new[s].paths[p] # None)
  BY <1>1 DEF Calm
<1> QED BY <1>1, <1>2, <1>4, <1>5

LEMMA CalmTransitive ==
  ASSUME NEW a, NEW b, NEW c, Calm(a, b), Calm(b, c),
         \A s \in Sessions : c[s] # None => b[s] # None
  PROVE  Calm(a, c)
BY DEF Calm

\* Sessions and reservations that only go.
LEMMA ShrinkSessions ==
  ASSUME SessionsCounted,
         \A s \in Sessions : /\ sessions'[s] # None => sessions[s] # None
                             /\ admissions'[s] # None => admissions[s] # None
  PROVE  SessionsCounted'
<1>1. Live' \subseteq Live /\ Reserved' \subseteq Reserved
  BY DEF Live, Reserved
<1>2. Live \in SUBSET Sessions /\ Reserved \in SUBSET Sessions
  BY CountedSets
<1>3. /\ Cardinality(Live') <= Cardinality(Live)
      /\ Cardinality(Reserved') <= Cardinality(Reserved)
      /\ Cardinality(Live) \in Nat /\ Cardinality(Reserved) \in Nat
      /\ Cardinality(Live') \in Nat /\ Cardinality(Reserved') \in Nat
  BY <1>1, <1>2, CountedSets, FS_Subset
<1>4. Cardinality(Live) + Cardinality(Reserved) <= MaxSessions /\ MaxSessions \in Nat
  BY ManagerBounds DEF SessionsCounted
<1>5. Cardinality(Live') + Cardinality(Reserved') <= MaxSessions
  BY <1>3, <1>4
<1>6. Live' \cap Reserved' = {}
  BY <1>1 DEF SessionsCounted
<1> QED BY <1>5, <1>6 DEF SessionsCounted

\* What the maps of connections lose, and what comes with it, keeps the
\* invariant: every method but a new capability and reserve_attach.
LEMMA ShrinkStep ==
  ASSUME IndInv, Held',
         Agree(sessions', connections', pending_connections',
               authenticated_connections'),
         \A c \in Conns :
           /\ authenticated_connections'[c] # None =>
                authenticated_connections'[c] = authenticated_connections[c]
           /\ pending_connections'[c] # None =>
                /\ pending_connections'[c] = pending_connections[c]
                /\ attach'[c] = attach[c],
         UNCHANGED <<handle, next_connection_id>>,
         SessionsCounted'
  PROVE  IndInv'
<1>1. Issued'
  BY DEF IndInv, Issued
<1>2. Attaching'
  <2> SUFFICES ASSUME NEW c \in Conns, pending_connections'[c] # None
               PROVE  attach'[c] # None /\ IsPending(c, attach[c])'
    BY DEF Attaching
  <2>1. /\ pending_connections'[c] = pending_connections[c] /\ attach'[c] = attach[c]
        /\ attach[c] # None /\ IsPending(c, attach[c])
    BY DEF IndInv, Attaching
  <2> QED BY <2>1 DEF IsPending
<1>3. Counted'
  <2>1. /\ Bound(authenticated_connections)' \subseteq Bound(authenticated_connections)
        /\ Bound(pending_connections)' \subseteq Bound(pending_connections)
    BY DEF Bound
  <2>2. /\ Bound(authenticated_connections) \in SUBSET Conns
        /\ Bound(pending_connections) \in SUBSET Conns
    BY CountedSets
  <2> DEFINE A == Bound(authenticated_connections)
             P == Bound(pending_connections)
  <2> HIDE DEF A, P
  <2>3. Cardinality(A') <= Cardinality(A) /\ Cardinality(P') <= Cardinality(P)
    BY <2>1, <2>2, CountedSets, FS_Subset DEF A, P
  <2>4. /\ Cardinality(A) \in Nat /\ Cardinality(P) \in Nat
        /\ Cardinality(A') \in Nat /\ Cardinality(P') \in Nat
    BY <2>1, <2>2, CountedSets DEF A, P
  <2>5. /\ Cardinality(A) <= MaxSessions * MaxPaths
        /\ Cardinality(P) <= MaxPending
    BY DEF IndInv, Counted, A, P
  <2>6. MaxSessions * MaxPaths \in Nat /\ MaxPending \in Nat
    BY ManagerBounds, PathBounds
  <2>7. Cardinality(A') <= MaxSessions * MaxPaths
    <3> DEFINE M == MaxSessions * MaxPaths
    <3> HIDE DEF M
    <3>1. M \in Nat /\ Cardinality(A) <= M
      BY <2>5, <2>6 DEF M
    <3>2. Cardinality(A') <= M
      BY <2>3, <2>4, <3>1
    <3> QED BY <3>2 DEF M
  <2>8. Cardinality(P') <= MaxPending
    BY <2>3, <2>4, <2>5, <2>6
  <2> QED BY <2>7, <2>8 DEF Counted, A, P
<1> QED BY <1>1, <1>2, <1>3 DEF IndInv

\* remove_session on its own, or with a reservation that goes or comes.
LEMMA RemoveStep ==
  ASSUME IndInv, Held', NEW S \in SUBSET Sessions,
         Remove(S, sessions, pending_connections),
         UNCHANGED <<handle, attach, next_connection_id>>,
         SessionsCounted'
  PROVE  IndInv' /\ Calm(sessions, sessions')
<1>1. Agree(sessions, connections, pending_connections, authenticated_connections)
  BY DEF IndInv
<1>2. /\ Agree(sessions', connections', pending_connections', authenticated_connections')
      /\ \A c \in Conns :
           /\ authenticated_connections'[c] # None =>
                authenticated_connections'[c] = authenticated_connections[c]
           /\ pending_connections'[c] # None =>
                pending_connections'[c] = pending_connections[c]
      /\ Calm(sessions, sessions')
  BY <1>1, RemoveAgree
<1> QED BY <1>2, ShrinkStep

\* The types that remove_session leaves alone.
LEMMA RemoveHeld ==
  ASSUME Held, NEW S \in SUBSET Sessions, NEW kept, NEW pending,
         Remove(S, kept, pending)
  PROVE  owed' \in [Sessions -> Nat]
BY DEF Held, Remove

\* What the maps of a session and of the connections are typed with.
LEMMA MapsTyped ==
  ASSUME IndInv
  PROVE  /\ sessions \in [Sessions -> Session \cup {None}]
         /\ connections \in [Conns -> Binding \cup {None}]
         /\ pending_connections \in [Conns -> PendingAttach \cup {None}]
         /\ authenticated_connections \in [Conns -> Sessions \cup {None}]
         /\ \A s \in Sessions : sessions[s] # None => Sound(sessions[s])
BY DEF IndInv, Agree, Typed

-----------------------------------------------------------------------------
\* One lemma per method

Kept == IndInv' /\ Advances(sessions, sessions')

LEMMA CalmKept ==
  ASSUME IndInv, IndInv', Calm(sessions, sessions')
  PROVE  Kept
BY MapsTyped, CalmAdvances DEF Kept

LEMMA ReserveAdmissionKept ==
  ASSUME IndInv, NEW l \in Tasks, NEW s \in Sessions, NEW d \in Devices,
         NEW exp \in Expiries, NEW t \in Captured, ReserveAdmission(l, s, d, exp, t)
  PROVE  Kept
<1> DEFINE gone == {x \in {s} \cap Live : IsExpired(sessions[x], t)}
           there == sessions[s] # None /\ s \notin gone
<1>1. gone \in SUBSET Sessions /\ Remove(gone, sessions, pending_connections)
  BY DEF ReserveAdmission
<1>2. UNCHANGED <<now, next_connection_id, handle, attach>>
  BY DEF ReserveAdmission
<1>3. exp \in Nat
  BY ManagerBounds
<1>4. \A x \in Sessions : sessions'[x] = IF x \in gone THEN None ELSE sessions[x]
  BY <1>1 DEF Remove
<1>5. Live' = Live \ gone
  BY <1>4 DEF Live
<1>6. Held /\ SessionsCounted
  BY DEF IndInv, Counted
<1>7. owed' \in [Sessions -> Nat]
  BY <1>1, <1>6, RemoveHeld
<1>8. \/ /\ there
         /\ grant' = [grant EXCEPT ![l] = GrantFor(s, d, sessions[s].exp, FALSE)]
         /\ UNCHANGED admissions
      \/ /\ admissions[s] # None
         /\ grant' = [grant EXCEPT ![l] = GrantFor(s, d, admissions[s].exp, TRUE)]
         /\ UNCHANGED admissions
      \/ UNCHANGED <<admissions, grant>>
      \/ /\ ~there /\ admissions[s] = None /\ ~Full(gone)
         /\ admissions' = [admissions EXCEPT ![s] = [dev |-> d, exp |-> exp]]
         /\ grant' = [grant EXCEPT ![l] = GrantFor(s, d, exp, TRUE)]
  BY DEF ReserveAdmission
<1> HIDE DEF gone, there
<1>9. grant' \in [Tasks -> Grant \cup {None}]
  <2>1. sessions[s] # None => sessions[s].exp \in Nat
    BY MapsTyped DEF Session
  <2>2. admissions[s] # None => admissions[s].exp \in Nat
    BY <1>6 DEF Held, Admission
  <2>3. there => sessions[s] # None
    BY DEF there
  <2>4. \A e \in Nat, b \in BOOLEAN : GrantFor(s, d, e, b) \in Grant
    BY DEF GrantFor, Grant
  <2> QED BY <1>3, <1>6, <1>8, <2>1, <2>2, <2>3, <2>4 DEF Held
<1>10. admissions' \in [Sessions -> Admission \cup {None}]
  <2>1. [dev |-> d, exp |-> exp] \in Admission
    BY <1>3 DEF Admission
  <2> QED BY <1>6, <1>8, <2>1 DEF Held
<1>11. Held'
  BY <1>2, <1>6, <1>7, <1>9, <1>10 DEF Held
<1>12. SessionsCounted'
  <2>1. CASE UNCHANGED admissions
    BY <1>4, <1>6, <2>1, ShrinkSessions
  <2>2. CASE /\ ~there /\ admissions[s] = None /\ ~Full(gone)
             /\ admissions' = [admissions EXCEPT ![s] = [dev |-> d, exp |-> exp]]
    <3>1. /\ Live \in SUBSET Sessions /\ Reserved \in SUBSET Sessions
          /\ Live' \in SUBSET Sessions /\ s \notin Reserved
      BY <1>5, <2>2, CountedSets DEF Reserved
    <3>2. [dev |-> d, exp |-> exp] # None
      BY <1>3, ManagerNone DEF Admission
    <3>3. Reserved' = Reserved \cup {s}
      BY <1>6, <2>2, <3>2 DEF Reserved, Held
    <3>4. /\ Cardinality(Reserved') = Cardinality(Reserved) + 1
          /\ Cardinality(Reserved) \in Nat /\ Cardinality(Live') \in Nat
      BY <3>1, <3>3, CountedSets, FS_AddElement
    <3>5. Cardinality(Live') + Cardinality(Reserved) < MaxSessions
      BY <1>5, <2>2, <3>4, ManagerBounds DEF Full
    <3>6. s \notin Live'
      BY <1>4, <2>2 DEF there, Live
    <3>7. Live' \cap Reserved' = {}
      BY <1>5, <1>6, <3>3, <3>6 DEF SessionsCounted
    <3>8. Cardinality(Live') + Cardinality(Reserved') <= MaxSessions
      BY <3>4, <3>5, ManagerBounds
    <3> QED BY <3>7, <3>8 DEF SessionsCounted
  <2> QED BY <1>8, <2>1, <2>2
<1> QED BY <1>1, <1>2, <1>11, <1>12, RemoveStep, CalmKept

\* A capability for a session that is, or has just come, into the map.
LEMMA AuthenticateStep ==
  ASSUME IndInv, NEW s \in Sessions, Authenticate(s), ~ConnectionCapacity,
         UNCHANGED <<now, connections, pending_connections, attach, owed>>,
         admissions' \in [Sessions -> Admission \cup {None}],
         grant' \in [Tasks -> Grant \cup {None}],
         Agree(sessions', connections, pending_connections, authenticated_connections),
         sessions'[s] # None, SessionsCounted'
  PROVE  IndInv'
<1> DEFINE n == next_connection_id
           A == Bound(authenticated_connections)
           M == MaxSessions * MaxPaths
<1>1. Held /\ Issued /\ Attaching /\ Counted
  BY DEF IndInv
<1>2. n \in Conns /\ n \in Nat /\ Conns \subseteq Nat
  BY ConnsAssumption DEF Authenticate
<1>3. /\ authenticated_connections' = [authenticated_connections EXCEPT ![n] = s]
      /\ handle' = [handle EXCEPT ![n] = s] /\ next_connection_id' = n + 1
  BY DEF Authenticate
<1>4. handle \in [Conns -> Sessions \cup {None}]
      /\ authenticated_connections \in [Conns -> Sessions \cup {None}]
  BY <1>1, MapsTyped DEF Held
<1>5. authenticated_connections[n] = None
  BY <1>1, <1>2 DEF Issued
<1> HIDE DEF n
<1>6. Held'
  BY <1>1, <1>2, <1>3, <1>4 DEF Held
<1>7. Agree(sessions', connections', pending_connections', authenticated_connections')
  BY <1>2, <1>3, <1>5, BindAgree
<1>8. Issued'
  <2> SUFFICES ASSUME NEW c \in Conns
               PROVE  /\ authenticated_connections'[c] # None =>
                           authenticated_connections'[c] = handle'[c]
                      /\ handle'[c] # None => c < next_connection_id'
    BY DEF Issued
  <2>1. CASE c = n
    BY <1>2, <1>3, <1>4, <2>1
  <2>2. CASE c # n
    <3>1. /\ authenticated_connections'[c] = authenticated_connections[c]
          /\ handle'[c] = handle[c]
      BY <1>3, <1>4, <2>2
    <3>2. handle[c] # None => c < n
      BY <1>1 DEF Issued, n
    <3> QED BY <1>1, <1>2, <1>3, <3>1, <3>2 DEF Issued
  <2> QED BY <2>1, <2>2
<1>9. Attaching'
  BY <1>1 DEF Attaching, IsPending
<1>10. Counted'
  <2>1. s # None
    BY ManagerNone
  <2>2. Bound(authenticated_connections') = A \cup {n}
    BY <1>2, <1>3, <1>4, <2>1 DEF Bound
  <2>3. A \in SUBSET Conns /\ n \notin A
    BY <1>5 DEF Bound
  <2>4. ~(Cardinality(A) >= M)
    BY DEF ConnectionCapacity
  <2> HIDE DEF A, M
  <2>5. Cardinality(A) \in Nat /\ Cardinality(A \cup {n}) = Cardinality(A) + 1
    BY <2>3, CountedSets, FS_AddElement
  <2>6. M \in Nat
    BY ManagerBounds, PathBounds DEF M
  <2>7. Cardinality(A \cup {n}) <= M
    BY <2>4, <2>5, <2>6
  <2>8. Cardinality(Bound(authenticated_connections')) <= MaxSessions * MaxPaths
    BY <2>2, <2>7 DEF M
  <2>9. Cardinality(Bound(pending_connections')) <= MaxPending
    BY <1>1 DEF Counted
  <2> QED BY <2>8, <2>9 DEF Counted
<1> QED BY <1>6, <1>7, <1>8, <1>9, <1>10 DEF IndInv

LEMMA BindKept ==
  ASSUME IndInv, NEW s \in Sessions, NEW t \in Nat, Bind(s, t),
         UNCHANGED <<now, attach, admissions>>,
         grant' \in [Tasks -> Grant \cup {None}]
  PROVE  Kept
<1>1. Held /\ SessionsCounted
  BY DEF IndInv, Counted
<1>2. CASE /\ Remove({s}, sessions, pending_connections)
           /\ UNCHANGED <<next_connection_id, handle>>
  <2>1. Held'
    BY <1>1, <1>2, RemoveHeld DEF Held
  <2>2. SessionsCounted'
    BY <1>1, <1>2, ShrinkSessions DEF Remove
  <2> QED BY <1>2, <2>1, <2>2, RemoveStep, CalmKept
<1>3. CASE /\ s \in Live /\ ~ConnectionCapacity /\ Authenticate(s)
           /\ UNCHANGED <<sessions, connections, pending_connections, owed>>
  <2>1. Agree(sessions', connections, pending_connections, authenticated_connections)
    BY <1>3 DEF IndInv
  <2>2. SessionsCounted'
    BY <1>1, <1>3, ShrinkSessions
  <2>3. admissions' \in [Sessions -> Admission \cup {None}] /\ sessions'[s] # None
    BY <1>1, <1>3 DEF Held, Live
  <2>4. IndInv'
    BY <1>3, <2>1, <2>2, <2>3, AuthenticateStep
  <2>5. Calm(sessions, sessions')
    BY <1>3 DEF Calm
  <2> QED BY <2>4, <2>5, CalmKept
<1>4. CASE UNCHANGED <<sessions, bindings, next_connection_id, handle, owed>>
  <2>1. Held' /\ SessionsCounted'
    BY <1>1, <1>4, ShrinkSessions DEF Held
  <2>2. IndInv'
    BY <1>4, <2>1, ShrinkStep DEF IndInv, bindings
  <2>3. Calm(sessions, sessions')
    BY <1>4 DEF Calm
  <2> QED BY <2>2, <2>3, CalmKept
<1> QED BY <1>2, <1>3, <1>4 DEF Bind

LEMMA CommitAdmissionAndBindKept ==
  ASSUME IndInv, NEW l \in Tasks, NEW t \in Captured, CommitAdmissionAndBind(l, t)
  PROVE  Kept
<1> DEFINE g == grant[l]
           s == g.session
<1>1. Held /\ SessionsCounted /\ t \in Nat
  BY DEF IndInv, Counted, Captured, Held
<1>2. g # None /\ grant' = [grant EXCEPT ![l] = None] /\ UNCHANGED <<now, attach>>
  BY DEF CommitAdmissionAndBind
<1>3. g \in Grant
  BY <1>1, <1>2 DEF Held
<1>4. s \in Sessions /\ g.dev \in Devices /\ g.exp \in Nat
  BY <1>3 DEF Grant
<1>5. grant' \in [Tasks -> Grant \cup {None}]
  BY <1>1, <1>2 DEF Held
<1>6. CASE ~g.creates
  <2>1. Bind(s, t) /\ UNCHANGED admissions
    BY <1>6 DEF CommitAdmissionAndBind
  <2> HIDE DEF s
  <2> QED BY <1>1, <1>2, <1>4, <1>5, <2>1, BindKept
<1>7. CASE g.creates
  <2>1. /\ admissions' = [admissions EXCEPT ![s] = None]
        /\ \/ UNCHANGED <<sessions, bindings, next_connection_id, handle, owed>>
           \/ /\ Remove({s}, sessions, pending_connections)
              /\ UNCHANGED <<next_connection_id, handle>>
           \/ /\ Matches(g) /\ ~ConnectionCapacity
              /\ Authenticate(s)
              /\ sessions' = [sessions EXCEPT ![s] = NewSession(g.dev, g.exp, t)]
              /\ UNCHANGED <<connections, pending_connections, owed>>
    BY <1>7 DEF CommitAdmissionAndBind
  <2>2. admissions[s] # None <=> s \in Reserved
    BY <1>4 DEF Reserved
  <2>3. Matches(g) => admissions[s] # None
    BY <1>4, ManagerNone DEF Matches, Admission
  <2> HIDE DEF s, g
  <2>4. /\ admissions' \in [Sessions -> Admission \cup {None}]
        /\ \A r \in Sessions : admissions'[r] = IF r = s THEN None ELSE admissions[r]
    BY <1>1, <2>1 DEF Held
  <2>5. CASE UNCHANGED <<sessions, bindings, next_connection_id, handle, owed>>
    <3>1. Held' /\ SessionsCounted'
      BY <1>1, <1>2, <1>5, <2>4, <2>5, ShrinkSessions DEF Held
    <3>2. IndInv'
      BY <1>2, <2>5, <3>1, ShrinkStep DEF IndInv, bindings
    <3>3. Calm(sessions, sessions')
      BY <2>5 DEF Calm
    <3> QED BY <3>2, <3>3, CalmKept
  <2>6. CASE /\ Remove({s}, sessions, pending_connections)
             /\ UNCHANGED <<next_connection_id, handle>>
    <3>1. Held'
      BY <1>1, <1>2, <1>4, <1>5, <2>4, <2>6, RemoveHeld DEF Held
    <3>2. SessionsCounted'
      BY <1>1, <2>4, <2>6, ShrinkSessions DEF Remove
    <3> QED BY <1>2, <1>4, <2>6, <3>1, <3>2, RemoveStep, CalmKept
  <2>7. CASE /\ Matches(g) /\ ~ConnectionCapacity
             /\ Authenticate(s)
             /\ sessions' = [sessions EXCEPT ![s] = NewSession(g.dev, g.exp, t)]
             /\ UNCHANGED <<connections, pending_connections, owed>>
    <3> DEFINE x == NewSession(g.dev, g.exp, t)
    <3>1. s \in Reserved /\ sessions[s] = None
      BY <1>1, <1>4, <2>2, <2>3, <2>7 DEF SessionsCounted, Live
    <3>2. Sound(x) /\ Present(x.paths) = {} /\ x # None
      BY <1>1, <1>4, NewSessionSound, SessionNone DEF Sound
    <3> HIDE DEF x
    <3>3. sessions' = [sessions EXCEPT ![s] = x]
      BY <2>7 DEF x
    <3>4. Agree(sessions', connections, pending_connections, authenticated_connections)
      BY <1>4, <3>1, <3>2, <3>3, CreateAgree DEF IndInv
    <3>5. \A r \in Sessions : sessions'[r] = IF r = s THEN x ELSE sessions[r]
      BY <3>3, MapsTyped
    <3>6. SessionsCounted'
      <4>1. Live' = Live \cup {s} /\ Reserved' = Reserved \ {s} /\ s \notin Live
        BY <1>4, <2>4, <3>1, <3>2, <3>5 DEF Live, Reserved
      <4>2. /\ Cardinality(Live') = Cardinality(Live) + 1
            /\ Cardinality(Reserved') = Cardinality(Reserved) - 1
            /\ Cardinality(Live) \in Nat /\ Cardinality(Reserved) \in Nat
        BY <3>1, <4>1, CountedSets, FS_AddElement, FS_RemoveElement
      <4>3. Cardinality(Live) + Cardinality(Reserved) <= MaxSessions
        BY <1>1 DEF SessionsCounted
      <4>4. Cardinality(Live') + Cardinality(Reserved') <= MaxSessions
        BY <4>2, <4>3, ManagerBounds
      <4>5. Live' \cap Reserved' = {}
        BY <1>1, <4>1 DEF SessionsCounted
      <4> QED BY <4>4, <4>5 DEF SessionsCounted
    <3>7. sessions'[s] # None
      BY <1>4, <3>2, <3>5
    <3>8. IndInv'
      BY <1>2, <1>4, <1>5, <2>4, <2>7, <3>4, <3>6, <3>7, AuthenticateStep
    <3>9. Calm(sessions, sessions')
      BY <3>1, <3>5 DEF Calm
    <3> QED BY <3>8, <3>9, CalmKept
  <2> QED BY <2>1, <2>5, <2>6, <2>7
<1> QED BY <1>6, <1>7

LEMMA AbortAdmissionKept ==
  ASSUME IndInv, NEW l \in Tasks, AbortAdmission(l)
  PROVE  Kept
<1>1. Held /\ SessionsCounted
  BY DEF IndInv, Counted
<1>2. /\ UNCHANGED <<now, sessions, bindings, next_connection_id, handle, attach, owed>>
      /\ grant' = [grant EXCEPT ![l] = None]
  BY DEF AbortAdmission
<1>3. /\ admissions' \in [Sessions -> Admission \cup {None}]
      /\ \A s \in Sessions : admissions'[s] # None => admissions[s] # None
  BY <1>1 DEF AbortAdmission, Held
<1>4. Held'
  BY <1>1, <1>2, <1>3 DEF Held
<1>5. SessionsCounted'
  BY <1>1, <1>2, <1>3, ShrinkSessions
<1>6. IndInv'
  BY <1>2, <1>4, <1>5, ShrinkStep DEF IndInv, bindings
<1>7. Calm(sessions, sessions')
  BY <1>2 DEF Calm
<1> QED BY <1>6, <1>7, CalmKept

\* A session that lives, before the pruning and after it.
LEMMA Pruned ==
  ASSUME IndInv, NEW t \in Nat
  PROVE  /\ Agree(SessionsAfter(t), connections, PendingAfter(t),
                  authenticated_connections)
         /\ \A s \in Sessions : SessionsAfter(t)[s] = None <=> sessions[s] = None
         /\ \A c \in Conns : PendingAfter(t)[c] # None =>
              PendingAfter(t)[c] = pending_connections[c]
         /\ Calm(sessions, SessionsAfter(t))
         /\ SessionsAfter(t) \in [Sessions -> Session \cup {None}]
         /\ PendingAfter(t) \in [Conns -> PendingAttach \cup {None}]
         /\ \A s \in Sessions : SessionsAfter(t)[s] # None => Sound(SessionsAfter(t)[s])
<1>1. Agree(sessions, connections, pending_connections, authenticated_connections)
  BY DEF IndInv
<1>2. /\ Agree(SessionsAfter(t), connections, PendingAfter(t),
               authenticated_connections)
      /\ \A s \in Sessions : SessionsAfter(t)[s] = None <=> sessions[s] = None
      /\ \A c \in Conns : PendingAfter(t)[c] # None =>
           PendingAfter(t)[c] = pending_connections[c]
      /\ Calm(sessions, SessionsAfter(t))
  BY <1>1, PruneAgree
<1> HIDE DEF SessionsAfter, PendingAfter
<1> QED BY <1>2 DEF Agree, Typed

\* The third outcome of reserve_attach: a path of c comes into session s.
LEMMA ReservedAgree ==
  ASSUME NEW base, NEW conn, NEW pend, NEW auth, Agree(base, conn, pend, auth),
         NEW s \in Sessions, base[s] # None, NEW c \in Conns, auth[c] = s,
         conn[c] = None, pend[c] = None,
         NEW t \in Nat, NEW pe \in Epochs, NEW ke \in Epochs, NEW e \in Nat,
         NEW x, Sound(x), x.paths = base[s].paths, MayReserve(x, c, t),
         NEW p \in Allocatable(x, pe, ke)
  PROVE  /\ p \in PathIds
         /\ Agree([base EXCEPT ![s] = ReservePath(x, c, p, pe, ke)], conn,
                  [pend EXCEPT ![c] = [session |-> s, path |-> p, pe |-> pe,
                                       ke |-> ke, exp |-> e]], auth)
<1> DEFINE y == ReservePath(x, c, p, pe, ke)
           b == [session |-> s, path |-> p, pe |-> pe, ke |-> ke, exp |-> e]
           new == [base EXCEPT ![s] = y]
           pend2 == [pend EXCEPT ![c] = b]
           entry == [conn |-> c, pe |-> pe, ke |-> ke, reserved |-> TRUE]
<1>1. p \in PathIds /\ x.paths[p] = None /\ x \in Session
  BY DEF Allocatable, Sound
<1>2. Sound(y)
  BY ReserveSound
<1>3. y.paths = [x.paths EXCEPT ![p] = entry] /\ x.paths \in [PathIds -> Path \cup {None}]
  BY <1>1 DEF ReservePath, Session
<1>4. Typed(base, conn, pend, auth)
  BY DEF Agree
<1>5. b \in PendingAttach
  BY <1>1 DEF PendingAttach
<1> HIDE DEF y
<1>6. Typed(base, conn, pend2, auth)
  BY <1>4, <1>5 DEF Typed
<1>7. /\ \A q \in PathIds \ {p} : y.paths[q] = base[s].paths[q]
      /\ y.paths[p] = entry
      /\ base[s].paths[p] = None
  BY <1>1, <1>3
<1>8. /\ \A d \in Conns \ {c} : pend2[d] = pend[d]
      /\ pend2[c] = b /\ b # None
  BY <1>4, <1>5, ManagerNone DEF Typed
<1>9. new[s] = y /\ y # None
  BY <1>2, <1>4, SessionNone DEF Typed, Sound
<1>10. entry = Entry(c, b, TRUE)
  BY DEF Entry
<1>11. /\ b.session = s /\ b.path = p /\ entry.reserved /\ entry.conn = c
  OBVIOUS
<1> HIDE DEF b, entry, new, pend2
<1>12. ConnOK(new, conn, pend2, auth, c)
  BY DEF ConnOK
<1>13. PendOK(new, pend2, auth, c)
  BY <1>7, <1>8, <1>9, <1>10, <1>11 DEF PendOK
<1>14. PathOK(new, conn, pend2, s, p)
  <2>1. new[s].paths[p] = entry /\ pend2[entry.conn] = b
    BY <1>7, <1>8, <1>9, <1>11
  <2>2. entry = Entry(entry.conn, pend2[entry.conn], TRUE)
    BY <1>10, <1>11, <2>1
  <2> QED BY <1>8, <1>11, <2>1, <2>2 DEF PathOK
<1>15. Agree(new, conn, pend2, auth)
  <2> DEFINE P == {p}
  <2>1. /\ P \in SUBSET PathIds
        /\ \A q \in P : base[s].paths[q] # None => base[s].paths[q].conn = c
        /\ \A q \in PathIds \ P : y.paths[q] = base[s].paths[q]
        /\ \A q \in P : PathOK(new, conn, pend2, s, q)
    BY <1>1, <1>7, <1>14
  <2>2. /\ conn[c] # None => conn[c].session = s /\ conn[c].path \in P
        /\ pend[c] # None => pend[c].session = s /\ pend[c].path \in P
        /\ \A d \in Conns \ {c} :
             conn[d] = conn[d] /\ pend2[d] = pend[d] /\ auth[d] = auth[d]
        /\ auth[c] # None => auth[c] = auth[c]
    BY <1>8
  <2>3. /\ ConnOK([base EXCEPT ![s] = y], conn, pend2, auth, c)
        /\ PendOK([base EXCEPT ![s] = y], pend2, auth, c)
        /\ \A q \in P : PathOK([base EXCEPT ![s] = y], conn, pend2, s, q)
    BY <1>12, <1>13, <2>1 DEF new
  <2> HIDE DEF P
  <2>4. Edited(base, conn, pend, auth, s, c, P, y, conn, pend2, auth)
    BY <1>2, <1>6, <2>1, <2>2 DEF Edited
  <2>5. Agree([base EXCEPT ![s] = y], conn, pend2, auth)
    BY <2>3, <2>4, EditAgree
  <2> QED BY <2>5 DEF new
<1> QED BY <1>1, <1>15 DEF new, pend2, b, y

\* A reserved path carries epochs above those its identifier had.
LEMMA ReservedAdvances ==
  ASSUME NEW old, NEW base, Calm(old, base),
         \A r \in Sessions : old[r] # None => Sound(old[r]),
         base \in [Sessions -> Session \cup {None}],
         NEW s \in Sessions, NEW c, NEW pe \in Epochs, NEW ke \in Epochs,
         NEW x \in Session, x.paths = base[s].paths, x.history = base[s].history,
         base[s] # None, NEW p \in Allocatable(x, pe, ke)
  PROVE  Advances(old, [base EXCEPT ![s] = ReservePath(x, c, p, pe, ke)])
<1> DEFINE y == ReservePath(x, c, p, pe, ke)
           new == [base EXCEPT ![s] = y]
<1>1. Advances(old, base)
  BY CalmAdvances
<1>2. p \in PathIds /\ (x.history[p] # None => pe > x.history[p].pe /\ ke > x.history[p].ke)
  BY DEF Allocatable
<1>3. /\ y.history = [x.history EXCEPT ![p] = [pe |-> pe, ke |-> ke]]
      /\ y.paths = [x.paths EXCEPT ![p] =
                      [conn |-> c, pe |-> pe, ke |-> ke, reserved |-> TRUE]]
      /\ x.history \in [PathIds -> PathEpochs \cup {None}]
      /\ x.paths \in [PathIds -> Path \cup {None}]
  BY DEF ReservePath, Session
<1> HIDE DEF y
<1>4. \A r \in Sessions : new[r] = IF r = s THEN y ELSE base[r]
  OBVIOUS
<1> HIDE DEF new
<1> SUFFICES ASSUME NEW r \in Sessions, old[r] # None, new[r] # None,
                    NEW q \in Present(old[r].history)
             PROVE  /\ new[r].history[q] # None
                    /\ new[r].history[q].pe >= old[r].history[q].pe
                    /\ new[r].history[q].ke >= old[r].history[q].ke
                    /\ old[r].paths[q] = None /\ new[r].paths[q] # None =>
                         /\ new[r].paths[q].pe > old[r].history[q].pe
                         /\ new[r].paths[q].ke > old[r].history[q].ke
  BY DEF Advances, new, y
<1>5. q \in PathIds /\ old[r].history[q] # None
  BY DEF Present
<1>6. CASE r = s /\ q = p
  <2>1. old[r].history = x.history
    BY <1>6 DEF Calm
  <2>2. /\ new[r].history[q] = [pe |-> pe, ke |-> ke]
        /\ new[r].paths[q] = [conn |-> c, pe |-> pe, ke |-> ke, reserved |-> TRUE]
    BY <1>2, <1>3, <1>4, <1>6
  <2>3. x.history[p] # None /\ x.history[p] \in PathEpochs
    BY <1>2, <1>3, <1>5, <1>6, <2>1
  <2>4. /\ pe > x.history[p].pe /\ ke > x.history[p].ke
        /\ pe \in Nat /\ ke \in Nat /\ x.history[p].pe \in Nat /\ x.history[p].ke \in Nat
    BY <1>2, <2>3, EpochsAssumption DEF PathEpochs
  <2>5. [pe |-> pe, ke |-> ke] # None
    BY SessionNone DEF PathEpochs
  <2> QED BY <1>6, <2>1, <2>2, <2>4, <2>5
<1>7. CASE ~(r = s /\ q = p)
  <2>1. base[r] # None
    BY <1>4
  <2>2. new[r].history[q] = base[r].history[q] /\ new[r].paths[q] = base[r].paths[q]
    BY <1>3, <1>4, <1>5, <1>7
  <2> QED BY <1>1, <2>1, <2>2 DEF Advances
<1> QED BY <1>6, <1>7

LEMMA ReserveAttachKept ==
  ASSUME IndInv, NEW c \in Conns, NEW pe \in Epochs, NEW ke \in Epochs,
         NEW t \in Captured, ReserveAttach(c, pe, ke, t)
  PROVE  Kept
<1> DEFINE pending == PendingAfter(t)
           base == SessionsAfter(t)
           s == handle[c]
           x == PrunePathTombstones(base[s], t)
           early == \/ ~Valid(c)
                    \/ connections[c] # None \/ pending[c] # None
                    \/ Cardinality(Bound(pending)) >= MaxPending
                    \/ s \notin Live
<1>1. /\ Held /\ Issued /\ Attaching /\ Counted /\ SessionsCounted /\ t \in Nat
      /\ handle \in [Conns -> Sessions \cup {None}]
  BY DEF IndInv, Counted, Captured, Held
<1>2. /\ Agree(base, connections, pending, authenticated_connections)
      /\ \A r \in Sessions : base[r] = None <=> sessions[r] = None
      /\ \A d \in Conns : pending[d] # None => pending[d] = pending_connections[d]
      /\ Calm(sessions, base)
      /\ base \in [Sessions -> Session \cup {None}]
      /\ pending \in [Conns -> PendingAttach \cup {None}]
      /\ \A r \in Sessions : base[r] # None => Sound(base[r])
  BY <1>1, Pruned
<1>3. /\ Calls(c)
      /\ UNCHANGED <<now, admissions, connections, authenticated_connections,
                     next_connection_id, grant, handle, owed>>
      /\ \/ early /\ sessions' = base /\ pending_connections' = pending
                  /\ UNCHANGED attach
         \/ ~early /\ sessions' = [base EXCEPT ![s] = x]
                   /\ pending_connections' = pending /\ UNCHANGED attach
         \/ /\ ~early
            /\ \E p \in PathIds :
                 /\ MayReserve(x, c, t) /\ p \in Allocatable(x, pe, ke)
                 /\ sessions' = [base EXCEPT ![s] = ReservePath(x, c, p, pe, ke)]
                 /\ pending_connections' = [pending EXCEPT
                      ![c] = [session |-> s, path |-> p, pe |-> pe, ke |-> ke,
                              exp |-> t + PendingTTL]]
                 /\ attach' = [attach EXCEPT
                      ![c] = [session |-> s, path |-> p, pe |-> pe, ke |-> ke]]
  BY DEF ReserveAttach, IsAllocated
<1> HIDE DEF pending, base
<1>4. ~early => /\ s \in Sessions /\ base[s] # None
                /\ authenticated_connections[c] = s
                /\ connections[c] = None /\ pending[c] = None
                /\ Cardinality(Bound(pending)) < MaxPending
  <2>1. ~early => s \in Live /\ s \in Sessions
    BY DEF Live
  <2>2. Cardinality(Bound(pending)) \in Nat /\ MaxPending \in Nat
    BY CountedSets, ManagerBounds
  <2> QED BY <1>2, <2>1, <2>2 DEF Valid, Live
<1>5. ~early => Sound(x) /\ x.paths = base[s].paths /\ x.history = base[s].history
                /\ x \in Session
  BY <1>1, <1>2, <1>4, PruneSound DEF Sound
<1> HIDE DEF s, x, early
<1>6. CASE early /\ sessions' = base /\ pending_connections' = pending
                 /\ UNCHANGED attach
  <2>1. Held' /\ SessionsCounted'
    BY <1>1, <1>2, <1>3, <1>6, ShrinkSessions DEF Held
  <2>2. IndInv'
    BY <1>2, <1>3, <1>6, <2>1, ShrinkStep
  <2> QED BY <1>2, <1>6, <2>2, CalmKept
<1>7. CASE ~early /\ sessions' = [base EXCEPT ![s] = x]
                  /\ pending_connections' = pending /\ UNCHANGED attach
  <2>1. \A r \in Sessions : sessions'[r] = IF r = s THEN x ELSE base[r]
    BY <1>2, <1>7
  <2>2. x # None
    BY <1>5, <1>7, SessionNone
  <2>3. \A r \in Sessions : sessions'[r] = None <=> sessions[r] = None
    BY <1>2, <1>4, <1>7, <2>1, <2>2
  <2>4. Held' /\ SessionsCounted'
    BY <1>1, <1>3, <1>7, <2>3, ShrinkSessions DEF Held
  <2>5. Agree([base EXCEPT ![s] = x], connections, pending, authenticated_connections)
    BY <1>2, <1>4, <1>5, <1>7, ReplaceAgree
  <2>6. Agree(sessions', connections', pending_connections', authenticated_connections')
    BY <1>3, <1>7, <2>5
  <2>7. IndInv'
    BY <1>2, <1>3, <1>7, <2>4, <2>6, ShrinkStep
  <2>8. Calm(sessions, sessions')
    BY <1>2, <1>5, <1>7, <2>1 DEF Calm
  <2> QED BY <2>7, <2>8, CalmKept
<1>8. ASSUME ~early, NEW p \in PathIds,
             MayReserve(x, c, t), p \in Allocatable(x, pe, ke),
             sessions' = [base EXCEPT ![s] = ReservePath(x, c, p, pe, ke)],
             pending_connections' = [pending EXCEPT
               ![c] = [session |-> s, path |-> p, pe |-> pe, ke |-> ke,
                       exp |-> t + PendingTTL]],
             attach' = [attach EXCEPT
               ![c] = [session |-> s, path |-> p, pe |-> pe, ke |-> ke]]
      PROVE  Kept
  <2> DEFINE e == t + PendingTTL
             b == [session |-> s, path |-> p, pe |-> pe, ke |-> ke, exp |-> e]
             r == [session |-> s, path |-> p, pe |-> pe, ke |-> ke]
             y == ReservePath(x, c, p, pe, ke)
  <2>1. e \in Nat
    BY <1>1, ManagerBounds
  <2>2. Agree([base EXCEPT ![s] = y], connections, [pending EXCEPT ![c] = b],
              authenticated_connections)
    <3> HIDE DEF e
    <3> QED BY <1>1, <1>2, <1>4, <1>5, <1>8, <2>1, ReservedAgree
  <2>3. Agree(sessions', connections', pending_connections', authenticated_connections')
    BY <1>3, <1>8, <2>2
  <2>4. Advances(sessions, sessions')
    BY <1>2, <1>4, <1>5, <1>8, MapsTyped, ReservedAdvances
  <2>5. r \in Binding /\ r # None /\ b # None
    <3>1. r \in Binding /\ b \in PendingAttach
      BY <1>4, <1>8, <2>1 DEF Binding, PendingAttach
    <3> QED BY <3>1, ManagerNone
  <2>6. /\ attach' = [attach EXCEPT ![c] = r]
        /\ pending_connections' = [pending EXCEPT ![c] = b]
    BY <1>8
  <2>7. /\ b.session = r.session /\ b.path = r.path /\ b.pe = r.pe /\ b.ke = r.ke
    OBVIOUS
  <2>8. y # None
    <3>1. Sound(y)
      BY <1>1, <1>5, <1>8, ReserveSound
    <3> QED BY <3>1, SessionNone DEF Sound
  <2>9. sessions' = [base EXCEPT ![s] = y]
    BY <1>8
  <2> HIDE DEF b, r, e, y
  <2>10. Held'
    BY <1>1, <1>3, <2>5, <2>6 DEF Held
  <2>11. Issued'
    BY <1>1, <1>3 DEF Issued
  <2>12. Attaching'
    <3> SUFFICES ASSUME NEW d \in Conns, pending_connections'[d] # None
                 PROVE  attach'[d] # None /\ IsPending(d, attach[d])'
      BY DEF Attaching
    <3>1. CASE d = c
      <4>1. attach'[d] = r /\ pending_connections'[d] = b
        BY <1>1, <1>2, <2>6, <3>1 DEF Held
      <4> QED BY <2>5, <2>7, <4>1 DEF IsPending
    <3>2. CASE d # c
      <4>1. attach'[d] = attach[d] /\ pending_connections'[d] = pending_connections[d]
        BY <1>1, <1>2, <2>6, <3>2 DEF Held
      <4>2. attach[d] # None /\ IsPending(d, attach[d])
        BY <1>1, <4>1 DEF Attaching
      <4> QED BY <4>1, <4>2 DEF IsPending
    <3> QED BY <3>1, <3>2
  <2>13. Counted'
    <3> DEFINE B == Bound(pending)
    <3>1. Bound(pending_connections') = B \cup {c} /\ B \in SUBSET Conns /\ c \notin B
      BY <1>2, <1>4, <1>8, <2>5, <2>6 DEF Bound
    <3> HIDE DEF B
    <3>2. Cardinality(B) \in Nat /\ Cardinality(B \cup {c}) = Cardinality(B) + 1
      BY <3>1, CountedSets, FS_AddElement
    <3>3. Cardinality(B) < MaxPending /\ MaxPending \in Nat
      BY <1>4, <1>8, ManagerBounds DEF B
    <3>4. Cardinality(Bound(pending_connections')) <= MaxPending
      BY <3>1, <3>2, <3>3
    <3>5. \A q \in Sessions : sessions'[q] = IF q = s THEN y ELSE base[q]
      BY <1>2, <2>9
    <3>6. \A q \in Sessions : sessions'[q] = None <=> sessions[q] = None
      BY <1>2, <1>4, <1>8, <2>8, <3>5
    <3>7. SessionsCounted'
      BY <1>1, <1>3, <3>6, ShrinkSessions
    <3>8. Cardinality(Bound(authenticated_connections')) <= MaxSessions * MaxPaths
      BY <1>1, <1>3 DEF Counted
    <3> QED BY <3>4, <3>7, <3>8 DEF Counted
  <2>14. IndInv'
    BY <2>3, <2>10, <2>11, <2>12, <2>13 DEF IndInv
  <2> QED BY <2>4, <2>14 DEF Kept
<1> QED BY <1>3, <1>6, <1>7, <1>8

\* Committing a path changes its flag alone.
LEMMA CommitEntry ==
  ASSUME NEW c, NEW b, NEW old, NEW new
  PROVE  [Entry(c, b, old) EXCEPT !.reserved = new] = Entry(c, b, new)
BY DEF Entry

\* A reserved path and its pending attach become a committed path and a binding.
LEMMA CommitAgree ==
  ASSUME NEW sess, NEW conn, NEW pend, NEW auth, Agree(sess, conn, pend, auth),
         NEW c \in Conns, pend[c] # None, NEW r \in Binding,
         r.session = pend[c].session, r.path = pend[c].path,
         r.pe = pend[c].pe, r.ke = pend[c].ke
  PROVE  /\ r.session \in Sessions /\ sess[r.session] # None
         /\ IsReservation(sess[r.session], c, r)
         /\ Agree([sess EXCEPT ![r.session] = CommitPath(sess[r.session], r.path)],
                  [conn EXCEPT ![c] = r], [pend EXCEPT ![c] = None], auth)
         /\ Calm(sess, [sess EXCEPT ![r.session] =
                          CommitPath(sess[r.session], r.path)])
<1> DEFINE s == r.session
           p == r.path
           y == CommitPath(sess[s], p)
           new == [sess EXCEPT ![s] = y]
           conn2 == [conn EXCEPT ![c] = r]
           pend2 == [pend EXCEPT ![c] = None]
           P == {p}
<1>1. s \in Sessions /\ p \in PathIds /\ r # None /\ r.pe \in Epochs /\ r.ke \in Epochs
  BY ManagerNone DEF Binding
<1>2. Typed(sess, conn, pend, auth)
  BY DEF Agree
<1>3. /\ auth[c] = s /\ sess[s] # None /\ sess[s].paths[p] = Entry(c, r, TRUE)
      /\ conn[c] = None
  <2>1. PendOK(sess, pend, auth, c) /\ ConnOK(sess, conn, pend, auth, c)
    BY DEF Agree
  <2> QED BY <2>1 DEF PendOK, ConnOK, Entry
<1>4. /\ Entry(c, r, TRUE) # None /\ Entry(c, r, FALSE) # None
      /\ Entry(c, r, TRUE).conn = c /\ Entry(c, r, FALSE).conn = c
      /\ ~Entry(c, r, FALSE).reserved
      /\ [Entry(c, r, TRUE) EXCEPT !.reserved = FALSE] = Entry(c, r, FALSE)
  <2>1. Entry(c, r, TRUE) # None /\ Entry(c, r, FALSE) # None
    BY <1>1, PathEntry
  <2>2. Entry(c, r, TRUE).conn = c /\ Entry(c, r, FALSE).conn = c
    BY DEF Entry
  <2>3. ~Entry(c, r, FALSE).reserved
    BY DEF Entry
  <2>4. [Entry(c, r, TRUE) EXCEPT !.reserved = FALSE] = Entry(c, r, FALSE)
    <3> DEFINE tt == TRUE
               ff == FALSE
    <3> HIDE DEF tt, ff
    <3>1. [Entry(c, r, tt) EXCEPT !.reserved = ff] = Entry(c, r, ff)
      BY CommitEntry
    <3> QED BY <3>1 DEF tt, ff
  <2> QED BY <2>1, <2>2, <2>3, <2>4, Zenon
<1>5. IsReservation(sess[s], c, r)
  BY <1>3, <1>4 DEF IsReservation, Entry
<1>6. Sound(sess[s]) /\ sess[s].paths \in [PathIds -> Path \cup {None}]
  BY <1>1, <1>2, <1>3 DEF Agree, Typed, Session
<1>7. /\ Sound(y) /\ y.history = sess[s].history
      /\ y.paths = [sess[s].paths EXCEPT ![p].reserved = FALSE]
  BY <1>1, <1>3, <1>4, <1>6, CommitSound
<1> HIDE DEF y, s, p
<1>8. /\ y.paths[p] = Entry(c, r, FALSE)
      /\ \A q \in PathIds \ P : y.paths[q] = sess[s].paths[q]
  BY <1>1, <1>3, <1>4, <1>6, <1>7
<1>9. /\ \A d \in Conns \ {c} : conn2[d] = conn[d] /\ pend2[d] = pend[d]
      /\ conn2[c] = r /\ pend2[c] = None
      /\ \A q \in Sessions : new[q] = IF q = s THEN y ELSE sess[q]
  BY <1>2 DEF Typed
<1>10. Typed(sess, conn2, pend2, auth)
  BY <1>2 DEF Typed
<1>11. y # None
  BY <1>7, SessionNone DEF Sound
<1> HIDE DEF new, conn2, pend2, P
<1>12. P \in SUBSET PathIds /\ p \in P /\ \A q \in P : q = p
  BY <1>1 DEF P
<1>13. r.session = s /\ r.path = p
  BY DEF s, p
<1>14. Edited(sess, conn, pend, auth, s, c, P, y, conn2, pend2, auth)
  BY <1>1, <1>3, <1>4, <1>7, <1>8, <1>9, <1>10, <1>12, <1>13 DEF Edited
<1>15. ConnOK(new, conn2, pend2, auth, c)
  <2>1. new[r.session].paths[r.path] = Entry(c, r, FALSE) /\ new[r.session] # None
    BY <1>1, <1>8, <1>9, <1>11, <1>13
  <2> QED BY <1>3, <1>9, <1>13, <2>1 DEF ConnOK
<1>16. PendOK(new, pend2, auth, c)
  BY <1>9 DEF PendOK
<1>17. PathOK(new, conn2, pend2, s, p)
  <2>1. new[s].paths[p] = Entry(c, r, FALSE)
    BY <1>1, <1>8, <1>9
  <2> DEFINE e == Entry(c, r, FALSE)
  <2>2. ~e.reserved /\ e.conn = c /\ e = Entry(e.conn, conn2[e.conn], FALSE)
    BY <1>4, <1>9
  <2>3. new[s].paths[p] = e /\ conn2[e.conn] = r
    BY <1>9, <2>1, <2>2
  <2> HIDE DEF e
  <2> QED BY <1>1, <1>13, <2>2, <2>3 DEF PathOK
<1>18. Agree(new, conn2, pend2, auth)
  <2>1. \A q \in P : PathOK(new, conn2, pend2, s, q)
    BY <1>12, <1>17
  <2> QED BY <1>14, <1>15, <1>16, <2>1, EditAgree DEF new
<1>19. Calm(sess, new)
  <2>1. \A q \in PathIds : y.paths[q] # None => sess[s].paths[q] # None
    BY <1>3, <1>4, <1>8, <1>12
  <2> QED BY <1>7, <1>9, <2>1 DEF Calm
<1> QED BY <1>1, <1>3, <1>5, <1>18, <1>19 DEF new, conn2, pend2, y, s, p

\* The capability of c goes, or nothing does.
Dropped(auth, auth2, c) ==
  /\ auth2 \in [Conns -> Sessions \cup {None}]
  /\ \A d \in Conns \ {c} : auth2[d] = auth[d]
  /\ auth2[c] # None => auth2[c] = auth[c]

\* A committed path goes with its binding, and perhaps with the capability.
LEMMA DetachAgree ==
  ASSUME NEW sess, NEW conn, NEW pend, NEW auth, Agree(sess, conn, pend, auth),
         NEW c \in Conns, conn[c] # None, NEW t \in Nat,
         NEW auth2, Dropped(auth, auth2, c),
         NEW s, s = conn[c].session,
         NEW y, y = Detach(sess[s], conn[c].path, c, conn[c].pe, t)
  PROVE  /\ s \in Sessions /\ sess[s] # None /\ pend[c] = None
         /\ Agree([sess EXCEPT ![s] = y], [conn EXCEPT ![c] = None], pend, auth2)
         /\ Calm(sess, [sess EXCEPT ![s] = y])
<1> DEFINE b == conn[c]
           p == b.path
           new == [sess EXCEPT ![s] = y]
           conn2 == [conn EXCEPT ![c] = None]
           P == {p}
<1>1. Typed(sess, conn, pend, auth)
  BY DEF Agree
<1>2. s \in Sessions /\ p \in PathIds /\ b.pe \in Epochs /\ b.ke \in Epochs
  BY <1>1 DEF Binding, Typed
<1>3. /\ sess[s] # None /\ sess[s].paths[p] = Entry(c, b, FALSE)
      /\ pend[c] = None
  <2>1. ConnOK(sess, conn, pend, auth, c)
    BY DEF Agree
  <2> QED BY <2>1 DEF ConnOK
<1>4. /\ Entry(c, b, FALSE) # None /\ Entry(c, b, FALSE).conn = c
      /\ ~Entry(c, b, FALSE).reserved /\ Entry(c, b, FALSE).pe = b.pe
  <2>1. Entry(c, b, FALSE) # None
    BY <1>2, PathEntry
  <2> QED BY <2>1 DEF Entry
<1>5. Sound(sess[s]) /\ sess[s].paths \in [PathIds -> Path \cup {None}]
  BY <1>1, <1>2, <1>3 DEF Agree, Typed, Session
<1> HIDE DEF p, b
<1>6. y = Detach(sess[s], p, c, b.pe, t)
  BY DEF p, b
<1>7. /\ Sound(y) /\ y.history = sess[s].history
      /\ y.paths = [sess[s].paths EXCEPT ![p] = None]
  <2> DEFINE x == sess[s]
             e == b.pe
             goes == /\ x.paths[p] # None /\ ~x.paths[p].reserved
                     /\ x.paths[p].conn = c /\ x.paths[p].pe = e
  <2>1. goes
    BY <1>3, <1>4
  <2>2. Sound(x) /\ y = Detach(x, p, c, e, t)
    BY <1>5, <1>6
  <2> HIDE DEF x, e
  <2>3. /\ Sound(y) /\ y.history = x.history
        /\ y.paths = IF goes THEN [x.paths EXCEPT ![p] = None] ELSE x.paths
    BY <1>2, <2>2, DetachSound
  <2> HIDE DEF goes
  <2>4. Sound(y) /\ y.history = x.history /\ y.paths = [x.paths EXCEPT ![p] = None]
    BY <2>1, <2>3
  <2> QED BY <2>4 DEF x
<1>8. /\ y.paths[p] = None
      /\ \A q \in PathIds \ P : y.paths[q] = sess[s].paths[q]
  BY <1>2, <1>5, <1>7
<1>9. /\ \A d \in Conns \ {c} : conn2[d] = conn[d] /\ auth2[d] = auth[d]
      /\ conn2[c] = None /\ (auth2[c] # None => auth2[c] = auth[c])
      /\ \A q \in Sessions : new[q] = IF q = s THEN y ELSE sess[q]
  BY <1>1 DEF Typed, Dropped
<1>10. Typed(sess, conn2, pend, auth2)
  BY <1>1 DEF Typed, Dropped
<1>11. conn[c].session = s /\ conn[c].path = p
  BY DEF p, b
<1> HIDE DEF new, conn2, P
<1>12. P \in SUBSET PathIds /\ p \in P /\ \A q \in P : q = p
  BY <1>2 DEF P
<1>13. Edited(sess, conn, pend, auth, s, c, P, y, conn2, pend, auth2)
  BY <1>2, <1>3, <1>4, <1>7, <1>8, <1>9, <1>10, <1>11, <1>12 DEF Edited
<1>14. ConnOK(new, conn2, pend, auth2, c) /\ PendOK(new, pend, auth2, c)
  BY <1>3, <1>9 DEF ConnOK, PendOK
<1>15. PathOK(new, conn2, pend, s, p)
  BY <1>2, <1>8, <1>9 DEF PathOK
<1>16. Agree(new, conn2, pend, auth2)
  <2>1. \A q \in P : PathOK(new, conn2, pend, s, q)
    BY <1>12, <1>15
  <2> QED BY <1>13, <1>14, <2>1, EditAgree DEF new
<1>17. Calm(sess, new)
  <2>1. \A q \in PathIds : y.paths[q] # None => sess[s].paths[q] # None
    BY <1>8, <1>12
  <2> QED BY <1>7, <1>9, <2>1 DEF Calm
<1> QED BY <1>2, <1>3, <1>16, <1>17 DEF new, conn2

\* A session changed in place, with the connection it goes with.
LEMMA EditStep ==
  ASSUME IndInv, Held',
         Agree(sessions', connections', pending_connections',
               authenticated_connections'),
         \A c \in Conns :
           /\ authenticated_connections'[c] # None =>
                authenticated_connections'[c] = authenticated_connections[c]
           /\ pending_connections'[c] # None =>
                /\ pending_connections'[c] = pending_connections[c]
                /\ attach'[c] = attach[c],
         UNCHANGED <<admissions, handle, next_connection_id>>,
         Calm(sessions, sessions'),
         \A s \in Sessions : sessions'[s] # None => sessions[s] # None
  PROVE  Kept
<1>1. SessionsCounted'
  BY ShrinkSessions DEF IndInv, Counted
<1>2. IndInv'
  BY <1>1, ShrinkStep
<1> QED BY <1>2, CalmKept

LEMMA CommitAttachKept ==
  ASSUME IndInv, NEW c \in Conns, CommitAttach(c)
  PROVE  Kept
<1> DEFINE r == attach[c]
           ok == /\ IsPending(c, r)
                 /\ sessions[r.session] # None
                 /\ IsReservation(sessions[r.session], c, r)
           y == CommitPath(sessions[r.session], r.path)
<1>1. /\ Held /\ Attaching
      /\ Agree(sessions, connections, pending_connections, authenticated_connections)
  BY DEF IndInv
<1>2. /\ r # None /\ attach' = [attach EXCEPT ![c] = None]
      /\ pending_connections' = [pending_connections EXCEPT ![c] = None]
      /\ sessions' = IF ok THEN [sessions EXCEPT ![r.session] = y] ELSE sessions
      /\ connections' = IF ok THEN [connections EXCEPT ![c] = r] ELSE connections
      /\ UNCHANGED <<now, admissions, authenticated_connections,
                     next_connection_id, grant, handle, owed>>
  BY DEF CommitAttach
<1>3. r \in Binding /\ attach \in [Conns -> Binding \cup {None}]
  BY <1>1, <1>2 DEF Held
<1>4. Held'
  BY <1>1, <1>2 DEF Held
<1>5. \A d \in Conns : /\ d # c => /\ attach'[d] = attach[d]
                                   /\ pending_connections'[d] = pending_connections[d]
                       /\ pending_connections'[c] = None
  BY <1>2, <1>3, MapsTyped
<1> HIDE DEF r
<1>6. CASE pending_connections[c] # None
  <2>1. IsPending(c, r)
    BY <1>1, <1>6 DEF Attaching, r
  <2>2. /\ r.session = pending_connections[c].session
        /\ r.path = pending_connections[c].path
        /\ r.pe = pending_connections[c].pe /\ r.ke = pending_connections[c].ke
    BY <2>1 DEF IsPending
  <2>3. /\ r.session \in Sessions /\ sessions[r.session] # None
        /\ IsReservation(sessions[r.session], c, r)
        /\ Agree([sessions EXCEPT ![r.session] = y], [connections EXCEPT ![c] = r],
                 [pending_connections EXCEPT ![c] = None], authenticated_connections)
        /\ Calm(sessions, [sessions EXCEPT ![r.session] = y])
    BY <1>1, <1>3, <1>6, <2>2, CommitAgree
  <2>4. ok
    BY <2>1, <2>3
  <2> HIDE DEF ok, y
  <2>5. /\ Agree(sessions', connections', pending_connections',
                 authenticated_connections')
        /\ Calm(sessions, sessions')
    BY <1>2, <2>3, <2>4
  <2>6. \A s \in Sessions : sessions'[s] # None => sessions[s] # None
    BY <1>2, <2>3, <2>4, MapsTyped
  <2> QED BY <1>2, <1>4, <1>5, <2>5, <2>6, EditStep
<1>7. CASE pending_connections[c] = None
  <2>1. ~ok
    BY <1>7 DEF IsPending
  <2> HIDE DEF ok
  <2>2. sessions' = sessions /\ connections' = connections
    BY <1>2, <2>1
  <2>3. pending_connections' = pending_connections
    BY <1>2, <1>7, MapsTyped
  <2>4. Agree(sessions', connections', pending_connections',
              authenticated_connections')
    BY <1>1, <1>2, <2>2, <2>3
  <2>5. Calm(sessions, sessions')
    BY <2>2 DEF Calm
  <2> QED BY <1>2, <1>4, <1>5, <2>2, <2>4, <2>5, EditStep
<1> QED BY <1>6, <1>7

LEMMA DetachConnectionKept ==
  ASSUME IndInv, NEW c \in Conns, NEW t \in Captured, DetachConnection(c, t)
  PROVE  Kept
<1> DEFINE b == connections[c]
           s == b.session
           y == Detach(sessions[s], b.path, c, b.pe, t)
<1>1. /\ Held /\ t \in Nat
      /\ Agree(sessions, connections, pending_connections, authenticated_connections)
  BY DEF IndInv, Captured, Held
<1>2. /\ b # None /\ connections' = [connections EXCEPT ![c] = None]
      /\ sessions' = IF sessions[s] = None THEN sessions ELSE [sessions EXCEPT ![s] = y]
      /\ UNCHANGED <<now, admissions, pending_connections,
                     authenticated_connections, next_connection_id, held, owed>>
  BY DEF DetachConnection
<1>3. /\ s \in Sessions /\ sessions[s] # None
      /\ Agree([sessions EXCEPT ![s] = y], [connections EXCEPT ![c] = None],
               pending_connections, authenticated_connections)
      /\ Calm(sessions, [sessions EXCEPT ![s] = y])
  <2>1. Dropped(authenticated_connections, authenticated_connections, c)
    BY MapsTyped DEF Dropped
  <2>2. s \in Sessions /\ sessions[s] # None
    <3>1. s \in Sessions
      BY <1>2, MapsTyped DEF Binding
    <3>2. ConnOK(sessions, connections, pending_connections, authenticated_connections, c)
      BY <1>1 DEF Agree
    <3> QED BY <1>2, <3>1, <3>2 DEF ConnOK
  <2>3. /\ Agree([sessions EXCEPT ![s] = y], [connections EXCEPT ![c] = None],
                 pending_connections, authenticated_connections)
        /\ Calm(sessions, [sessions EXCEPT ![s] = y])
    <3>1. connections[c] # None
      BY <1>2
    <3>2. /\ s = connections[c].session
          /\ y = Detach(sessions[s], connections[c].path, c, connections[c].pe, t)
      OBVIOUS
    <3> HIDE DEF s, y
    <3> QED BY <1>1, <2>1, <3>1, <3>2, DetachAgree
  <2> QED BY <2>2, <2>3
<1> HIDE DEF y, s
<1>4. /\ Agree(sessions', connections', pending_connections',
               authenticated_connections')
      /\ Calm(sessions, sessions')
  BY <1>2, <1>3
<1>5. \A r \in Sessions : sessions'[r] # None => sessions[r] # None
  BY <1>2, <1>3, MapsTyped
<1>6. Held'
  BY <1>1, <1>2 DEF Held, held
<1> QED BY <1>2, <1>4, <1>5, <1>6, EditStep DEF held

\* A connection that is bound to nothing loses its capability.
LEMMA DropAgree ==
  ASSUME NEW sess, NEW conn, NEW pend, NEW auth, Agree(sess, conn, pend, auth),
         NEW c \in Conns, conn[c] = None, pend[c] = None
  PROVE  Agree(sess, conn, pend, [auth EXCEPT ![c] = None])
<1> DEFINE new == [auth EXCEPT ![c] = None]
<1>1. Typed(sess, conn, pend, auth)
  BY DEF Agree
<1>2. Typed(sess, conn, pend, new)
  BY <1>1 DEF Typed
<1>3. \A d \in Conns : new[d] = IF d = c THEN None ELSE auth[d]
  BY <1>1 DEF Typed
<1> HIDE DEF new
<1>4. ASSUME NEW d \in Conns
      PROVE  ConnOK(sess, conn, pend, new, d) /\ PendOK(sess, pend, new, d)
  <2>1. ConnOK(sess, conn, pend, auth, d) /\ PendOK(sess, pend, auth, d)
    BY DEF Agree
  <2> QED BY <1>3, <2>1 DEF ConnOK, PendOK
<1>5. \A d \in Conns : new[d] # None => sess[new[d]] # None
  BY <1>3 DEF Agree
<1>6. Agree(sess, conn, pend, new)
  BY <1>2, <1>4, <1>5 DEF Agree
<1> QED BY <1>6 DEF new

LEMMA CloseConnectionKept ==
  ASSUME IndInv, NEW c \in Conns, CloseConnection(c)
  PROVE  Kept
<1> DEFINE b == connections[c]
           auth2 == [authenticated_connections EXCEPT ![c] = None]
           s == b.session
           y == Detach(sessions[s], b.path, c, b.pe, sessions[s].last)
<1>1. /\ Held /\ Attaching
      /\ Agree(sessions, connections, pending_connections, authenticated_connections)
  BY DEF IndInv
<1>2. pending_connections[c] = None
  BY <1>1 DEF CloseConnection, Calls, Attaching
<1>3. /\ authenticated_connections' = auth2
      /\ pending_connections' = [pending_connections EXCEPT ![c] = None]
      /\ connections' = [connections EXCEPT ![c] = None]
      /\ UNCHANGED <<now, admissions, next_connection_id, held, owed>>
  BY <1>2 DEF CloseConnection
<1>9. b = None /\ None \notin Live => sessions' = sessions
  BY <1>2 DEF CloseConnection
<1>10. b # None /\ s \in Live => sessions' = [sessions EXCEPT ![s] = y]
  BY <1>2 DEF CloseConnection
<1>4. pending_connections' = pending_connections
  BY <1>2, <1>3, MapsTyped
<1>5. Held'
  BY <1>1, <1>3 DEF Held, held
<1>6. \A d \in Conns : auth2[d] # None => auth2[d] = authenticated_connections[d]
  BY MapsTyped
<1>7. CASE b = None
  <2>1. sessions' = sessions
    BY <1>7, <1>9, ManagerNone DEF Live
  <2>2. connections' = connections
    BY <1>3, <1>7, MapsTyped
  <2>3. Agree(sessions', connections', pending_connections',
              authenticated_connections')
    BY <1>1, <1>2, <1>3, <1>4, <1>7, <2>1, <2>2, DropAgree
  <2>4. Calm(sessions, sessions')
    BY <2>1 DEF Calm
  <2> HIDE DEF auth2
  <2> QED BY <1>3, <1>4, <1>5, <1>6, <2>1, <2>3, <2>4, EditStep DEF held
<1>8. CASE b # None
  <2>1. s \in Sessions /\ sessions[s] # None
    <3>1. s \in Sessions
      BY <1>8, MapsTyped DEF Binding
    <3>2. ConnOK(sessions, connections, pending_connections, authenticated_connections, c)
      BY <1>1 DEF Agree
    <3> QED BY <1>8, <3>1, <3>2 DEF ConnOK
  <2>2. sessions[s].last \in Nat
    BY <2>1, MapsTyped DEF Session
  <2>3. /\ Agree([sessions EXCEPT ![s] = y], [connections EXCEPT ![c] = None],
                 pending_connections, auth2)
        /\ Calm(sessions, [sessions EXCEPT ![s] = y])
    <3>1. Dropped(authenticated_connections, auth2, c)
      BY MapsTyped DEF Dropped
    <3> HIDE DEF auth2
    <3> QED BY <1>1, <1>8, <2>2, <3>1, DetachAgree
  <2> HIDE DEF y, s, auth2
  <2>4. sessions' = [sessions EXCEPT ![s] = y]
    BY <1>8, <1>10, <2>1 DEF Live
  <2>5. /\ Agree(sessions', connections', pending_connections',
                 authenticated_connections')
        /\ Calm(sessions, sessions')
    BY <1>3, <1>4, <2>3, <2>4
  <2>6. \A r \in Sessions : sessions'[r] # None => sessions[r] # None
    BY <2>1, <2>4, MapsTyped
  <2> QED BY <1>3, <1>4, <1>5, <1>6, <2>5, <2>6, EditStep DEF held
<1> QED BY <1>7, <1>8

\* A session that is only stamped, and nothing else.
LEMMA StampKept ==
  ASSUME IndInv, NEW s \in Sessions, sessions[s] # None,
         NEW x, Sound(x), x.paths = sessions[s].paths, x.history = sessions[s].history,
         sessions' = [sessions EXCEPT ![s] = x],
         UNCHANGED <<bindings, owed>>, Quiet
  PROVE  Kept
<1>1. /\ Held
      /\ Agree(sessions, connections, pending_connections, authenticated_connections)
  BY DEF IndInv
<1>2. Agree([sessions EXCEPT ![s] = x], connections, pending_connections,
            authenticated_connections)
  BY <1>1, ReplaceAgree
<1>3. Agree(sessions', connections', pending_connections', authenticated_connections')
  BY <1>2 DEF bindings
<1>4. Held'
  BY <1>1 DEF Held, Quiet, held
<1>5. \A r \in Sessions : sessions'[r] = IF r = s THEN x ELSE sessions[r]
  BY MapsTyped
<1>6. Calm(sessions, sessions')
  BY <1>5 DEF Calm
<1>7. \A r \in Sessions : sessions'[r] # None => sessions[r] # None
  BY <1>5
<1> QED BY <1>3, <1>4, <1>6, <1>7, EditStep DEF bindings, Quiet, held

\* A method that removes sessions and does nothing else.
LEMMA RemoveKept ==
  ASSUME IndInv, NEW S \in SUBSET Sessions, Remove(S, sessions, pending_connections),
         Quiet
  PROVE  Kept
<1>1. Held /\ SessionsCounted
  BY DEF IndInv, Counted
<1>2. Held'
  BY <1>1, RemoveHeld DEF Held, Quiet, held
<1>3. SessionsCounted'
  BY <1>1, ShrinkSessions DEF Remove, Quiet
<1>4. UNCHANGED <<handle, attach, next_connection_id>>
  BY DEF Quiet, held
<1> QED BY <1>2, <1>3, <1>4, RemoveStep, CalmKept

LEMMA TouchKept ==
  ASSUME IndInv, NEW s \in Sessions, NEW t \in Captured, NEW renews,
         Touch(s, t, renews), Quiet
  PROVE  Kept
<1>1. sessions[s] # None /\ t \in Nat
  BY DEF Touch, Live, Captured, IndInv, Held
<1>2. CASE Remove({s}, sessions, pending_connections)
  BY <1>2, RemoveKept
<1>3. CASE /\ sessions' = [sessions EXCEPT ![s].last = t]
           /\ UNCHANGED <<bindings, owed>>
  <2> DEFINE x == [sessions[s] EXCEPT !.last = t]
  <2>1. /\ Sound(x) /\ x.paths = sessions[s].paths /\ x.history = sessions[s].history
        /\ sessions' = [sessions EXCEPT ![s] = x]
    BY <1>1, <1>3, MapsTyped, StampSound
  <2> HIDE DEF x
  <2> QED BY <1>1, <1>3, <2>1, StampKept
<1> QED BY <1>2, <1>3 DEF Touch

LEMMA ActivityKept ==
  ASSUME IndInv, NEW c \in Conns, NEW t \in Captured,
         \/ ValidateIngress(c, t) \/ ValidateAttachedPath(c, t)
         \/ RecordAuthenticatedActivity(c, t)
  PROVE  Kept
<1>1. handle[c] # None => handle[c] \in Sessions
  BY DEF IndInv, Held
<1>2. connections[c] # None => connections[c].session \in Sessions
  BY MapsTyped DEF Binding
<1>3. CASE ValidateIngress(c, t) \/ ValidateAttachedPath(c, t)
  <2>1. /\ connections[c] # None /\ Quiet
        /\ Touch(connections[c].session, t, Healthy(connections[c]))
    BY <1>3 DEF ValidateIngress, ValidateAttachedPath
  <2> QED BY <1>2, <2>1, TouchKept
<1>4. CASE RecordAuthenticatedActivity(c, t)
  <2>1. handle[c] # None /\ Touch(handle[c], t, TRUE) /\ Quiet
    BY <1>4 DEF RecordAuthenticatedActivity, Calls
  <2> DEFINE renews == TRUE
  <2> HIDE DEF renews
  <2>2. Touch(handle[c], t, renews)
    BY <2>1 DEF renews
  <2> QED BY <1>1, <2>1, <2>2, TouchKept
<1> QED BY <1>3, <1>4

LEMMA BeginDrainingKept ==
  ASSUME IndInv, NEW s \in Sessions, BeginDraining(s)
  PROVE  Kept
<1>1. /\ sessions[s] # None /\ UNCHANGED <<bindings, owed>> /\ Quiet
      /\ sessions' = [sessions EXCEPT ![s].state = "Draining"]
  BY DEF BeginDraining, Live
<1> DEFINE x == [sessions[s] EXCEPT !.state = "Draining"]
<1>2. /\ Sound(x) /\ x.paths = sessions[s].paths /\ x.history = sessions[s].history
      /\ sessions' = [sessions EXCEPT ![s] = x]
  <2>1. 0 \in Nat
    OBVIOUS
  <2> QED BY <1>1, <2>1, MapsTyped, StampSound
<1> HIDE DEF x
<1> QED BY <1>1, <1>2, StampKept

LEMMA CloseKept ==
  ASSUME IndInv,
         \/ \E s \in Sessions : Close(s)
         \/ \E c \in Conns : CloseSession(c)
         \/ CloseAll
  PROVE  Kept
<1>1. CASE \E s \in Sessions : Close(s)
  BY <1>1, RemoveKept DEF Close
<1>2. CASE \E c \in Conns : CloseSession(c)
  <2>1. PICK c \in Conns : CloseSession(c)
    BY <1>2
  <2>2. handle[c] \in Sessions
    BY <2>1 DEF CloseSession, Live
  <2> QED BY <2>1, <2>2, RemoveKept DEF CloseSession
<1>3. CASE CloseAll
  <2>1. Live \in SUBSET Sessions
    BY CountedSets
  <2> QED BY <1>3, <2>1, RemoveKept DEF CloseAll
<1> QED BY <1>1, <1>2, <1>3

\* The tombstones of every session are pruned in the sweep.
LEMMA PruneAllAgree ==
  ASSUME NEW sess, NEW conn, NEW pend, NEW auth, Agree(sess, conn, pend, auth),
         NEW new, new \in [Sessions -> Session \cup {None}],
         \A s \in Sessions :
           /\ new[s] = None <=> sess[s] = None
           /\ new[s] # None => /\ Sound(new[s])
                               /\ new[s].paths = sess[s].paths
                               /\ new[s].history = sess[s].history
  PROVE  Agree(new, conn, pend, auth) /\ Calm(sess, new)
<1>1. Typed(sess, conn, pend, auth)
  BY DEF Agree
<1>2. Typed(new, conn, pend, auth)
  BY <1>1 DEF Typed
<1>3. ASSUME NEW s \in Sessions, NEW p \in PathIds PROVE PathOK(new, conn, pend, s, p)
  <2>1. PathOK(sess, conn, pend, s, p)
    BY DEF Agree
  <2>2. CASE new[s] = None
    BY <2>2 DEF PathOK
  <2>3. CASE new[s] # None
    <3>1. sess[s] # None /\ new[s].paths[p] = sess[s].paths[p]
      BY <2>3
    <3> QED BY <2>1, <3>1 DEF PathOK
  <2> QED BY <2>2, <2>3
<1>4. ASSUME NEW c \in Conns PROVE ConnOK(new, conn, pend, auth, c)
  <2>1. conn[c] # None => conn[c].session \in Sessions
    BY <1>1 DEF Typed, Binding
  <2>2. ConnOK(sess, conn, pend, auth, c)
    BY DEF Agree
  <2> QED BY <2>1, <2>2 DEF ConnOK
<1>5. ASSUME NEW c \in Conns PROVE PendOK(new, pend, auth, c)
  <2>1. pend[c] # None => pend[c].session \in Sessions
    BY <1>1 DEF Typed, PendingAttach
  <2>2. PendOK(sess, pend, auth, c)
    BY DEF Agree
  <2> QED BY <2>1, <2>2 DEF PendOK
<1>6. \A c \in Conns : auth[c] # None => new[auth[c]] # None
  BY <1>1 DEF Agree, Typed
<1>7. Agree(new, conn, pend, auth)
  BY <1>2, <1>3, <1>4, <1>5, <1>6 DEF Agree
<1>8. Calm(sess, new)
  BY DEF Calm
<1> QED BY <1>7, <1>8

LEMMA SweepKept ==
  ASSUME IndInv, NEW t \in Captured, Sweep(t)
  PROVE  Kept
<1> DEFINE base == SessionsAfter(t)
           pending == PendingAfter(t)
           gone == {s \in Live : IsExpired(sessions[s], t) \/ IsIdle(sessions[s], t)}
           kept == [s \in Sessions |-> IF base[s] = None THEN None
                                       ELSE PrunePathTombstones(base[s], t)]
<1>1. Held /\ SessionsCounted /\ t \in Nat
  BY DEF IndInv, Counted, Captured, Held
<1>2. /\ gone \in SUBSET Sessions /\ Remove(gone, kept, pending)
      /\ UNCHANGED <<now, next_connection_id, held>>
  BY DEF Sweep, Live
<1>3. /\ admissions' \in [Sessions -> Admission \cup {None}]
      /\ \A s \in Sessions : admissions'[s] # None => admissions[s] # None
  BY <1>1 DEF Sweep, Held
<1>4. /\ Agree(base, connections, pending, authenticated_connections)
      /\ \A s \in Sessions : base[s] = None <=> sessions[s] = None
      /\ \A c \in Conns : pending[c] # None => pending[c] = pending_connections[c]
      /\ Calm(sessions, base)
      /\ \A s \in Sessions : base[s] # None => Sound(base[s])
  BY <1>1, Pruned
<1> HIDE DEF base, pending, gone
<1>5. \A s \in Sessions : kept[s] = IF base[s] = None THEN None
                                    ELSE PrunePathTombstones(base[s], t)
  OBVIOUS
<1>6. ASSUME NEW s \in Sessions, base[s] # None
      PROVE  /\ kept[s] \in Session /\ kept[s] # None /\ Sound(kept[s])
             /\ kept[s].paths = base[s].paths /\ kept[s].history = base[s].history
  <2> DEFINE x == base[s]
  <2>1. Sound(x) /\ kept[s] = PrunePathTombstones(x, t)
    BY <1>4, <1>5, <1>6
  <2> HIDE DEF x, kept
  <2>2. Sound(kept[s]) /\ kept[s].paths = x.paths /\ kept[s].history = x.history
    BY <1>1, <2>1, PruneSound
  <2> QED BY <2>2, SessionNone DEF Sound, x
<1>7. kept \in [Sessions -> Session \cup {None}]
  BY <1>5, <1>6
<1> HIDE DEF kept
<1>8. Agree(kept, connections, pending, authenticated_connections) /\ Calm(base, kept)
  BY <1>4, <1>5, <1>6, <1>7, PruneAllAgree
<1>9. /\ Agree(sessions', connections', pending_connections',
               authenticated_connections')
      /\ \A s \in Sessions : sessions'[s] = IF s \in gone THEN None ELSE kept[s]
      /\ \A c \in Conns :
           /\ authenticated_connections'[c] # None =>
                authenticated_connections'[c] = authenticated_connections[c]
           /\ pending_connections'[c] # None => pending_connections'[c] = pending[c]
      /\ Calm(kept, sessions')
  BY <1>2, <1>8, RemoveAgree
<1>10. \A s \in Sessions : /\ sessions'[s] # None => kept[s] # None
                           /\ kept[s] # None => base[s] # None
                           /\ sessions'[s] # None => sessions[s] # None
  BY <1>4, <1>5, <1>9
<1>11. Calm(sessions, sessions')
  <2>1. Calm(sessions, kept)
    BY <1>4, <1>8, <1>10, CalmTransitive
  <2> QED BY <1>9, <1>10, <2>1, CalmTransitive
<1>12. Held' /\ SessionsCounted'
  BY <1>1, <1>2, <1>3, <1>10, ShrinkSessions, RemoveHeld DEF Held, held
<1>13. \A c \in Conns : pending_connections'[c] # None =>
         pending_connections'[c] = pending_connections[c] /\ attach'[c] = attach[c]
  BY <1>2, <1>4, <1>9 DEF held
<1>14. IndInv'
  BY <1>2, <1>9, <1>12, <1>13, ShrinkStep DEF held
<1> QED BY <1>11, <1>14, CalmKept

LEMMA IdleKept ==
  ASSUME IndInv, UNCHANGED <<sessions, admissions, bindings, next_connection_id, held>>,
         now' \in Nat, owed' \in [Sessions -> Nat]
  PROVE  Kept
<1>1. /\ Held
      /\ Agree(sessions, connections, pending_connections, authenticated_connections)
  BY DEF IndInv
<1>2. Held'
  BY <1>1 DEF Held, held
<1>3. Agree(sessions', connections', pending_connections', authenticated_connections')
  BY <1>1 DEF bindings
<1>4. Calm(sessions, sessions')
  BY DEF Calm
<1> QED BY <1>2, <1>3, <1>4, EditStep DEF bindings, held

LEMMA RunCleanupKept ==
  ASSUME IndInv, NEW s \in Sessions, RunCleanup(s)
  PROVE  Kept
<1>1. owed \in [Sessions -> Nat] /\ now \in Nat
  BY DEF IndInv, Held
<1>2. owed' \in [Sessions -> Nat] /\ now' \in Nat
  BY <1>1 DEF RunCleanup
<1> QED BY <1>2, IdleKept DEF RunCleanup

LEMMA TickKept ==
  ASSUME IndInv, Tick
  PROVE  Kept
<1>1. owed \in [Sessions -> Nat] /\ now \in Nat
  BY DEF IndInv, Held
<1> QED BY <1>1, IdleKept DEF Tick

LEMMA NextKept ==
  ASSUME IndInv, [Next]_vars
  PROVE  Kept
<1>1. CASE \E t \in Captured, l \in Tasks :
             \/ \E s \in Sessions, d \in Devices, exp \in Expiries :
                  ReserveAdmission(l, s, d, exp, t)
             \/ CommitAdmissionAndBind(l, t)
  BY <1>1, ReserveAdmissionKept, CommitAdmissionAndBindKept
<1>2. CASE \E t \in Captured, c \in Conns :
             \/ \E pe, ke \in Epochs : ReserveAttach(c, pe, ke, t)
             \/ DetachConnection(c, t)
             \/ ValidateIngress(c, t) \/ ValidateAttachedPath(c, t)
             \/ RecordAuthenticatedActivity(c, t)
  BY <1>2, ReserveAttachKept, DetachConnectionKept, ActivityKept
<1>3. CASE \E t \in Captured : Sweep(t)
  BY <1>3, SweepKept
<1>4. CASE \E l \in Tasks : AbortAdmission(l)
  BY <1>4, AbortAdmissionKept
<1>5. CASE \E c \in Conns : CommitAttach(c) \/ CloseConnection(c) \/ CloseSession(c)
  BY <1>5, CommitAttachKept, CloseConnectionKept, CloseKept
<1>6. CASE \E s \in Sessions : BeginDraining(s) \/ Close(s) \/ RunCleanup(s)
  BY <1>6, BeginDrainingKept, CloseKept, RunCleanupKept
<1>7. CASE CloseAll
  BY <1>7, CloseKept
<1>8. CASE Tick
  BY <1>8, TickKept
<1>9. CASE UNCHANGED vars
  <2>1. owed \in [Sessions -> Nat] /\ now \in Nat
    BY DEF IndInv, Held
  <2> QED BY <1>9, <2>1, IdleKept DEF vars
<1> QED BY <1>1, <1>2, <1>3, <1>4, <1>5, <1>6, <1>7, <1>8, <1>9 DEF Next

LEMMA InitIndInv == Init => IndInv
<1> SUFFICES ASSUME Init PROVE IndInv
  OBVIOUS
<1>1. Held
  BY DEF Init, Held
<1>2. Agree(sessions, connections, pending_connections, authenticated_connections)
  BY DEF Init, Agree, Typed, ConnOK, PendOK, PathOK
<1>3. Issued /\ Attaching
  BY DEF Init, Issued, Attaching
<1>4. Counted
  <2>1. /\ Live = {} /\ Reserved = {} /\ Bound(authenticated_connections) = {}
        /\ Bound(pending_connections) = {}
    BY DEF Init, Live, Reserved, Bound
  <2>2. MaxSessions * MaxPaths \in Nat /\ MaxPending \in Nat /\ MaxSessions \in Nat
    BY ManagerBounds, PathBounds
  <2>3. MaxSessions * MaxPaths >= 0
    <3> DEFINE M == MaxSessions * MaxPaths
    <3>1. M \in Nat
      BY <2>2
    <3> HIDE DEF M
    <3>2. M >= 0
      BY <3>1
    <3> QED BY <3>2 DEF M
  <2> QED BY <2>1, <2>2, <2>3, FS_EmptySet DEF Counted, SessionsCounted
<1> QED BY <1>1, <1>2, <1>3, <1>4 DEF IndInv

-----------------------------------------------------------------------------
\* The results

\* The invariant holds after every sequence of the manager's methods.
THEOREM Inductive == Spec => []IndInv
<1>1. IndInv /\ [Next]_vars => IndInv'
  BY NextKept DEF Kept
<1> QED BY InitIndInv, <1>1, PTL DEF Spec

\* Whatever the listeners, the sweep and the shutdown call, in whatever order,
\* the maps of session_manager.rs keep their types.
THEOREM TypeCorrect == Spec => []TypeOK
<1>1. IndInv => TypeOK
  BY MapsTyped DEF IndInv, Held, TypeOK
<1> QED BY <1>1, Inductive, PTL

\* A path, the connection it is attached to and the authentication of that
\* connection never disagree: after any attach, detach, close, expiry and sweep
\* a committed path is the binding of one authenticated connection and a
\* reserved path its pending attach.
THEOREM PathsStayBound == Spec => []PathsBound
<1>1. ASSUME IndInv PROVE PathsBound
  <2>1. Agree(sessions, connections, pending_connections, authenticated_connections)
    BY <1>1 DEF IndInv
  <2>2. ASSUME NEW c \in Conns, connections[c] # None
        PROVE  /\ pending_connections[c] = None
               /\ authenticated_connections[c] = connections[c].session
               /\ connections[c].session \in Live
               /\ Owns(connections, c, connections[c].session,
                       connections[c].path, FALSE)
    <3>1. ConnOK(sessions, connections, pending_connections,
                 authenticated_connections, c)
      BY <2>1 DEF Agree
    <3>2. connections[c].session \in Sessions
      BY <1>1, <2>2, MapsTyped DEF Binding
    <3> QED BY <2>2, <3>1, <3>2 DEF ConnOK, Entry, Owns, Live
  <2>3. ASSUME NEW c \in Conns, pending_connections[c] # None
        PROVE  /\ authenticated_connections[c] = pending_connections[c].session
               /\ pending_connections[c].session \in Live
               /\ Owns(pending_connections, c, pending_connections[c].session,
                       pending_connections[c].path, TRUE)
    <3>1. PendOK(sessions, pending_connections, authenticated_connections, c)
      BY <2>1 DEF Agree
    <3>2. pending_connections[c].session \in Sessions
      BY <1>1, <2>3, MapsTyped DEF PendingAttach
    <3> QED BY <2>3, <3>1, <3>2 DEF PendOK, Entry, Owns, Live
  <2>4. ASSUME NEW s \in Live, NEW p \in PathIds, sessions[s].paths[p] # None
        PROVE  LET x == sessions[s].paths[p]
               IN IF x.reserved THEN Owns(pending_connections, x.conn, s, p, TRUE)
                                ELSE Owns(connections, x.conn, s, p, FALSE)
    <3> DEFINE x == sessions[s].paths[p]
    <3>1. s \in Sessions /\ sessions[s] # None /\ sessions[s].paths[p] = x
      BY DEF Live
    <3>2. PathOK(sessions, connections, pending_connections, s, p)
      BY <2>1, <3>1 DEF Agree
    <3>3. CASE x.reserved
      <4>1. /\ pending_connections[x.conn] # None
            /\ pending_connections[x.conn].session = s
            /\ pending_connections[x.conn].path = p
            /\ x = Entry(x.conn, pending_connections[x.conn], TRUE)
        BY <2>4, <3>1, <3>2, <3>3 DEF PathOK
      <4> HIDE DEF x
      <4>2. Owns(pending_connections, x.conn, s, p, TRUE)
        BY <3>1, <4>1 DEF Owns, Entry
      <4> QED BY <3>1, <3>3, <4>2
    <3>4. CASE ~x.reserved
      <4>1. /\ connections[x.conn] # None
            /\ connections[x.conn].session = s
            /\ connections[x.conn].path = p
            /\ x = Entry(x.conn, connections[x.conn], FALSE)
        BY <2>4, <3>1, <3>2, <3>4 DEF PathOK
      <4> HIDE DEF x
      <4>2. Owns(connections, x.conn, s, p, FALSE)
        BY <3>1, <4>1 DEF Owns, Entry
      <4> QED BY <3>1, <3>4, <4>2
    <3> QED BY <3>3, <3>4
  <2> QED BY <2>2, <2>3, <2>4 DEF PathsBound
<1> QED BY <1>1, Inductive, PTL

\* A capability that the manager honours is the one it issued, for a session
\* that lives; a later session of the same name is not the one it names.
THEOREM CapabilitiesCurrent == Spec => []HandlesCurrent
<1>1. ASSUME IndInv PROVE HandlesCurrent
  <2>1. \A c \in Conns : authenticated_connections[c] # None =>
          authenticated_connections[c] \in Sessions /\ authenticated_connections[c] \in Live
    BY <1>1, MapsTyped DEF IndInv, Agree, Live
  <2> QED BY <1>1, <2>1 DEF IndInv, Issued, HandlesCurrent
<1> QED BY <1>1, Inductive, PTL

\* Sessions with reservations, authenticated connections, pending attaches, the
\* paths, the epoch history and the quarantine of every session stay within
\* their configured maxima, and the quarantine's queue lists what it holds.
THEOREM LimitsHold == Spec => []WithinLimits
<1>1. ASSUME IndInv PROVE WithinLimits
  <2>1. ASSUME NEW s \in Live PROVE Sound(sessions[s])
    BY <1>1, MapsTyped DEF Live
  <2>2. \A s \in Live :
          /\ Cardinality(Present(sessions[s].paths)) <= MaxPaths
          /\ Cardinality(Present(sessions[s].history)) <= MaxHistory
          /\ Cardinality(Present(sessions[s].tombs)) <= MaxTombstones
    BY <2>1 DEF Sound, Small
  <2>3. TombstonesQueued
    BY <2>1 DEF TombstonesQueued, Sound, Queued, Remembered
  <2> QED BY <1>1, <2>2, <2>3 DEF IndInv, Counted, SessionsCounted, WithinLimits
<1> QED BY <1>1, Inductive, PTL

\* reserve_attach hands an identifier out again only with a path epoch and a key
\* epoch above every one it had in this session, and nothing else gives a path
\* to a session or shortens its history.
THEOREM EpochsOnlyAdvance == Spec => EpochsAdvance
<1>1. IndInv /\ [Next]_vars =>
        [\A s \in Live : sessions'[s] # None =>
           \A p \in Present(sessions[s].history) :
             /\ sessions'[s].history[p] # None
             /\ sessions'[s].history[p].pe >= sessions[s].history[p].pe
             /\ sessions'[s].history[p].ke >= sessions[s].history[p].ke
             /\ sessions[s].paths[p] = None /\ sessions'[s].paths[p] # None =>
                  /\ sessions'[s].paths[p].pe > sessions[s].history[p].pe
                  /\ sessions'[s].paths[p].ke > sessions[s].history[p].ke]_vars
  <2> SUFFICES ASSUME IndInv, [Next]_vars
               PROVE  \A s \in Live : sessions'[s] # None =>
                        \A p \in Present(sessions[s].history) :
                          /\ sessions'[s].history[p] # None
                          /\ sessions'[s].history[p].pe >= sessions[s].history[p].pe
                          /\ sessions'[s].history[p].ke >= sessions[s].history[p].ke
                          /\ sessions[s].paths[p] = None /\ sessions'[s].paths[p] # None =>
                               /\ sessions'[s].paths[p].pe > sessions[s].history[p].pe
                               /\ sessions'[s].paths[p].ke > sessions[s].history[p].ke
    OBVIOUS
  <2>1. Advances(sessions, sessions')
    BY NextKept DEF Kept
  <2> QED BY <2>1 DEF Advances, Live
<1> QED BY <1>1, Inductive, PTL DEF Spec, EpochsAdvance
=============================================================================
