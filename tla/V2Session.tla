------------------------------ MODULE V2Session ------------------------------
(***************************************************************************)
(* One V2 session (sg-session/src/v2.rs) as a value and the operations on  *)
(* it: path reservation, commit, abort and detach, the allocator of path   *)
(* identifiers with its epoch history, and the bounded quarantine          *)
(* (tombstones) of detached identifiers.  SessionManager keeps a map of    *)
(* these values.                                                           *)
(***************************************************************************)
EXTENDS Naturals, FiniteSets, Sequences

CONSTANTS
  Devices,          \* owner of a session: device and organization together
  Conns,            \* connection identifiers, handed out in order
  LastPathId,       \* path identifiers are 1 .. LastPathId (u16::MAX)
  Epochs,           \* path and key epochs a client may ask for, never 0
  MaxPaths,         \* maximum_paths
  MaxHistory,       \* maximum_path_epoch_history
  MaxTombstones,    \* maximum_path_tombstones
  TombstoneTTL,     \* path_tombstone_ttl_ms, in ticks
  None              \* absence of a path, a binding, a session...

ASSUME ConnsAssumption == Conns \subseteq Nat \ {0}
ASSUME EpochsAssumption == Epochs \subseteq Nat \ {0}
ASSUME PathBounds ==
  /\ LastPathId \in Nat \ {0}
  /\ MaxPaths \in Nat \ {0}
  /\ MaxHistory \in Nat /\ MaxPaths <= MaxHistory
  /\ MaxTombstones \in Nat \ {0} /\ TombstoneTTL \in Nat \ {0}

PathIds == 1 .. LastPathId

\* PathEntry: the epochs and the connection of a path, reserved or committed
\* (and then Healthy: commit_attach of the manager takes it there at once).
Path == [conn : Conns, pe : Epochs, ke : Epochs, reserved : BOOLEAN]

\* PathEpochs: the largest epochs an identifier was given out with.
PathEpochs == [pe : Epochs, ke : Epochs]

Session ==
  [dev : Devices, exp : Nat, state : {"Active", "Draining"}, last : Nat,
   paths : [PathIds -> Path \cup {None}], next : PathIds,
   history : [PathIds -> PathEpochs \cup {None}],
   tombs : [PathIds -> Nat \cup {None}], order : Seq(PathIds)]

ASSUME SessionNone ==
  None \notin Path /\ None \notin PathEpochs /\ None \notin Session
    /\ None \notin Nat

NoPaths == [p \in PathIds |-> None]
Present(f) == {p \in PathIds : f[p] # None}

\* V2Session::new followed by activate; the manager stamps last_activity_ms.
NewSession(dev, exp, now) ==
  [dev |-> dev, exp |-> exp, state |-> "Active", last |-> now,
   paths |-> NoPaths, next |-> 1, history |-> NoPaths,
   tombs |-> NoPaths, order |-> <<>>]

IsExpired(x, now) == now >= x.exp

-----------------------------------------------------------------------------
\* Tombstones

\* prune_path_tombstones pops the queue until its front is still quarantined:
\* the entries before the first unexpired one go.
FirstKept(x, now) ==
  LET kept == {i \in 1 .. Len(x.order) :
                 x.tombs[x.order[i]] # None /\ x.tombs[x.order[i]] > now}
  IN IF kept = {} THEN Len(x.order) + 1
     ELSE CHOOSE i \in kept : \A j \in kept : i <= j

PrunePathTombstones(x, now) ==
  LET first == FirstKept(x, now)
      popped == {x.order[i] : i \in 1 .. first - 1}
  IN [x EXCEPT
        !.tombs = [p \in PathIds |-> IF p \in popped THEN None ELSE x.tombs[p]],
        !.order = SubSeq(x.order, first, Len(x.order))]

\* Mutant: the quarantine grows past its bound.
InsertTombstoneUnbounded(x, p, now) ==
  [x EXCEPT !.tombs = [x.tombs EXCEPT ![p] = now + TombstoneTTL],
            !.order = Append(x.order, p)]

\* insert_tombstone: a full quarantine first loses its oldest entry.  (Its loop
\* runs at most once: the quarantine never holds more than its bound.)  The
\* history entry of p is not below p's epochs already.
InsertTombstone(x, p, now) ==
  LET full == Cardinality(Present(x.tombs)) >= MaxTombstones /\ x.order # <<>>
      kept == IF full THEN [x.tombs EXCEPT ![Head(x.order)] = None] ELSE x.tombs
      queue == IF full THEN Tail(x.order) ELSE x.order
  IN [x EXCEPT !.tombs = [kept EXCEPT ![p] = now + TombstoneTTL],
               !.order = Append(queue, p)]

-----------------------------------------------------------------------------
\* Paths

\* Mutant: a reused identifier keeps its old key epoch.
AllocatableStaleKey(x, pe, ke) ==
  {p \in PathIds :
     /\ x.paths[p] = None
     /\ x.tombs[p] = None
     /\ IF x.history[p] # None THEN pe > x.history[p].pe
        ELSE Cardinality(Present(x.history)) < MaxHistory}

\* The identifiers allocate_path_id may return for these epochs.
Allocatable(x, pe, ke) ==
  {p \in PathIds :
     /\ x.paths[p] = None
     /\ x.tombs[p] = None
     /\ IF x.history[p] # None
        THEN pe > x.history[p].pe /\ ke > x.history[p].ke
        ELSE Cardinality(Present(x.history)) < MaxHistory}

\* How many identifiers the cyclic scan from next_path_id looks at before p.
Distance(x, p) == IF p >= x.next THEN p - x.next ELSE p + LastPathId - x.next

\* allocate_path_id returns the first in the scan.
IsAllocated(x, pe, ke, p) ==
  /\ p \in Allocatable(x, pe, ke)
  /\ \A q \in Allocatable(x, pe, ke) : Distance(x, p) <= Distance(x, q)

\* The guards of reserve_attach before it allocates.
MayReserve(x, c, now) ==
  /\ ~IsExpired(x, now)
  /\ x.state = "Active"
  /\ \A p \in Present(x.paths) : x.paths[p].conn # c
  /\ Cardinality(Present(x.paths)) < MaxPaths

ReservePath(x, c, p, pe, ke) ==
  [x EXCEPT
     !.next = IF p = LastPathId THEN 1 ELSE p + 1,
     !.history = [x.history EXCEPT ![p] = [pe |-> pe, ke |-> ke]],
     !.paths = [x.paths EXCEPT
        ![p] = [conn |-> c, pe |-> pe, ke |-> ke, reserved |-> TRUE]]]

\* The path an attach reservation r of connection c stands for.
IsReservation(x, c, r) ==
  /\ x.paths[r.path] # None
  /\ x.paths[r.path] = [conn |-> c, pe |-> r.pe, ke |-> r.ke, reserved |-> TRUE]

CommitPath(x, p) == [x EXCEPT !.paths = [x.paths EXCEPT ![p].reserved = FALSE]]

AbortPath(x, c, r) ==
  IF IsReservation(x, c, r)
  THEN [x EXCEPT !.paths = [x.paths EXCEPT ![r.path] = None]]
  ELSE x

Detach(x, p, c, pe, now) ==
  IF /\ x.paths[p] # None
     /\ ~x.paths[p].reserved
     /\ x.paths[p].conn = c
     /\ x.paths[p].pe = pe
  THEN [InsertTombstone(x, p, now) EXCEPT
          !.paths = [x.paths EXCEPT ![p] = None]]
  ELSE x
=============================================================================
