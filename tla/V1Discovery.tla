------------------------------ MODULE V1Discovery ------------------------------
(***************************************************************************)
(* Interface discovery of the V1 client: the path identifiers main gives   *)
(* the interfaces it starts with, the rescan that numbers them again with  *)
(* a map of its own, and the paths it adds and removes.                    *)
(***************************************************************************)
EXTENDS Naturals, FiniteSets, Option

CONSTANTS
  Ifaces,             \* physical interfaces, numbered in the order a scan lists them
  Routed,             \* those with a default gateway and an index
  GraceScans          \* RESCAN_GRACE_TICKS

\* Interfaces are numbered, and the grace period is a scan at least.
ASSUME ScanLimits ==
  /\ Ifaces \subseteq Nat /\ IsFiniteSet(Ifaces) /\ None \notin Nat
  /\ GraceScans \in Nat \ {0}

VARIABLES
  present,            \* interfaces that are up
  bound,              \* the interface the transport of each path rides on
  path_map,           \* the identifiers the rescan has given
  missing,            \* scans a path has been missing in a row
  quiet               \* history: scans since an interface changed or a connect failed

discovery_vars == <<present, bound, path_map, missing, quiet>>

PathIds == 0..Cardinality(Ifaces) - 1

\* filter_candidates: those without a gateway count only when no other is up.
Candidates(up) == IF up \cap Routed # {} THEN up \cap Routed ELSE up

\* PathMap::id_for for a whole scan, in its order.
Numbered(map, seen) ==
  LET known == {i \in Ifaces : map[i] # None}
      rank(i) == Cardinality({j \in seen \ known : j < i})
  IN [i \in Ifaces |-> IF i \in seen \ known THEN Cardinality(known) + rank(i) ELSE map[i]]

Plugs(i) ==
  /\ i \notin present /\ present' = present \cup {i} /\ quiet' = 0
  /\ UNCHANGED <<bound, path_map, missing>>

Unplugs(i) ==
  /\ i \in present /\ present' = present \ {i} /\ quiet' = 0
  /\ UNCHANGED <<bound, path_map, missing>>

Counts(ids) == [p \in PathIds |-> IF p \in ids THEN 0 ELSE missing[p] + 1]

\* Mutant: the grace period lasts one scan longer.
ExpiredLate(n) == n > GraceScans

Expired(n) == n >= GraceScans

\* One scan: the transports of new paths connect, except those in refused, and
\* the paths that have been missing for the grace period go.
Rescans(refused) ==
  LET seen == Candidates(present)
      map == Numbered(path_map, seen)
      ids == {map[i] : i \in seen}
      before == {p \in PathIds : bound[p] # None}
      gone == {p \in before : Expired(Counts(ids)[p])}
  IN /\ refused \subseteq ids \ before
     /\ path_map' = map
     /\ bound' = [p \in PathIds |->
          IF p \in gone THEN None
          ELSE IF p \in ids \ (before \cup refused)
               THEN CHOOSE i \in seen : map[i] = p
               ELSE bound[p]]
     /\ missing' = [p \in PathIds |-> IF p \in gone THEN 0
                                      ELSE IF p \in before THEN Counts(ids)[p]
                                      ELSE missing[p]]
     /\ quiet' = IF refused # {} THEN 0 ELSE IF quiet < GraceScans THEN quiet + 1 ELSE quiet
     /\ UNCHANGED present

\* The rescan starts with a map of its own.
RescanInit ==
  path_map = [i \in Ifaces |-> None] /\ missing = [p \in PathIds |-> 0]

DiscoveryInit ==
  /\ present \in SUBSET Ifaces \ {{}}
  /\ LET seen == Candidates(present)
         map == Numbered([i \in Ifaces |-> None], seen)
     IN bound = [p \in PathIds |->
          IF \E i \in seen : map[i] = p THEN CHOOSE i \in seen : map[i] = p ELSE None]
  /\ RescanInit /\ quiet = 0

DiscoveryNext ==
  \/ \E refused \in SUBSET PathIds : Rescans(refused)
  \/ \E i \in Ifaces : Plugs(i) \/ Unplugs(i)

DiscoverySpec == DiscoveryInit /\ [][DiscoveryNext]_discovery_vars

-----------------------------------------------------------------------------
\* The paths settle: once the interfaces have been left alone for the grace
\* period and no connect has failed meanwhile, the session has a path for each
\* identifier the rescan gave to a candidate interface, and no other,
\* although the paths of the start were numbered by another map; and a path
\* that comes back has its whole grace period before it.
PathsSettle ==
  /\ quiet >= GraceScans =>
       {p \in PathIds : bound[p] # None} = {path_map[i] : i \in Candidates(present)}
  /\ \A p \in PathIds : bound[p] = None => missing[p] = 0
=============================================================================
