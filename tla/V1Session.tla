------------------------------- MODULE V1Session -------------------------------
(***************************************************************************)
(* The V1 session shared by the client and the gateway: bound paths, the   *)
(* active path, the adopted downlink weights and the session-global        *)
(* reorder buffer with its dedup window. Weights are reduced to the set of *)
(* paths that carry one; BondingScheduler models how they spread packets.  *)
(***************************************************************************)
EXTENDS Naturals, FiniteSets, Option

CONSTANTS
  Paths,              \* path identifiers, 1..n
  Capacity            \* of the reorder buffer and of its dedup window

ASSUME PathsNumbered == Paths \subseteq Nat /\ None \notin Paths

-----------------------------------------------------------------------------
\* ReorderBuffer, ReorderWindow

NewBuffer == [next |-> 0, held |-> {}, seen |-> [i \in 0..Capacity - 1 |-> None]]

\* The window is marked before any other check, so a packet dropped for being
\* too far ahead counts as seen.
Accept(b, seq) == [b EXCEPT !.seen[seq % Capacity] = seq]

Passes(b, seq) ==
  /\ b.seen[seq % Capacity] # seq
  /\ seq >= b.next /\ seq <= b.next + Capacity

\* The first number after seq that the buffer does not hold.
Drained(b, seq) ==
  CHOOSE n \in seq + 1..seq + 1 + Cardinality(b.held) :
    n \notin b.held /\ seq + 1..n - 1 \subseteq b.held

Deliver(b, seq) ==
  LET marked == Accept(b, seq) IN
  IF ~Passes(b, seq) THEN marked
  ELSE IF seq = b.next
       THEN [marked EXCEPT !.next = Drained(b, seq), !.held = @ \ seq..Drained(b, seq)]
       ELSE IF Cardinality(b.held) < Capacity THEN [marked EXCEPT !.held = @ \cup {seq}]
            ELSE marked

\* What one arrival releases, in ascending order.
Released(b, seq) == [i \in 1..Deliver(b, seq).next - b.next |-> b.next + i - 1]

-----------------------------------------------------------------------------
\* Session

NewSession ==
  [paths |-> [p \in Paths |-> None], active |-> None, bonds |-> {}, fresh |-> FALSE,
   reorder |-> NewBuffer]

Bound(s) == {p \in Paths : s.paths[p] # None}

AddPath(s, p, transport) ==
  [s EXCEPT !.paths[p] = transport, !.active = IF @ = None THEN p ELSE @]

SetActive(s, p) == IF p \in Bound(s) THEN [s EXCEPT !.active = p] ELSE s

Lowest(S) == IF S = {} THEN None ELSE CHOOSE p \in S : \A q \in S : p <= q

Cleared(s, gone) == [p \in Paths |-> IF p \in gone THEN None ELSE s.paths[p]]

\* Mutant: a removed active path is not replaced.
RemoveOnly(s, gone) == [s EXCEPT !.paths = Cleared(s, gone), !.bonds = @ \ gone]

\* remove_path for every path of gone, under one lock: what the calls leave
\* together, in whichever order they come.
RemovePaths(s, gone) ==
  IF gone \cap Bound(s) = {} THEN s
  ELSE [s EXCEPT !.paths = Cleared(s, gone),
                 !.active = IF @ \in gone THEN Lowest(Bound(s) \ gone) ELSE @,
                 !.bonds = @ \ gone,
                 !.fresh = @ /\ s.bonds \ gone # {}]

\* A set with no bound path that carries weight drops the bond altogether.
AdoptWeights(s, weighted) ==
  [s EXCEPT !.bonds = weighted \cap Bound(s), !.fresh = weighted \cap Bound(s) # {}]

\* The adopted weights outlived their time to live.
Expire(s) == [s EXCEPT !.bonds = {}, !.fresh = FALSE]

Egress(s) == IF s.fresh THEN s.bonds ELSE {s.active} \ {None}
=============================================================================
