--------------------------- MODULE BondingScheduler ---------------------------
(***************************************************************************)
(* WeightedBondingScheduler: the weights that health gives the bound paths *)
(* and the smooth weighted round robin whose accumulators outlive every    *)
(* update. Shares are exact fractions of Unit; the code rounds them to f32.*)
(***************************************************************************)
EXTENDS Integers, FiniteSets, FiniteSetsExt

CONSTANTS
  Paths,              \* path identifiers, small numbers
  Scores,             \* scores of an eligible path, positive
  Unit                \* a multiple of every sum of scores

VARIABLES
  weights,            \* normalized share of each path, 0 for the others
  current,            \* smooth-WRR accumulators
  waited              \* history: decisions since the path was last chosen

vars == <<weights, current, waited>>

Weighted == {p \in Paths : weights[p] > 0}

\* recompute: the scores of the eligible paths, divided by their sum.
Normalized(raw) ==
  LET total == MapThenSumSet(LAMBDA p : raw[p], Paths)
  IN [p \in Paths |-> IF total = 0 THEN 0 ELSE (raw[p] * Unit) \div total]

\* update_from, update_metrics and adopt_weights: only the weights change.
Updates(raw) ==
  /\ weights' = Normalized(raw)
  /\ waited' = [p \in Paths |-> IF weights'[p] = weights[p] THEN waited[p] ELSE 0]
  /\ UNCHANGED current

Advanced == [p \in Paths |-> current[p] + weights[p]]

\* The largest accumulator wins; the lowest identifier of equals.
Winner ==
  CHOOSE p \in Weighted : \A q \in Weighted \ {p} :
    Advanced[p] > Advanced[q] \/ (Advanced[p] = Advanced[q] /\ p < q)

\* Mutant: the winner pays its own weight instead of the total.
PaysOwn(p) == [Advanced EXCEPT ![p] = @ - weights[p]]

Pays(p) == [Advanced EXCEPT ![p] = @ - Unit]

Decides ==
  /\ Weighted # {}
  /\ current' = Pays(Winner)
  /\ waited' = [p \in Paths |-> IF p \in Weighted \ {Winner} THEN waited[p] + 1 ELSE 0]
  /\ UNCHANGED weights

Init ==
  /\ weights = [p \in Paths |-> 0] /\ current = [p \in Paths |-> 0]
  /\ waited = [p \in Paths |-> 0]

Next == Decides \/ \E raw \in [Paths -> Scores \cup {0}] : Updates(raw)

Spec == Init /\ [][Next]_vars

-----------------------------------------------------------------------------
\* No path that carries weight is starved, although the accumulators of
\* paths that come and go are kept: it is chosen again within twice the
\* number of decisions its share asks for, and nobody is owed or owes more
\* than one decision per path.
NoStarvation ==
  /\ \A p \in Weighted : waited[p] * weights[p] <= 2 * Unit
  /\ \A p \in Paths : current[p] \in -Unit..Unit
=============================================================================
