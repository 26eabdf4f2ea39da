------------------------------- MODULE Ordering -------------------------------
(***************************************************************************)
(* The order in which the code visits things, and what retain leaves of a  *)
(* queue.  Both are functions of positions rather than recursions, so that *)
(* they can be reasoned about.                                             *)
(***************************************************************************)
EXTENDS Naturals, FiniteSets, Sequences

\* How many members of S are below s.
Rank(s, S) == Cardinality({x \in S : x < s})

\* The members of a finite set of numbers, in order.
InOrder(S) == [k \in 1..Cardinality(S) |-> CHOOSE s \in S : Rank(s, S) = k - 1]

\* The elements of q at the positions P, in the order of q.
Kept(q, P) == [k \in 1..Cardinality(P) |-> q[InOrder(P)[k]]]
=============================================================================
