--------------------------- MODULE MCSessionManager ---------------------------
(* Instances of SessionManager for TLC. *)
EXTENDS SessionManager, TLC

\* Sessions and tasks have no order; connections and epochs do.
SessionSymmetry == Permutations(Sessions) \cup Permutations(Tasks)
=============================================================================
