---------------------------- MODULE MCAddressPool ----------------------------
(* Instances of AddressPool for TLC. *)
EXTENDS LeaseRefinement

\* Threads and devices are interchangeable; sessions and addresses are ordered.
PoolSymmetry == Permutations(Workers) \cup Permutations(Devices)
=============================================================================
