--------------------------- MODULE LeaseRefinement ---------------------------
(***************************************************************************)
(* AddressPool implements LeaseTable: the table is what is in the maps and *)
(* inside the calls that took a lease out of them for their journal write. *)
(***************************************************************************)
EXTENDS AddressPool

Entry(s, lease) == [session |-> s, dev |-> lease.dev, addr |-> lease.addr]

Leases ==
  {Entry(s, active[s]) : s \in Keys(active)}
    \cup {Entry(s, pending[s]) : s \in Keys(pending)}
    \cup UNION {{Entry(s, op[w].taken[s]) : s \in Parked(w)} : w \in Workers}

Table ==
  INSTANCE LeaseTable WITH
    leases <- Leases, blocked <- AddrsOf(release_pending), serving <- phase = "up"

\* The pool implements the table: an address changes hands only by coming free
\* first, a quarantined one is given to nobody before its record is deleted,
\* and a lease stays with the device it was made for, although every call
\* releases the mutex for its journal write and a crash may come between.
Refines == Table!Spec
=============================================================================
