------------------------------ MODULE LeaseTable ------------------------------
(***************************************************************************)
(* What the address pool promises, without threads, phases, clocks or a    *)
(* journal: a table of leases, one address for a session and one session   *)
(* for an address, and the addresses kept back because the deletion of     *)
(* their record is still owed. A crash loses the table; a start fills it   *)
(* again before it serves.                                                 *)
(***************************************************************************)
CONSTANTS
  Sessions, Devices, Addresses

VARIABLES
  leases,    \* who holds which address
  blocked,   \* addresses kept back
  serving    \* the recovery of the last start is over

Lease == [session : Sessions, dev : Devices, addr : Addresses]

Init == leases = {} /\ blocked = {} /\ ~serving

\* An address that nobody else holds and that is not kept back goes to one
\* session, which gives up the lease it had.
Take(l) ==
  LET rest == {m \in leases : m.session # l.session}
  IN /\ serving /\ serving'
     /\ l.addr \notin blocked /\ \A m \in rest : m.addr # l.addr
     /\ leases' = rest \cup {l}
     /\ UNCHANGED blocked

\* Leases are given up: some of the addresses are kept back, others come free.
Give ==
  /\ serving /\ serving'
  /\ leases' \subseteq leases
  /\ blocked' \subseteq blocked \cup {l.addr : l \in leases \ leases'}

Crash == leases' = {} /\ blocked' = {} /\ ~serving'

\* A start fills the empty table.
Restore ==
  /\ ~serving /\ ~serving' /\ leases = {}
  /\ leases' \subseteq Lease
  /\ \A l, m \in leases' : l.session = m.session \/ l.addr = m.addr => l = m
  /\ UNCHANGED blocked

\* The addresses of records the start could not delete are kept back.
Serve ==
  /\ ~serving /\ serving'
  /\ blocked' \subseteq Addresses
  /\ UNCHANGED leases

Next == Give \/ (\E l \in Lease : Take(l)) \/ Crash \/ Restore \/ Serve

Spec == Init /\ [][Next]_<<leases, blocked, serving>>
=============================================================================
