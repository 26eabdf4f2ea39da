-------------------------- MODULE MCTicketRedemption --------------------------
(* Instances of TicketRedemption for TLC. *)
EXTENDS TicketRedemption, TLC

CONSTANTS k1, k2, k3

\* Redeeming the ticket that lives longest drops the entries of the others.
Lifetimes == (k1 :> 1) @@ (k2 :> 2) @@ (k3 :> 4)
=============================================================================
