-------------------------- MODULE MCGatewayRuntime --------------------------
EXTENDS GatewayRuntime, TLC

\* A ticket per session, named after it.
OneEach == [t \in Tickets |-> t]

\* Every ticket is for the one session: resumption and re-admission.
Shared == [t \in Tickets |-> CHOOSE s \in Sessions : TRUE]

GatewaySymmetry == Permutations(Tickets) \cup Permutations(Sources)
=============================================================================
