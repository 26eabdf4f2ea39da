----------------------------- MODULE MCClientPlane -----------------------------
(***************************************************************************)
(* The V1 path plane and the services of the client in one run: the V1     *)
(* gateway tunnel, the client engine, the bonding scheduler, interface     *)
(* discovery, the status server, the kill switch and the TUN driver. They  *)
(* share no state; a behaviour is one of the component in focus while the  *)
(* others rest.                                                            *)
(***************************************************************************)
EXTENDS KillSwitch, StatusPlane, TunDriver, V1Tunnel, V1Client, V1Discovery

VARIABLES
  focus,                                        \* the component that runs
  weights, current, waited                      \* BondingScheduler

Scheduler == INSTANCE BondingScheduler WITH Scores <- 1..3, Unit <- 60

ServedClasses == <<"Realtime", "Bulk">>

-----------------------------------------------------------------------------
scheduler_vars == <<weights, current, waited>>

\* A component out of focus rests in one of its initial states.
RunInit ==
  /\ focus \in {"tunnel", "client", "scheduler", "discovery", "status", "protection", "driver"}
  /\ TunnelInit /\ ClientInit /\ Scheduler!Init /\ DiscoveryInit
  /\ StatusInit /\ ProtectionInit /\ DriverInit
  /\ focus # "discovery" => present = {1}

RunNext ==
  \/ /\ focus = "tunnel" /\ TunnelNext
     /\ UNCHANGED <<focus, client_vars, scheduler_vars, discovery_vars, status_vars,
                    protection_vars, driver_vars>>
  \/ /\ focus = "client" /\ ClientNext
     /\ UNCHANGED <<focus, tunnel_vars, scheduler_vars, discovery_vars, status_vars,
                    protection_vars, driver_vars>>
  \/ /\ focus = "scheduler" /\ Scheduler!Next
     /\ UNCHANGED <<focus, tunnel_vars, client_vars, discovery_vars, status_vars,
                    protection_vars, driver_vars>>
  \/ /\ focus = "discovery" /\ DiscoveryNext
     /\ UNCHANGED <<focus, tunnel_vars, client_vars, scheduler_vars, status_vars,
                    protection_vars, driver_vars>>
  \/ /\ focus = "status" /\ StatusNext
     /\ UNCHANGED <<focus, tunnel_vars, client_vars, scheduler_vars, discovery_vars,
                    protection_vars, driver_vars>>
  \/ /\ focus = "protection" /\ ProtectionNext
     /\ UNCHANGED <<focus, tunnel_vars, client_vars, scheduler_vars, discovery_vars,
                    status_vars, driver_vars>>
  \/ /\ focus = "driver" /\ DriverNext
     /\ UNCHANGED <<focus, tunnel_vars, client_vars, scheduler_vars, discovery_vars,
                    status_vars, protection_vars>>

run_vars ==
  <<focus, tunnel_vars, client_vars, scheduler_vars, discovery_vars, status_vars,
    protection_vars, driver_vars>>

RunSpec == RunInit /\ [][RunNext]_run_vars

-----------------------------------------------------------------------------
\* Bonding: no path that carries weight is starved, although the accumulators
\* of paths that come and go are kept.
NoStarvation == Scheduler!NoStarvation
=============================================================================
